------------------------------ MODULE ApiProofs ------------------------------
(***************************************************************************)
(* The API and its clients keep the promise of Delivery, and the limiter   *)
(* in front of it keeps its own, for any callers, messages, retries and    *)
(* rates.                                                                  *)
(***************************************************************************)
EXTENDS Api, RateLimiterProofs, FiniteSetTheorems

USE RetriesAssumption, MessagesAssumption

----------------------------------------------------------------------------
(* The limiter inside the API.                                             *)

\* A step of the API is a step of the limiter or leaves it alone.
LEMMA StepsOfLimiter == [Next]_vars => [LimiterNext]_limiterVars
<1> SUFFICES ASSUME [Next]_vars PROVE [LimiterNext]_limiterVars
  OBVIOUS
<1>1. ASSUME NEW c \in Caller, Configure(c) PROVE UNCHANGED limiterVars
  BY <1>1 DEF Configure, SetUsername, SetEncryptionKey, Login
<1>2. ASSUME NEW c \in Caller, Start(c) PROVE UNCHANGED limiterVars
  BY <1>2 DEF Start, SendMessage, GetMessages, GenerateEncryptionKey, Begin
<1>3. ASSUME NEW c \in Caller, Proceed(c) PROVE UNCHANGED limiterVars
  BY <1>3 DEF Proceed, Attempt, GiveUp, Receive
<1>4. CASE Serve
  BY <1>4 DEF Serve, AddMessage, Reply, Arrive, LimiterNext
<1>5. CASE TimePasses \/ \E k \in Client : OtherRequest(k)
  BY <1>5 DEF TimePasses, OtherRequest, LimiterNext
<1>6. CASE UNCHANGED vars
  BY <1>6 DEF vars
<1> QED BY <1>1, <1>2, <1>3, <1>4, <1>5, <1>6 DEF Next

\* The limiter inside the API behaves as the limiter on its own.
THEOREM ApiHasALimiter == Spec => LimiterSpec
<1>1. Init => LimiterInit
  BY DEF Init
<1> QED BY <1>1, StepsOfLimiter, PTL DEF Spec, LimiterSpec

\* Under no key do the callers get more through than a token bucket admits;
\* how many keys their retries on new connections have is up to them.
THEOREM ApiIsWithinTokenBucket == Spec => []WithinTokenBucket
  BY ApiHasALimiter, NeverExceedsTokenBucket, PTL

\* A key of the limiter that was not used for a second is served, whatever
\* requests come under others in between.
THEOREM ApiServesQuietClients == Spec => QuietClientIsServed
  BY ApiHasALimiter, QuietClientsAreServed

----------------------------------------------------------------------------
(* The inductive invariant.                                                *)

LEMMA ApiInvInit == Init => ApiInv
  BY KeysAssumption
     DEF Init, ApiInv, ApiTypeOK, CallsAreOpen, OpenIsCurrent, RequestsAreAttempts,
         CopiesAreAttempts, RequestsFitLog, Sending, MessageRequests, NoCall, CallState, KeyState

\* What the invariant says depends on neither names, keys nor the limiter.
LEMMA ApiInvOthers ==
  ASSUME ApiInv, UNCHANGED <<call, net, log, calls, outcome>>,
         kind' \in [Caller -> {"sdk", "pkg", "mobile"}],
         name' \in [Caller -> Name \cup {Unset}], key' \in [Caller -> KeyState],
         loggedIn' \in [Caller -> BOOLEAN]
  PROVE  ApiInv'
  BY DEF ApiInv, ApiTypeOK, CallsAreOpen, OpenIsCurrent, RequestsAreAttempts,
         CopiesAreAttempts, RequestsFitLog, Sending, Made, MessageRequests

\* What the types say of a request for a message and of a call in progress.
LEMMA RequestTypes ==
  ASSUME ApiTypeOK, NEW r \in net
  PROVE  /\ r.from \in Caller /\ r.attempt \in Attempts
         /\ r.op = "message" => r.m \in Message /\ outcome[r.m] \notin {"new", "refused"}
         /\ r.op # "message" => r.pc # "mined"
         /\ r = [from |-> r.from, op |-> r.op, m |-> r.m, key |-> r.key,
                 attempt |-> r.attempt, pc |-> r.pc]
         /\ r.op \in {"message", "messages", "generate-key"}
  BY DEF ApiTypeOK, RequestState

LEMMA CallTypes ==
  ASSUME ApiTypeOK, NEW c \in Caller, call[c] # NoCall
  PROVE  /\ call[c].attempt \in Attempts /\ call[c].pc \in {"send", "wait"}
         /\ Sending(c) => call[c].m \in Message
         /\ call[c] = [op |-> call[c].op, m |-> call[c].m, key |-> call[c].key,
                       attempt |-> call[c].attempt, pc |-> call[c].pc]
         /\ call[c].op \in {"message", "messages", "generate-key"}
  BY DEF ApiTypeOK, CallState, NoCall, Sending

LEMMA LogTypes ==
  ASSUME ApiTypeOK, NEW i \in 1..Len(log)
  PROVE  /\ log[i].m \in Message /\ log[i].attempt \in Attempts
         /\ log[i] = [m |-> log[i].m, attempt |-> log[i].attempt]
<1> DEFINE S == [m : Message, attempt : Attempts]
<1>1. log \in Seq(S)
  BY DEF ApiTypeOK
<1>2. log[i] \in S
  <2> HIDE DEF S
  <2> QED BY <1>1
<1> QED BY <1>2

LEMMA NotSending == ASSUME NEW c, call[c] = NoCall PROVE ~ Sending(c)
  BY DEF NoCall, Sending

\* A new call.
LEMMA BeginTypes ==
  ASSUME ApiTypeOK, NEW c \in Caller, NEW op, NEW m, NEW k, Begin(c, op, m, k),
         \/ op = "message" /\ m \in Message /\ k \in Key \cup {BadKey}
         \/ op \in {"messages", "generate-key"} /\ m = NoMessage /\ k \in KeyState
  PROVE  /\ call[c] = NoCall
         /\ call' = [call EXCEPT ![c] = [op |-> op, m |-> m, key |-> k,
                                         attempt |-> 0, pc |-> "send"]]
         /\ call' \in [Caller -> CallState]
         /\ UNCHANGED <<kind, name, key, loggedIn, net, log>>
  BY DEF Begin, ApiTypeOK, CallState, callerVars, Attempts

LEMMA SendMessageKeepsInv ==
  ASSUME ApiInv, NEW c \in Caller, NEW m \in Message, SendMessage(c, m)
  PROVE  ApiInv'
<1> USE DEF ApiInv
<1>1. key[c] \in Key \cup {BadKey}
  BY DEF SendMessage, ApiTypeOK, KeyState
<1>2. /\ call[c] = NoCall
      /\ call' = [call EXCEPT ![c] = [op |-> "message", m |-> m, key |-> key[c],
                                      attempt |-> 0, pc |-> "send"]]
      /\ call' \in [Caller -> CallState]
      /\ UNCHANGED <<kind, name, key, loggedIn, net, log>>
  BY <1>1, BeginTypes DEF SendMessage
<1>3. /\ outcome[m] = "new"
      /\ calls' = [calls EXCEPT ![c] = Append(@, m)]
      /\ outcome' = [outcome EXCEPT ![m] = "open"]
      /\ calls[c] \in Seq(Message)
  BY DEF SendMessage, ApiTypeOK
<1>4. ~ Sending(c)
  BY <1>2, NotSending
<1>5. \A d \in Caller : d # c => call'[d] = call[d] /\ (Sending(d)' <=> Sending(d))
  BY <1>2 DEF Sending, ApiTypeOK
<1>6. Sending(c)' /\ call'[c].m = m
  BY <1>2 DEF Sending, ApiTypeOK
<1>7. MessageRequests' = MessageRequests
  BY <1>2 DEF MessageRequests
<1>8. ApiTypeOK'
  BY <1>2, <1>3 DEF ApiTypeOK
<1>9. CallsAreOpen'
  <2>1. ASSUME NEW d \in Caller, Sending(d)
        PROVE  d # c /\ call[d].m \in Message /\ call[d].m # m /\ outcome'[call[d].m] = "open"
    <3>1. call[d] # NoCall /\ outcome[call[d].m] = "open"
      BY <2>1 DEF CallsAreOpen, Sending, NoCall
    <3> QED BY <2>1, <3>1, <1>3, <1>4, CallTypes DEF ApiTypeOK
  <2>2. outcome'[m] = "open"
    BY <1>3 DEF ApiTypeOK
  <2> QED BY <2>1, <2>2, <1>5, <1>6 DEF CallsAreOpen
<1>10. OpenIsCurrent'
  <2> SUFFICES ASSUME NEW d \in Caller, NEW i \in 1..Len(calls'[d])
               PROVE  /\ outcome'[calls'[d][i]] # "new"
                      /\ outcome'[calls'[d][i]] = "open"
                           => Sending(d)' /\ call'[d].m = calls'[d][i]
    BY DEF OpenIsCurrent
  <2>1. CASE d = c /\ i = Len(calls[c]) + 1
    BY <1>3, <1>6, <2>1 DEF ApiTypeOK
  <2>2. CASE d # c \/ i # Len(calls[c]) + 1
    <3>1. i \in 1..Len(calls[d]) /\ calls'[d][i] = calls[d][i] /\ calls[d][i] \in Message
      BY <1>3, <2>2 DEF ApiTypeOK
    <3>2. calls[d][i] # m
      BY <3>1, <1>3 DEF OpenIsCurrent
    <3>3. outcome'[calls'[d][i]] = outcome[calls[d][i]]
      BY <3>1, <3>2, <1>3 DEF ApiTypeOK
    <3>4. outcome[calls[d][i]] # "new"
      BY <3>1 DEF OpenIsCurrent
    <3>5. ASSUME outcome[calls[d][i]] = "open" PROVE Sending(d)' /\ call'[d].m = calls'[d][i]
      <4>1. Sending(d) /\ call[d].m = calls[d][i]
        BY <3>1, <3>5 DEF OpenIsCurrent
      <4> QED BY <4>1, <3>1, <1>4, <1>5
    <3> QED BY <3>3, <3>4, <3>5
  <2> QED BY <2>1, <2>2
<1>11. RequestsAreAttempts'
  <2>1. \A r \in MessageRequests : r.m # m
    BY <1>3, RequestTypes DEF MessageRequests
  <2>2. ASSUME NEW d \in Caller, NEW r \in MessageRequests, Sending(d)', r.m = call'[d].m
        PROVE  r.from = d /\ Made(d, r.attempt)'
    <3>1. d # c
      BY <2>1, <2>2, <1>6
    <3>2. Sending(d) /\ call'[d] = call[d]
      BY <3>1, <2>2, <1>5
    <3>3. r.from = d /\ Made(d, r.attempt)
      BY <2>2, <3>2 DEF RequestsAreAttempts
    <3> QED BY <3>2, <3>3 DEF Made
  <2> QED BY <2>2, <1>7 DEF RequestsAreAttempts
<1>12. CopiesAreAttempts'
  <2>1. \A i \in 1..Len(log) : log[i].m # m /\ log[i].m \in Message
    BY <1>3, LogTypes DEF CopiesAreAttempts
  <2>2. \A i \in 1..Len(log) : outcome'[log[i].m] = outcome[log[i].m]
    BY <2>1, <1>3 DEF ApiTypeOK
  <2> QED BY <2>1, <2>2, <1>2, <1>5, <1>6 DEF CopiesAreAttempts, Made
<1>13. RequestsFitLog'
  BY <1>2, <1>7 DEF RequestsFitLog
<1> QED BY <1>8, <1>9, <1>10, <1>11, <1>12, <1>13

LEMMA ReadKeepsInv ==
  ASSUME ApiInv, NEW c \in Caller, GetMessages(c) \/ GenerateEncryptionKey(c)
  PROVE  ApiInv'
<1> USE DEF ApiInv
<1>1. PICK op \in {"messages", "generate-key"}, k \in KeyState : Begin(c, op, NoMessage, k)
  BY DEF GetMessages, GenerateEncryptionKey, ApiTypeOK, KeyState
<1>2. /\ call[c] = NoCall
      /\ call' = [call EXCEPT ![c] = [op |-> op, m |-> NoMessage, key |-> k,
                                      attempt |-> 0, pc |-> "send"]]
      /\ call' \in [Caller -> CallState]
      /\ UNCHANGED <<kind, name, key, loggedIn, net, log>>
  BY <1>1, BeginTypes
<1>3. UNCHANGED <<calls, outcome>>
  BY DEF GetMessages, GenerateEncryptionKey, historyVars
<1>4. ~ Sending(c) /\ ~ Sending(c)'
  BY <1>2, NotSending DEF Sending, ApiTypeOK
<1>5. \A d \in Caller : d # c => call'[d] = call[d] /\ (Sending(d)' <=> Sending(d))
  BY <1>2 DEF Sending, ApiTypeOK
<1>6. ApiTypeOK'
  BY <1>2, <1>3 DEF ApiTypeOK
<1>7. CallsAreOpen' /\ OpenIsCurrent'
  BY <1>3, <1>4, <1>5 DEF CallsAreOpen, OpenIsCurrent
<1>8. RequestsAreAttempts' /\ CopiesAreAttempts' /\ RequestsFitLog'
  BY <1>2, <1>3, <1>4, <1>5
     DEF RequestsAreAttempts, CopiesAreAttempts, RequestsFitLog, MessageRequests, Made
<1> QED BY <1>6, <1>7, <1>8

LEMMA AttemptKeepsInv ==
  ASSUME ApiInv, NEW c \in Caller, Attempt(c)
  PROVE  ApiInv'
<1> USE DEF ApiInv
<1> DEFINE q == [from |-> c, op |-> call[c].op, m |-> call[c].m, key |-> call[c].key,
                 attempt |-> call[c].attempt, pc |-> "sent"]
<1>1. /\ call[c] # NoCall /\ call[c].pc = "send"
      /\ call' = [call EXCEPT ![c].pc = "wait"]
      /\ net' = net \cup {q}
      /\ UNCHANGED <<kind, name, key, loggedIn, log, calls, outcome>>
  BY DEF Attempt, callerVars, historyVars
<1>2. q \in RequestState /\ call' \in [Caller -> CallState]
  BY <1>1 DEF ApiTypeOK, CallState, RequestState, NoCall
<1>3. /\ call'[c].op = call[c].op /\ call'[c].m = call[c].m
      /\ call'[c].attempt = call[c].attempt /\ call'[c].pc = "wait"
      /\ call[c].attempt \in Nat
      /\ \A d \in Caller : d # c => call'[d] = call[d]
  BY <1>1, CallTypes DEF ApiTypeOK, CallState, NoCall, Attempts
<1>4. \A d \in Caller : /\ Sending(d)' <=> Sending(d)
                        /\ Sending(d) => call'[d].m = call[d].m
                        /\ \A n : Made(d, n) => Made(d, n)'
  BY <1>3 DEF Sending, Made
<1>5. Sending(c) => outcome[call[c].m] = "open"
  BY DEF CallsAreOpen
<1>6. ApiTypeOK'
  BY <1>1, <1>2, <1>5 DEF ApiTypeOK, Sending
<1>7. CallsAreOpen' /\ OpenIsCurrent'
  BY <1>1, <1>4 DEF CallsAreOpen, OpenIsCurrent
<1>8. CopiesAreAttempts'
  BY <1>1, <1>4 DEF CopiesAreAttempts
<1> HIDE DEF q
<1>9. /\ Sending(c) <=> q.op = "message"
      /\ q.from = c /\ q.m = call[c].m /\ q.attempt = call[c].attempt /\ q.pc = "sent"
      /\ Made(c, q.attempt)'
  BY <1>3 DEF q, Sending, Made
<1>10. \A r \in MessageRequests' : r \in MessageRequests \/ (r = q /\ Sending(c))
  BY <1>1, <1>9 DEF MessageRequests
<1>11. \A r \in MessageRequests : Sending(c) /\ r.m = q.m => r.attempt # q.attempt
  BY <1>1, <1>3, <1>9 DEF RequestsAreAttempts, Made
<1>12. RequestsAreAttempts'
  <2>1. ASSUME NEW d \in Caller, NEW r \in MessageRequests', Sending(d)', r.m = call'[d].m
        PROVE  r.from = d /\ Made(d, r.attempt)'
    <3>1. Sending(d) /\ r.m = call[d].m
      BY <2>1, <1>4
    <3>2. CASE r \in MessageRequests
      BY <3>1, <3>2, <1>4 DEF RequestsAreAttempts
    <3>3. CASE r = q /\ Sending(c)
      <4>1. d = c
        BY <3>1, <3>3, <1>9 DEF CallsAreOpen
      <4> QED BY <4>1, <3>3, <1>3, <1>9 DEF Made
    <3> QED BY <3>2, <3>3, <1>10
  <2>2. ASSUME NEW r \in MessageRequests', NEW s \in MessageRequests',
               <<r.m, r.attempt>> = <<s.m, s.attempt>>
        PROVE  r = s
    <3>1. r.m = s.m /\ r.attempt = s.attempt
      BY <2>2
    <3> QED BY <3>1, <1>10, <1>11 DEF RequestsAreAttempts
  <2> QED BY <2>1, <2>2 DEF RequestsAreAttempts
<1>13. RequestsFitLog'
  <2>1. \A i \in 1..Len(log) : Sending(c) => log[i] # [m |-> q.m, attempt |-> q.attempt]
    BY <1>1, <1>3, <1>9 DEF CopiesAreAttempts, Made
  <2>2. ASSUME NEW r \in MessageRequests'
        PROVE  /\ r.pc \in {"mined", "ok"} => \E i \in 1..Len(log) : log[i].m = r.m
               /\ r.pc \notin {"mined", "ok"}
                    => \A i \in 1..Len(log) : log[i] # [m |-> r.m, attempt |-> r.attempt]
    BY <2>1, <1>9, <1>10 DEF RequestsFitLog
  <2> QED BY <2>2, <1>1 DEF RequestsFitLog
<1> QED BY <1>6, <1>7, <1>8, <1>12, <1>13

\* What changes of a request keeps whose it is, and its progress.
LEMMA StepKeepsInv ==
  ASSUME ApiInv, NEW r \in net, NEW pc \in {"handle", "refused", "ok"},
         r.pc \in {"mined", "ok"} <=> pc = "ok" /\ r.op = "message",
         UNCHANGED <<callerVars, call, log, historyVars>>,
         net' = (net \ {r}) \cup {[r EXCEPT !.pc = pc]} \/ net' = net \ {r}
  PROVE  ApiInv'
<1> USE DEF ApiInv
<1> DEFINE q == [r EXCEPT !.pc = pc]
<1>1. UNCHANGED <<kind, name, key, loggedIn, call, log, calls, outcome>>
  BY DEF callerVars, historyVars
<1>2. q \in RequestState
  BY DEF ApiTypeOK, RequestState
<1>3. q.from = r.from /\ q.op = r.op /\ q.m = r.m /\ q.attempt = r.attempt /\ q.pc = pc
  BY RequestTypes
<1>4. net' \subseteq (net \ {r}) \cup {q}
  OBVIOUS
<1> HIDE DEF q
<1>5. ApiTypeOK'
  BY <1>1, <1>2, <1>3, <1>4 DEF ApiTypeOK
<1>6. CallsAreOpen' /\ OpenIsCurrent' /\ CopiesAreAttempts'
  BY <1>1 DEF CallsAreOpen, OpenIsCurrent, CopiesAreAttempts, Sending, Made
<1>7. \A s \in MessageRequests' : s # q => s \in MessageRequests /\ s # r
  BY <1>4 DEF MessageRequests
<1>8. q \in MessageRequests' => r \in MessageRequests
  BY <1>3 DEF MessageRequests
<1>9. RequestsAreAttempts'
  <2>1. ASSUME NEW c \in Caller, NEW s \in MessageRequests', Sending(c), s.m = call[c].m
        PROVE  s.from = c /\ Made(c, s.attempt)
    BY <2>1, <1>3, <1>7, <1>8 DEF RequestsAreAttempts
  <2>2. ASSUME NEW s \in MessageRequests', NEW t \in MessageRequests',
               <<s.m, s.attempt>> = <<t.m, t.attempt>>
        PROVE  s = t
    <3>1. s.m = t.m /\ s.attempt = t.attempt
      BY <2>2
    <3> QED BY <3>1, <1>3, <1>7, <1>8 DEF RequestsAreAttempts
  <2> QED BY <2>1, <2>2, <1>1 DEF RequestsAreAttempts, Sending, Made
<1>10. RequestsFitLog'
  <2>1. ASSUME NEW s \in MessageRequests'
        PROVE  /\ s.pc \in {"mined", "ok"} => \E i \in 1..Len(log) : log[i].m = s.m
               /\ s.pc \notin {"mined", "ok"}
                    => \A i \in 1..Len(log) : log[i] # [m |-> s.m, attempt |-> s.attempt]
    <3>1. CASE s # q
      BY <3>1, <1>7 DEF RequestsFitLog
    <3>2. CASE s = q
      <4>1. r \in MessageRequests /\ r.op = "message"
        BY <3>2, <1>8 DEF MessageRequests
      <4> QED BY <3>2, <4>1, <1>3 DEF RequestsFitLog
    <3> QED BY <3>1, <3>2
  <2> QED BY <2>1, <1>1 DEF RequestsFitLog
<1> QED BY <1>5, <1>6, <1>9, <1>10

LEMMA ArriveKeepsInv ==
  ASSUME ApiInv, NEW r \in net, NEW k \in Client, Arrive(r, k)
  PROVE  ApiInv'
<1>1. \E pc \in {"handle", "refused"} :
        net' = (net \ {r}) \cup {[r EXCEPT !.pc = pc]} \/ net' = net \ {r}
  BY DEF Arrive, Step, Answer
<1>2. r.pc = "sent" /\ UNCHANGED <<callerVars, call, log, historyVars>>
  BY DEF Arrive
<1> QED BY <1>1, <1>2, StepKeepsInv

LEMMA ReplyKeepsInv ==
  ASSUME ApiInv, NEW r \in net, Reply(r)
  PROVE  ApiInv'
<1>1. net' = (net \ {r}) \cup {[r EXCEPT !.pc = "ok"]} \/ net' = net \ {r}
  BY DEF Reply, Step, Answer
<1>2. /\ r.pc \in {"mined", "ok"} <=> r.op = "message"
      /\ UNCHANGED <<callerVars, call, log, historyVars>>
  BY DEF Reply
<1> QED BY <1>1, <1>2, StepKeepsInv

LEMMA AddMessageKeepsInv ==
  ASSUME ApiInv, NEW r \in net, AddMessage(r)
  PROVE  ApiInv'
<1> USE DEF ApiInv
<1> DEFINE q == [r EXCEPT !.pc = "mined"]
           e == [m |-> r.m, attempt |-> r.attempt]
<1>1. /\ r.pc = "handle" /\ r.op = "message" /\ r \in MessageRequests
      /\ log' = Append(log, e)
      /\ net' \subseteq (net \ {r}) \cup {q}
      /\ UNCHANGED <<kind, name, key, loggedIn, call, calls, outcome>>
  BY DEF AddMessage, Answer, Step, MessageRequests, callerVars, historyVars
<1>2. /\ q \in RequestState /\ e \in [m : Message, attempt : Attempts]
      /\ outcome[r.m] \notin {"new", "refused"}
  BY <1>1, RequestTypes DEF ApiTypeOK, RequestState
<1>3. q.from = r.from /\ q.op = r.op /\ q.m = r.m /\ q.attempt = r.attempt /\ q.pc = "mined"
  BY RequestTypes
<1>4. e.m = r.m /\ e.attempt = r.attempt
  OBVIOUS
<1> HIDE DEF q, e
<1>5. ApiTypeOK'
  <2> DEFINE S == [m : Message, attempt : Attempts]
  <2>1. log \in Seq(S) /\ e \in S
    BY <1>2 DEF ApiTypeOK
  <2> HIDE DEF S
  <2>2. log' \in Seq(S)
    BY <2>1, <1>1
  <2> USE DEF S
  <2>3. /\ kind' \in [Caller -> {"sdk", "pkg", "mobile"}]
        /\ name' \in [Caller -> Name \cup {Unset}]
        /\ key' \in [Caller -> KeyState]
        /\ loggedIn' \in [Caller -> BOOLEAN]
        /\ call' \in [Caller -> CallState]
        /\ calls' \in [Caller -> Seq(Message)]
        /\ outcome' \in [Message -> {"new", "open", "ok", "failed", "refused"}]
    BY <1>1 DEF ApiTypeOK
  <2>4. net' \subseteq RequestState
    BY <1>1, <1>2 DEF ApiTypeOK
  <2>5. \A s \in net' : s.op = "message" => outcome'[s.m] \notin {"new", "refused"}
    BY <1>1, <1>2, <1>3 DEF ApiTypeOK
  <2> QED BY <2>2, <2>3, <2>4, <2>5 DEF ApiTypeOK
<1>6. CallsAreOpen' /\ OpenIsCurrent'
  BY <1>1 DEF CallsAreOpen, OpenIsCurrent, Sending
<1>7. /\ Len(log') = Len(log) + 1 /\ log'[Len(log) + 1] = e
      /\ \A i \in 1..Len(log) : log'[i] = log[i]
      /\ Len(log) \in Nat
  <2> DEFINE S == [m : Message, attempt : Attempts]
  <2>1. log \in Seq(S) /\ e \in S
    BY <1>2 DEF ApiTypeOK
  <2> HIDE DEF S
  <2> QED BY <2>1, <1>1
<1>8. \A i \in 1..Len(log') : i \in 1..Len(log) \/ i = Len(log) + 1
  BY <1>7
<1>9. \A i \in 1..Len(log) : log[i] # e
  <2>1. \A i \in 1..Len(log) : log[i] # [m |-> r.m, attempt |-> r.attempt]
    BY <1>1 DEF RequestsFitLog
  <2> QED BY <2>1 DEF e
<1>10. CopiesAreAttempts'
  <2>1. \A i \in 1..Len(log') : outcome[log'[i].m] \notin {"new", "refused"}
    BY <1>2, <1>4, <1>7, <1>8 DEF CopiesAreAttempts
  <2>2. ASSUME NEW c \in Caller, NEW i \in 1..Len(log'), Sending(c), log'[i].m = call[c].m
        PROVE  Made(c, log'[i].attempt)
    <3>1. CASE i \in 1..Len(log)
      BY <2>2, <3>1, <1>7 DEF CopiesAreAttempts
    <3>2. CASE i = Len(log) + 1
      BY <2>2, <3>2, <1>1, <1>4, <1>7 DEF RequestsAreAttempts
    <3> QED BY <3>1, <3>2, <1>8
  <2>3. \A i, j \in 1..Len(log') : log'[i] = log'[j] => i = j
    BY <1>7, <1>8, <1>9 DEF CopiesAreAttempts
  <2> QED BY <2>1, <2>2, <2>3, <1>1 DEF CopiesAreAttempts, Sending, Made
<1>11. \A s \in MessageRequests' : s = q \/ (s \in MessageRequests /\ s # r)
  BY <1>1 DEF MessageRequests
<1>12. RequestsAreAttempts'
  <2>1. ASSUME NEW c \in Caller, NEW s \in MessageRequests', Sending(c), s.m = call[c].m
        PROVE  s.from = c /\ Made(c, s.attempt)
    BY <2>1, <1>1, <1>3, <1>11 DEF RequestsAreAttempts
  <2>2. ASSUME NEW s \in MessageRequests', NEW t \in MessageRequests',
               <<s.m, s.attempt>> = <<t.m, t.attempt>>
        PROVE  s = t
    <3>1. s.m = t.m /\ s.attempt = t.attempt
      BY <2>2
    <3> QED BY <3>1, <1>1, <1>3, <1>11 DEF RequestsAreAttempts
  <2> QED BY <2>1, <2>2, <1>1 DEF RequestsAreAttempts, Sending, Made
<1>13. RequestsFitLog'
  <2> SUFFICES ASSUME NEW s \in MessageRequests'
               PROVE  /\ s.pc \in {"mined", "ok"} => \E i \in 1..Len(log') : log'[i].m = s.m
                      /\ s.pc \notin {"mined", "ok"}
                           => \A i \in 1..Len(log') : log'[i] # [m |-> s.m, attempt |-> s.attempt]
    BY DEF RequestsFitLog
  <2>1. CASE s = q
    <3>1. log'[Len(log) + 1].m = s.m /\ Len(log) + 1 \in 1..Len(log')
      BY <2>1, <1>3, <1>4, <1>7
    <3> QED BY <2>1, <3>1, <1>3
  <2>2. CASE s \in MessageRequests /\ s # r
    <3>1. CASE s.pc \in {"mined", "ok"}
      <4>1. PICK i \in 1..Len(log) : log[i].m = s.m
        BY <2>2, <3>1 DEF RequestsFitLog
      <4> QED BY <3>1, <4>1, <1>7
    <3>2. CASE s.pc \notin {"mined", "ok"}
      <4>1. e # [m |-> s.m, attempt |-> s.attempt]
        BY <2>2, <1>1 DEF RequestsAreAttempts, e
      <4>2. \A i \in 1..Len(log) : log[i] # [m |-> s.m, attempt |-> s.attempt]
        BY <2>2, <3>2 DEF RequestsFitLog
      <4> QED BY <3>2, <4>1, <4>2, <1>7, <1>8
    <3> QED BY <3>1, <3>2
  <2> QED BY <2>1, <2>2, <1>11
<1> QED BY <1>5, <1>6, <1>10, <1>12, <1>13

\* A call that ends: its message was open and is so no more.
LEMMA EndingKeepsInv ==
  ASSUME ApiInv, NEW c \in Caller, call[c] # NoCall,
         NEW result \in {"ok", "failed", "refused"},
         call' = [call EXCEPT ![c] = NoCall],
         net' \subseteq net, outcome' = Concluded(c, result),
         key' \in [Caller -> KeyState],
         UNCHANGED <<kind, name, loggedIn, log, calls>>,
         Sending(c) /\ result = "refused" =>
           /\ \A s \in net' : s.op = "message" => s.m # call[c].m
           /\ \A i \in 1..Len(log) : log[i].m # call[c].m
  PROVE  ApiInv'
<1> USE DEF ApiInv
<1>1. /\ call'[c] = NoCall /\ ~ Sending(c)'
      /\ \A d \in Caller : d # c => call'[d] = call[d] /\ (Sending(d)' <=> Sending(d))
  BY NotSending DEF ApiTypeOK, Sending, NoCall
<1>2. /\ \A m \in Message : outcome'[m] = IF Sending(c) /\ m = call[c].m THEN result ELSE outcome[m]
      /\ outcome' \in [Message -> {"new", "open", "ok", "failed", "refused"}]
  BY CallTypes DEF Concluded, Sending, ApiTypeOK
<1>3. Sending(c) => outcome[call[c].m] = "open" /\ call[c].m \in Message
  <2>1. Sending(c) => call[c].m \in Message
    BY CallTypes
  <2> QED BY <2>1 DEF CallsAreOpen
<1>4. call' \in [Caller -> CallState]
  BY DEF ApiTypeOK, CallState
<1>5. \A s \in MessageRequests' : s \in MessageRequests
  BY DEF MessageRequests
<1>6. \A s \in net' : s.op = "message" => outcome'[s.m] \notin {"new", "refused"}
  <2> SUFFICES ASSUME NEW s \in net', s.op = "message"
               PROVE  outcome'[s.m] \notin {"new", "refused"}
    OBVIOUS
  <2>1. s.m \in Message /\ outcome[s.m] \notin {"new", "refused"}
    BY RequestTypes
  <2> QED BY <2>1, <1>2
<1>7. ApiTypeOK'
  BY <1>2, <1>4, <1>6 DEF ApiTypeOK
<1>8. CallsAreOpen'
  <2> SUFFICES ASSUME NEW d \in Caller, Sending(d)'
               PROVE  /\ outcome'[call'[d].m] = "open"
                      /\ \A b \in Caller : Sending(b)' /\ call'[b].m = call'[d].m => b = d
    BY DEF CallsAreOpen
  <2>1. d # c /\ Sending(d) /\ call'[d] = call[d]
    BY <1>1
  <2>2. call[d].m \in Message /\ outcome[call[d].m] = "open"
    <3>1. call[d] # NoCall
      BY <2>1, NotSending
    <3>2. call[d].m \in Message
      BY <2>1, <3>1, CallTypes
    <3> QED BY <2>1, <3>2 DEF CallsAreOpen
  <2>3. ~ (Sending(c) /\ call[d].m = call[c].m)
    BY <2>1 DEF CallsAreOpen
  <2>4. outcome'[call'[d].m] = "open"
    BY <2>1, <2>2, <2>3, <1>2
  <2>5. ASSUME NEW b \in Caller, Sending(b)', call'[b].m = call'[d].m PROVE b = d
    BY <2>1, <2>5, <1>1 DEF CallsAreOpen
  <2> QED BY <2>4, <2>5
<1>9. OpenIsCurrent'
  <2> SUFFICES ASSUME NEW d \in Caller, NEW i \in 1..Len(calls[d])
               PROVE  /\ outcome'[calls[d][i]] # "new"
                      /\ outcome'[calls[d][i]] = "open"
                           => Sending(d)' /\ call'[d].m = calls[d][i]
    BY DEF OpenIsCurrent
  <2>1. calls[d][i] \in Message /\ outcome[calls[d][i]] # "new"
    BY DEF OpenIsCurrent, ApiTypeOK
  <2>2. outcome'[calls[d][i]] # "new"
    BY <2>1, <1>2
  <2>3. ASSUME outcome'[calls[d][i]] = "open"
        PROVE  Sending(d)' /\ call'[d].m = calls[d][i]
    <3>1. outcome[calls[d][i]] = "open" /\ ~ (Sending(c) /\ calls[d][i] = call[c].m)
      BY <2>1, <2>3, <1>2
    <3>2. Sending(d) /\ call[d].m = calls[d][i]
      BY <3>1 DEF OpenIsCurrent
    <3>3. d # c
      BY <3>1, <3>2
    <3> QED BY <3>2, <3>3, <1>1
  <2> QED BY <2>2, <2>3
<1>10. \A d \in Caller : Sending(d)' => Sending(d) /\ call'[d] = call[d]
  BY <1>1
<1>11. RequestsAreAttempts'
  BY <1>5, <1>10 DEF RequestsAreAttempts, Made
<1>12. CopiesAreAttempts'
  <2>1. ASSUME NEW i \in 1..Len(log) PROVE outcome'[log[i].m] \notin {"new", "refused"}
    <3>1. log[i].m \in Message /\ outcome[log[i].m] \notin {"new", "refused"}
      BY LogTypes DEF CopiesAreAttempts
    <3> QED BY <3>1, <1>2
  <2> QED BY <2>1, <1>10 DEF CopiesAreAttempts, Made
<1>13. RequestsFitLog'
  BY <1>5 DEF RequestsFitLog
<1> QED BY <1>7, <1>8, <1>9, <1>11, <1>12, <1>13

\* A call whose only attempt is answered "refused" has no request under way
\* any more, and no copy.
LEMMA RefusedLeavesNoTrace ==
  ASSUME ApiInv, NEW c \in Caller, NEW r \in net, Receive(c, r),
         Sending(c), Verdict(r) = "refused"
  PROVE  /\ \A s \in net' : s.op = "message" => s.m # call[c].m
         /\ \A i \in 1..Len(log) : log[i].m # call[c].m
<1> USE DEF ApiInv
<1>1. /\ r.from = c /\ call[c].op = r.op /\ call[c].m = r.m /\ call[c].attempt = r.attempt
      /\ net' = net \ {r}
  BY DEF Receive, Awaited
<1>2. r.pc = "refused" /\ r.attempt = 0
  BY DEF Verdict, Receive
<1>3. r \in MessageRequests
  BY <1>1 DEF MessageRequests, Sending
<1>4. \A n \in Attempts : Made(c, n) => n = r.attempt
  BY <1>1, <1>2 DEF Made, Attempts
<1>5. ASSUME NEW s \in net', s.op = "message", s.m = call[c].m PROVE FALSE
  <2>1. s \in MessageRequests /\ s # r /\ s.attempt \in Attempts
    BY <1>5, <1>1, RequestTypes DEF MessageRequests
  <2>2. s.attempt = r.attempt
    BY <2>1, <1>4, <1>5 DEF RequestsAreAttempts
  <2> QED BY <2>1, <2>2, <1>1, <1>3, <1>5 DEF RequestsAreAttempts
<1>6. ASSUME NEW i \in 1..Len(log), log[i].m = call[c].m PROVE FALSE
  <2>1. log[i] = [m |-> log[i].m, attempt |-> log[i].attempt] /\ log[i].attempt \in Attempts
    BY LogTypes
  <2>2. log[i].attempt = r.attempt
    BY <2>1, <1>4, <1>6 DEF CopiesAreAttempts
  <2>3. log[i] # [m |-> r.m, attempt |-> r.attempt]
    BY <1>2, <1>3 DEF RequestsFitLog
  <2> QED BY <2>1, <2>2, <2>3, <1>1, <1>6
<1> QED BY <1>5, <1>6

LEMMA ReceiveKeepsInv ==
  ASSUME ApiInv, NEW c \in Caller, NEW r \in net, Receive(c, r)
  PROVE  ApiInv'
<1>1. /\ call[c] # NoCall
      /\ call' = [call EXCEPT ![c] = NoCall]
      /\ net' \subseteq net
      /\ outcome' = Concluded(c, Verdict(r))
      /\ UNCHANGED <<kind, name, loggedIn, log, calls>>
  BY DEF Receive, Awaited
<1>2. key' \in [Caller -> KeyState]
  BY DEF Receive, ApiInv, ApiTypeOK, KeyState
<1>3. Verdict(r) \in {"ok", "failed", "refused"}
  BY DEF Verdict
<1> QED BY <1>1, <1>2, <1>3, RefusedLeavesNoTrace, EndingKeepsInv

LEMMA GiveUpKeepsInv ==
  ASSUME ApiInv, NEW c \in Caller, GiveUp(c)
  PROVE  ApiInv'
<1> USE DEF ApiInv
<1>1. /\ call[c] # NoCall /\ call[c].pc = "wait"
      /\ net' \subseteq net
      /\ UNCHANGED <<kind, name, key, loggedIn, log, calls>>
  BY DEF GiveUp, callerVars
<1>2. CASE ~ MayRetry(c)
  <2>1. call' = [call EXCEPT ![c] = NoCall] /\ outcome' = Concluded(c, "failed")
    BY <1>2 DEF GiveUp
  <2>2. key' \in [Caller -> KeyState]
    BY <1>1 DEF ApiTypeOK
  <2> QED BY <1>1, <2>1, <2>2, EndingKeepsInv
<1>3. CASE MayRetry(c)
  <2>1. /\ call' = [call EXCEPT ![c].attempt = @ + 1, ![c].pc = "send"]
        /\ outcome' = outcome /\ call[c].attempt < MaxRetries
    BY <1>3 DEF GiveUp, Following, MayRetry
  <2>2. call' \in [Caller -> CallState]
    <3> DEFINE w == [call[c] EXCEPT !.attempt = @ + 1, !.pc = "send"]
    <3>1. call[c] \in CallState
      BY DEF ApiTypeOK
    <3>2. call[c].attempt + 1 \in Attempts
      <4>1. call[c].attempt \in Attempts
        BY <1>1, CallTypes
      <4> QED BY <4>1, <2>1 DEF Attempts
    <3>3. w \in CallState
      BY <1>1, <3>1, <3>2 DEF CallState, NoCall
    <3>4. call' = [call EXCEPT ![c] = w]
      BY <2>1 DEF ApiTypeOK
    <3> QED BY <3>3, <3>4 DEF ApiTypeOK
  <2>3. /\ call'[c].op = call[c].op /\ call'[c].m = call[c].m
        /\ call'[c].attempt = call[c].attempt + 1 /\ call'[c].pc = "send"
        /\ call[c].attempt \in Nat
        /\ \A d \in Caller : d # c => call'[d] = call[d]
    BY <2>1, <1>1, CallTypes DEF ApiTypeOK, CallState, NoCall, Attempts
  <2>4. \A d \in Caller : /\ Sending(d)' <=> Sending(d)
                          /\ Sending(d) => call'[d].m = call[d].m
                          /\ \A n \in Attempts : Made(d, n) => Made(d, n)'
    BY <2>3 DEF Sending, Made, Attempts
  <2>5. ApiTypeOK'
    BY <1>1, <2>1, <2>2 DEF ApiTypeOK
  <2>6. CallsAreOpen' /\ OpenIsCurrent'
    BY <1>1, <2>1, <2>4 DEF CallsAreOpen, OpenIsCurrent
  <2>7. \A s \in MessageRequests' : s \in MessageRequests /\ s.attempt \in Attempts
    BY <1>1, RequestTypes DEF MessageRequests
  <2>8. RequestsAreAttempts' /\ RequestsFitLog'
    BY <1>1, <2>4, <2>7 DEF RequestsAreAttempts, RequestsFitLog
  <2>9. \A i \in 1..Len(log) : log[i].attempt \in Attempts
    BY LogTypes
  <2>10. CopiesAreAttempts'
    BY <1>1, <2>1, <2>4, <2>9 DEF CopiesAreAttempts
  <2> QED BY <2>5, <2>6, <2>8, <2>10
<1> QED BY <1>2, <1>3

LEMMA ApiInvNext == ApiInv /\ [Next]_vars => ApiInv'
<1> SUFFICES ASSUME ApiInv, [Next]_vars PROVE ApiInv'
  OBVIOUS
<1>1. ASSUME NEW c \in Caller, Configure(c) PROVE ApiInv'
  <2>1. /\ UNCHANGED <<call, net, log, calls, outcome>>
        /\ kind' \in [Caller -> {"sdk", "pkg", "mobile"}]
        /\ name' \in [Caller -> Name \cup {Unset}] /\ key' \in [Caller -> KeyState]
        /\ loggedIn' \in [Caller -> BOOLEAN]
    BY <1>1 DEF Configure, SetUsername, SetEncryptionKey, Login, ApiInv, ApiTypeOK, KeyState,
                historyVars
  <2> QED BY <2>1, ApiInvOthers
<1>2. ASSUME NEW c \in Caller, Start(c) PROVE ApiInv'
  BY <1>2, SendMessageKeepsInv, ReadKeepsInv DEF Start
<1>3. ASSUME NEW c \in Caller, Proceed(c) PROVE ApiInv'
  BY <1>3, AttemptKeepsInv, GiveUpKeepsInv, ReceiveKeepsInv DEF Proceed
<1>4. CASE Serve
  BY <1>4, AddMessageKeepsInv, ReplyKeepsInv, ArriveKeepsInv DEF Serve
<1>5. CASE TimePasses \/ (\E k \in Client : OtherRequest(k)) \/ UNCHANGED vars
  <2>1. UNCHANGED <<kind, name, key, loggedIn, call, net, log, calls, outcome>>
    BY <1>5 DEF TimePasses, OtherRequest, vars, callerVars, historyVars
  <2> QED BY <2>1, ApiInvOthers DEF ApiInv, ApiTypeOK
<1> QED BY <1>1, <1>2, <1>3, <1>4, <1>5 DEF Next

\* Every request and every copy stands for an attempt that a call has made,
\* and only a caller's last call is open.
LEMMA ApiInvariant == Spec => []ApiInv
  BY ApiInvInit, ApiInvNext, PTL DEF Spec

\* Only a caller's own steps touch its call, and they leave it with less to do.
LEMMA CallsMoveOnNext ==
  ApiInv /\ [Next]_vars =>
    \A c \in Caller :
      call[c] # NoCall => call'[c] = call[c] \/ StepsLeft(c)' \in 0..(StepsLeft(c) - 1)
<1> SUFFICES ASSUME ApiInv, [Next]_vars, NEW c \in Caller, call[c] # NoCall
             PROVE  call'[c] = call[c] \/ StepsLeft(c)' \in 0..(StepsLeft(c) - 1)
  OBVIOUS
<1>1. /\ call[c].attempt \in 0..MaxRetries /\ call[c].pc \in {"send", "wait"}
      /\ DOMAIN call = Caller
  BY CallTypes DEF ApiInv, ApiTypeOK, Attempts
<1>2. ASSUME NEW d \in Caller, Configure(d) PROVE call'[c] = call[c]
  BY <1>2 DEF Configure, SetUsername, SetEncryptionKey, Login
<1>3. ASSUME NEW d \in Caller, Start(d) PROVE call'[c] = call[c]
  BY <1>1, <1>3 DEF Start, SendMessage, GetMessages, GenerateEncryptionKey, Begin
<1>4. ASSUME NEW d \in Caller, d # c, Proceed(d) PROVE call'[c] = call[c]
  BY <1>1, <1>4 DEF Proceed, Attempt, GiveUp, Receive
<1>5. ASSUME call'[c] = NoCall PROVE StepsLeft(c)' \in 0..(StepsLeft(c) - 1)
  BY <1>1, <1>5 DEF StepsLeft
<1>6. ASSUME Proceed(c) PROVE StepsLeft(c)' \in 0..(StepsLeft(c) - 1)
  <2>1. CASE Attempt(c)
    <3>1. call[c].pc = "send" /\ call' = [call EXCEPT ![c].pc = "wait"]
      BY <2>1 DEF Attempt
    <3>2. call'[c].attempt = call[c].attempt /\ call'[c].pc = "wait" /\ call'[c] # NoCall
      BY <1>1, <3>1, CallTypes DEF ApiInv, NoCall
    <3> QED BY <1>1, <3>1, <3>2 DEF StepsLeft
  <2>2. CASE GiveUp(c) /\ MayRetry(c)
    <3>1. /\ call[c].pc = "wait" /\ call[c].attempt < MaxRetries
          /\ call' = [call EXCEPT ![c].attempt = @ + 1, ![c].pc = "send"]
      BY <2>2 DEF GiveUp, MayRetry, Following
    <3>2. call'[c].attempt = call[c].attempt + 1 /\ call'[c].pc = "send" /\ call'[c] # NoCall
      BY <1>1, <3>1, CallTypes DEF ApiInv, NoCall
    <3> QED BY <1>1, <3>1, <3>2 DEF StepsLeft
  <2>3. CASE GiveUp(c) /\ ~ MayRetry(c)
    BY <1>1, <1>5, <2>3 DEF GiveUp
  <2>4. ASSUME NEW r \in net, Receive(c, r) PROVE StepsLeft(c)' \in 0..(StepsLeft(c) - 1)
    BY <1>1, <1>5, <2>4 DEF Receive
  <2> QED BY <1>6, <2>1, <2>2, <2>3, <2>4 DEF Proceed
<1>7. CASE Serve
  BY <1>7 DEF Serve, AddMessage, Reply, Arrive
<1>8. CASE TimePasses \/ (\E k \in Client : OtherRequest(k)) \/ UNCHANGED vars
  BY <1>8 DEF TimePasses, OtherRequest, vars
<1> QED BY <1>2, <1>3, <1>4, <1>6, <1>7, <1>8 DEF Next

\* A call has finitely many attempts before it, and nothing that the node, the
\* network or another caller does gives it more: with its timers it returns.
THEOREM CallsAlwaysMoveOn == Spec => CallsMoveOn
<1>1. ApiInv /\ [Next]_vars =>
        \A c \in Caller : call[c] # NoCall =>
          call'[c] = call[c] \/ StepsLeft(c)' \in 0..(StepsLeft(c) - 1)
  BY CallsMoveOnNext
<1> QED BY <1>1, ApiInvariant, PTL DEF Spec, CallsMoveOn

\* The types of the API and of the limiter inside it, and no request for a
\* message travels whose call was not made or was refused.
THEOREM ApiTypes == Spec => []TypeOK
<1>1. ApiInv /\ LimiterTypeOK => TypeOK
  BY DEF ApiInv, TypeOK
<1> QED BY <1>1, ApiInvariant, ApiHasALimiter, LimiterTypes, PTL

----------------------------------------------------------------------------
(* The refinement.                                                         *)

Delivered == [i \in 1..Len(log) |-> log[i].m]

P == INSTANCE DeliveryProofs WITH
  MaxCopies <- MaxRetries + 1,
  calls <- calls,
  outcome <- outcome,
  log <- Delivered

LEMMA DeliveredTypes ==
  ASSUME ApiTypeOK
  PROVE  /\ Delivered \in Seq(Message) /\ Len(Delivered) = Len(log) /\ Len(log) \in Nat
         /\ \A i \in 1..Len(log) : Delivered[i] = log[i].m
<1>1. Len(log) \in Nat
  BY DEF ApiTypeOK
<1>2. \A i \in 1..Len(log) : log[i].m \in Message
  BY LogTypes
<1> QED BY <1>1, <1>2 DEF Delivered

LEMMA SameCardinality ==
  \A S : P!Cardinality(S) = Cardinality(S) /\ Promise!Cardinality(S) = Cardinality(S)
  BY DEF P!Cardinality, Promise!Cardinality, Cardinality

LEMMA CopiesOfMessage ==
  ASSUME ApiTypeOK, NEW m
  PROVE  P!Copies(m) = {i \in 1..Len(log) : log[i].m = m}
  BY DeliveredTypes DEF P!Copies

\* An attempt that has no copy yet leaves room for one.
LEMMA RoomForACopy ==
  ASSUME ApiTypeOK, CopiesAreAttempts, NEW m, NEW a \in Attempts,
         \A i \in 1..Len(log) : log[i] # [m |-> m, attempt |-> a]
  PROVE  Cardinality(P!Copies(m)) < MaxRetries + 1
<1> DEFINE S == P!Copies(m)
           T == Attempts \ {a}
           f == [i \in S |-> log[i].attempt]
<1>1. S = {i \in 1..Len(log) : log[i].m = m} /\ Len(log) \in Nat
  BY CopiesOfMessage, DeliveredTypes
<1>2. IsFiniteSet(S)
  <2>1. IsFiniteSet(1..Len(log))
    BY <1>1, FS_Interval
  <2>2. S \in SUBSET (1..Len(log))
    BY <1>1
  <2> QED BY <2>1, <2>2, FS_Subset
<1>3. IsFiniteSet(Attempts) /\ Cardinality(Attempts) = MaxRetries + 1
  <2>1. IsFiniteSet(0..MaxRetries) /\ Cardinality(0..MaxRetries) = MaxRetries - 0 + 1
    BY FS_Interval
  <2> QED BY <2>1 DEF Attempts
<1>4. IsFiniteSet(T) /\ Cardinality(T) = MaxRetries
  <2>1. IsFiniteSet(T) /\ Cardinality(T) = Cardinality(Attempts) - 1
    BY <1>3, FS_RemoveElement, Zenon
  <2> QED BY <2>1, <1>3
<1>5. \A i \in S : log[i] = [m |-> m, attempt |-> log[i].attempt] /\ log[i].attempt \in Attempts
  BY <1>1, LogTypes
<1>6. f \in [S -> T]
  <2>1. \A i \in S : log[i].attempt # a
    BY <1>1, <1>5
  <2> QED BY <1>5, <2>1
<1>7. \A i, j \in S : f[i] = f[j] => i = j
  BY <1>1, <1>5 DEF CopiesAreAttempts
<1>8. Cardinality(S) \in Nat
  BY <1>2, FS_CardinalityType
<1> HIDE DEF S, T, f
<1>9. ~ (Cardinality(T) < Cardinality(S))
  BY <1>2, <1>4, <1>6, <1>7, FS_PigeonHole
<1> QED BY <1>4, <1>8, <1>9 DEF S

\* An open call ends.
LEMMA EndingIsEnd ==
  ASSUME ApiInv, NEW c \in Caller, Sending(c), NEW result,
         outcome' = Concluded(c, result), UNCHANGED <<log, calls>>
  PROVE  P!End(call[c].m, result)
<1>1. outcome[call[c].m] = "open"
  BY DEF ApiInv, CallsAreOpen
<1>2. outcome' = [outcome EXCEPT ![call[c].m] = result]
  BY DEF Concluded, Sending
<1> QED BY <1>1, <1>2 DEF P!End, Delivered

\* What a step leaves alone.
LEMMA StutteringStep ==
  UNCHANGED <<log, calls, outcome>> => UNCHANGED P!deliveryVars
  BY DEF P!deliveryVars, Delivered

LEMMA SendMessageIsCall ==
  ASSUME ApiInv, NEW c \in Caller, NEW m \in Message, SendMessage(c, m)
  PROVE  P!Call(c, m)
<1>1. P!Free(c)
  <2>1. ~ Sending(c)
    BY NotSending DEF SendMessage, Begin
  <2> QED BY <2>1 DEF ApiInv, OpenIsCurrent, P!Free
<1> QED BY <1>1 DEF SendMessage, Begin, P!Call, Delivered

LEMMA AddMessageIsDeliver ==
  ASSUME ApiInv, NEW r \in net, AddMessage(r)
  PROVE  r.m \in Message /\ P!Deliver(r.m)
<1> USE DEF ApiInv
<1>1. /\ r.pc = "handle" /\ r.op = "message" /\ r \in MessageRequests
      /\ log' = Append(log, [m |-> r.m, attempt |-> r.attempt])
      /\ UNCHANGED <<calls, outcome>>
  BY DEF AddMessage, MessageRequests, historyVars
<1>2. /\ r.m \in Message /\ r.attempt \in Attempts
      /\ outcome[r.m] \notin {"new", "refused"}
  BY <1>1, RequestTypes
<1>3. outcome[r.m] \in {"open", "ok", "failed"}
  BY <1>2 DEF ApiTypeOK
<1>4. Cardinality(P!Copies(r.m)) < MaxRetries + 1
  BY <1>1, <1>2, RoomForACopy DEF RequestsFitLog
<1>5. Delivered' = Append(Delivered, r.m)
  <2>1. Delivered \in Seq(Message) /\ Len(Delivered) = Len(log) /\ Len(log) \in Nat
        /\ \A i \in 1..Len(log) : Delivered[i] = log[i].m
    BY DeliveredTypes
  <2>2. /\ Len(log') = Len(log) + 1
        /\ log'[Len(log) + 1] = [m |-> r.m, attempt |-> r.attempt]
        /\ \A i \in 1..Len(log) : log'[i] = log[i]
    <3> DEFINE S == [m : Message, attempt : Attempts]
               e == [m |-> r.m, attempt |-> r.attempt]
    <3>1. log \in Seq(S) /\ e \in S /\ log' = Append(log, e)
      BY <1>1, <1>2 DEF ApiTypeOK
    <3>2. e = [m |-> r.m, attempt |-> r.attempt]
      OBVIOUS
    <3> HIDE DEF S, e
    <3> QED BY <3>1, <3>2
  <2>3. Delivered' = [i \in 1..(Len(log) + 1) |-> log'[i].m]
    BY <2>2 DEF Delivered
  <2>4. \A i \in 1..(Len(log) + 1) : log'[i].m = IF i = Len(log) + 1 THEN r.m ELSE Delivered[i]
    BY <2>1, <2>2
  <2> QED BY <1>2, <2>1, <2>3, <2>4
<1> QED BY <1>1, <1>2, <1>3, <1>4, <1>5, SameCardinality DEF P!Deliver

LEMMA ReceiveIsEnd ==
  ASSUME ApiInv, NEW c \in Caller, NEW r \in net, Receive(c, r), Sending(c)
  PROVE  P!Succeed(call[c].m) \/ P!Fail(call[c].m) \/ P!Refuse(call[c].m)
<1>1. P!End(call[c].m, Verdict(r))
  BY EndingIsEnd DEF Receive
<1>2. CASE r.pc = "ok"
  <2>1. r \in MessageRequests /\ r.m = call[c].m
    BY DEF Receive, Awaited, Sending, MessageRequests
  <2>2. \E i \in 1..Len(log) : log[i].m = call[c].m
    BY <1>2, <2>1 DEF ApiInv, RequestsFitLog
  <2>3. P!Copies(call[c].m) # {}
    BY <2>2, CopiesOfMessage DEF ApiInv
  <2> QED BY <1>1, <1>2, <2>3 DEF P!Succeed, Verdict
<1>3. CASE Verdict(r) = "refused"
  <2>1. P!Copies(call[c].m) = {}
    BY <1>3, RefusedLeavesNoTrace, CopiesOfMessage DEF ApiInv
  <2> QED BY <1>1, <1>3, <2>1 DEF P!Refuse
<1>4. CASE r.pc # "ok" /\ Verdict(r) # "refused"
  BY <1>1, <1>4 DEF P!Fail, Verdict
<1> QED BY <1>2, <1>3, <1>4

LEMMA StepsKeepThePromise ==
  ApiInv /\ [Next]_vars => [P!DeliveryNext]_P!deliveryVars
<1> SUFFICES ASSUME ApiInv, [Next]_vars PROVE [P!DeliveryNext]_P!deliveryVars
  OBVIOUS
<1> DEFINE Goal == [P!DeliveryNext]_P!deliveryVars
<1>1. UNCHANGED <<log, calls, outcome>> => Goal
  BY StutteringStep
<1>2. ASSUME NEW c \in Caller, Configure(c) PROVE Goal
  BY <1>1, <1>2 DEF Configure, SetUsername, SetEncryptionKey, Login, historyVars
<1>3. ASSUME NEW c \in Caller, Start(c) PROVE Goal
  <2>1. ASSUME NEW m \in Message, SendMessage(c, m) PROVE Goal
    BY <2>1, SendMessageIsCall DEF P!DeliveryNext
  <2>2. CASE GetMessages(c) \/ GenerateEncryptionKey(c)
    BY <1>1, <2>2 DEF GetMessages, GenerateEncryptionKey, Begin, historyVars
  <2> QED BY <1>3, <2>1, <2>2 DEF Start
<1>4. ASSUME NEW c \in Caller, Attempt(c) PROVE Goal
  BY <1>1, <1>4 DEF Attempt, historyVars
<1>5. ASSUME NEW c \in Caller, call[c] # NoCall, ~ Sending(c), NEW result,
             outcome' = Concluded(c, result), UNCHANGED <<log, calls>>
      PROVE  Goal
  BY <1>1, <1>5 DEF Concluded, Sending
<1>6. ASSUME NEW c \in Caller, Sending(c) PROVE call[c].m \in Message
  BY <1>6, CallTypes, NotSending DEF ApiInv
<1>7. ASSUME NEW c \in Caller, GiveUp(c) PROVE Goal
  <2>1. CASE MayRetry(c)
    BY <1>1, <1>7, <2>1 DEF GiveUp
  <2>2. CASE ~ MayRetry(c)
    <3>1. call[c] # NoCall /\ outcome' = Concluded(c, "failed") /\ UNCHANGED <<log, calls>>
      BY <1>7, <2>2 DEF GiveUp
    <3>2. Sending(c) => P!End(call[c].m, "failed")
      BY <3>1, EndingIsEnd
    <3> QED BY <3>1, <3>2, <1>5, <1>6 DEF P!DeliveryNext, P!Fail
  <2> QED BY <2>1, <2>2
<1>8. ASSUME NEW c \in Caller, NEW r \in net, Receive(c, r) PROVE Goal
  <2>1. call[c] # NoCall /\ outcome' = Concluded(c, Verdict(r)) /\ UNCHANGED <<log, calls>>
    BY <1>8 DEF Receive, Awaited
  <2> QED BY <2>1, <1>5, <1>6, <1>8, ReceiveIsEnd DEF P!DeliveryNext
<1>9. CASE Serve
  <2>1. ASSUME NEW r \in net, AddMessage(r) PROVE Goal
    BY <2>1, AddMessageIsDeliver DEF P!DeliveryNext
  <2>2. ASSUME NEW r \in net, Reply(r) PROVE Goal
    BY <1>1, <2>2 DEF Reply, historyVars
  <2>3. ASSUME NEW r \in net, NEW k \in Client, Arrive(r, k) PROVE Goal
    BY <1>1, <2>3 DEF Arrive, historyVars
  <2> QED BY <1>9, <2>1, <2>2, <2>3 DEF Serve
<1>10. CASE TimePasses \/ (\E k \in Client : OtherRequest(k)) \/ UNCHANGED vars
  BY <1>1, <1>10 DEF TimePasses, OtherRequest, vars, historyVars
<1>11. ASSUME NEW c \in Caller, Proceed(c) PROVE Goal
  BY <1>4, <1>7, <1>8, <1>11 DEF Proceed
<1>12. CASE \E c \in Caller : Configure(c) \/ Start(c) \/ Proceed(c)
  BY <1>2, <1>3, <1>11, <1>12
<1> QED BY <1>9, <1>10, <1>12 DEF Next

LEMMA SpecKeepsThePromise == Spec => P!DeliverySpec
<1>1. Init => P!DeliveryInit
  BY DEF Init, P!DeliveryInit, Delivered
<1> QED BY <1>1, StepsKeepThePromise, ApiInvariant, PTL DEF Spec, P!DeliverySpec

\* The clients and the node behind its limiter implement Delivery: retries,
\* timeouts and late requests deliver no message too often, none whose call
\* was refused, and success is reported of delivered messages only.
THEOREM ApiImplementsDelivery == Spec => ImplementsDelivery
<1>1. P!DeliveryInit => Promise!DeliveryInit
  BY DEF P!DeliveryInit, Promise!DeliveryInit, Delivered
<1>2. [P!DeliveryNext]_P!deliveryVars => [Promise!DeliveryNext]_Promise!deliveryVars
  BY SameCardinality
     DEF P!DeliveryNext, P!deliveryVars, P!Call, P!Free, P!Deliver, P!Copies, P!End,
         P!Succeed, P!Fail, P!Refuse,
         Promise!DeliveryNext, Promise!deliveryVars, Promise!Call, Promise!Free,
         Promise!Deliver, Promise!Copies, Promise!End, Promise!Succeed, Promise!Fail,
         Promise!Refuse, Delivered
<1> QED BY <1>1, <1>2, SpecKeepsThePromise, PTL
        DEF P!DeliverySpec, ImplementsDelivery, Promise!DeliverySpec

\* Retries and late copies never reorder a caller's messages.
THEOREM ApiKeepsOrder == Spec => []FirstCopiesInOrder
<1>1. P!DeliveryInv => FirstCopiesInOrder
  BY DEF P!DeliveryInv, P!FirstCopiesInOrder, P!Copies, FirstCopiesInOrder,
         Promise!FirstCopiesInOrder, Promise!Copies, Delivered
<1> QED BY <1>1, SpecKeepsThePromise, P!PromiseInvariant, PTL
==============================================================================
