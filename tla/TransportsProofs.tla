------------------------- MODULE TransportsProofs -------------------------
(***************************************************************************)
(* Proofs about Transports, for every number of updates, chats, attempts   *)
(* and faults, and every choice of statuses that are repeated.             *)
(***************************************************************************)
EXTENDS Transports, FiniteSetTheorems, TLAPS

---------------------------------------------------------------------------
(* What a step does to one handler. *)

\* A step that changes nothing of a handler and takes nothing back keeps it.
LEMMA HandlerKept ==
    ASSUME NEW u \in Updates, NEW q \in Requests, HandlerInStep(u, q),
           handler'[<<u, q>>] = handler[<<u, q>>],
           next'[<<u, q>>] = next[<<u, q>>],
           \A c \in Chats : delivered[<<u, c>>] > 0 => delivered'[<<u, c>>] > 0,
           swallowed[u] \subseteq swallowed'[u]
    PROVE  HandlerInStep(u, q)'
BY DEF HandlerInStep

\* A running handler goes on to the next chat.
LEMMA HandlerMoved ==
    ASSUME NEW u \in Updates, NEW q \in Requests, HandlerInStep(u, q),
           handler'[<<u, q>>] = "running",
           next[<<u, q>>] \in Chats,
           next'[<<u, q>>] = next[<<u, q>>] + 1,
           \A c \in Chats : delivered[<<u, c>>] > 0 => delivered'[<<u, c>>] > 0,
           swallowed[u] \subseteq swallowed'[u],
           \/ delivered'[<<u, next[<<u, q>>]>>] > 0
           \/ q = GRPC /\ next[<<u, q>>] \in swallowed'[u]
    PROVE  HandlerInStep(u, q)'
<1>1. ASSUME NEW c \in Chats, c < next'[<<u, q>>]
      PROVE  delivered'[<<u, c>>] > 0 \/ (q = GRPC /\ c \in swallowed'[u])
  <2>1. c < next[<<u, q>>] \/ c = next[<<u, q>>]
    BY <1>1 DEF Chats
  <2> QED
    BY <2>1 DEF HandlerInStep
<1> QED
  BY <1>1 DEF HandlerInStep

\* A handler starts, answers or disappears.
LEMMA HandlerChanged ==
    ASSUME NEW u \in Updates, NEW q \in Requests, HandlerInStep(u, q),
           next'[<<u, q>>] = next[<<u, q>>],
           \/ handler'[<<u, q>>] \in {"running", "gone"}
           \/ handler'[<<u, q>>] = "429" /\ q # GRPC /\ next[<<u, q>>] = 1
           \/ handler'[<<u, q>>] = "500" /\ q # GRPC /\ next[<<u, q>>] \in Chats
           \/ handler'[<<u, q>>] = "200" /\ next[<<u, q>>] = NumChats + 1,
           \A c \in Chats : delivered[<<u, c>>] > 0 => delivered'[<<u, c>>] > 0,
           swallowed[u] \subseteq swallowed'[u]
    PROVE  HandlerInStep(u, q)'
BY DEF HandlerInStep

\* What the handler in question is.
LEMMA SendingTypes ==
    ASSUME TypeOK, NEW u \in Updates, NEW q \in Requests, Sending(u, q)
    PROVE  /\ <<u, q>> \in Updates \X Requests
           /\ handler[<<u, q>>] = "running"
           /\ next[<<u, q>>] \in Chats
           /\ next[<<u, q>>] + 1 \in 1..(NumChats + 1)
           /\ <<u, next[<<u, q>>]>> \in Updates \X Chats
BY ChatsAssumption DEF Sending, Chats, TypeOK

\* One message more for a chat takes no other message back.
LEMMA OneMoreMessage ==
    ASSUME TypeOK, NEW u \in Updates, NEW c \in Chats,
           delivered' = [delivered EXCEPT ![<<u, c>>] = @ + 1]
    PROVE  /\ delivered' \in [Updates \X Chats -> Nat]
           /\ delivered'[<<u, c>>] > 0
           /\ \A v \in Updates, d \in Chats :
                delivered[<<v, d>>] > 0 => delivered'[<<v, d>>] > 0
           /\ \A v \in Updates, d \in Chats : <<v, d>> # <<u, c>> =>
                delivered'[<<v, d>>] = delivered[<<v, d>>]
<1>1. <<u, c>> \in Updates \X Chats /\ delivered[<<u, c>>] \in Nat
  BY DEF TypeOK
<1>2. delivered' \in [Updates \X Chats -> Nat]
  BY <1>1 DEF TypeOK
<1>3. \A v \in Updates, d \in Chats : <<v, d>> # <<u, c>> =>
        delivered'[<<v, d>>] = delivered[<<v, d>>]
  BY DEF TypeOK
<1>4. delivered'[<<u, c>>] = delivered[<<u, c>>] + 1
  BY <1>1 DEF TypeOK
<1> QED
  BY <1>1, <1>2, <1>3, <1>4

\* The attempts over HTTP and the one over gRPC are different requests.
LEMMA RequestsAre ==
    /\ Attempts \subseteq Requests
    /\ GRPC \in Requests /\ GRPC \notin Attempts
    /\ Requests = Attempts \cup {GRPC}
BY AttemptsAssumption DEF Attempts, Requests, GRPC

---------------------------------------------------------------------------
(* Type correctness. *)

LEMMA ReturnTypes ==
    ASSUME TypeOK, update \in Updates, NEW a \in {"ok", "error"},
           NEW by \in {"none", "http", "grpc", "kafka"}, Return(a, by)
    PROVE  /\ result' \in [Updates -> {"none", "ok", "error"}]
           /\ route' \in [Updates -> {"none", "http", "grpc", "kafka"}]
           /\ update' \in 1..(NumUpdates + 1)
           /\ pc' \in {"idle", "http", "asked", "fallback", "askedgrpc"}
<1>1. update + 1 \in 1..(NumUpdates + 1)
  BY UpdatesAssumption DEF Updates
<1> QED
  BY <1>1 DEF Return, TypeOK

LEMMA PrimaryFailsTypes ==
    ASSUME TypeOK, update \in Updates, PrimaryFails
    PROVE  /\ result' \in [Updates -> {"none", "ok", "error"}]
           /\ route' \in [Updates -> {"none", "http", "grpc", "kafka"}]
           /\ update' \in 1..(NumUpdates + 1)
           /\ pc' \in {"idle", "http", "asked", "fallback", "askedgrpc"}
<1>1. CASE mode = "HTTP_ONLY"
  BY <1>1, ReturnTypes DEF PrimaryFails
<1>2. CASE mode # "HTTP_ONLY"
  BY <1>2 DEF PrimaryFails, answers, TypeOK
<1> QED
  BY <1>1, <1>2

LEMMA AttemptFailsTypes ==
    ASSUME TypeOK, update \in Updates, NEW s, AttemptFails(s)
    PROVE  /\ result' \in [Updates -> {"none", "ok", "error"}]
           /\ route' \in [Updates -> {"none", "http", "grpc", "kafka"}]
           /\ update' \in 1..(NumUpdates + 1)
           /\ pc' \in {"idle", "http", "asked", "fallback", "askedgrpc"}
           /\ attempt' \in 1..MaxAttempts
<1>1. CASE s \in Retryable /\ attempt < MaxAttempts
  BY <1>1, AttemptsAssumption DEF AttemptFails, answers, TypeOK
<1>2. CASE ~(s \in Retryable /\ attempt < MaxAttempts)
  <2>1. PrimaryFails /\ UNCHANGED attempt
    BY <1>2 DEF AttemptFails
  <2> QED
    BY <2>1, PrimaryFailsTypes DEF TypeOK
<1> QED
  BY <1>1, <1>2

\* A request that the caller opens or finds refused keeps the handlers' type.
LEMMA RequestTypes ==
    ASSUME TypeOK, update \in Updates, NEW q \in Requests,
           NEW s \in {"running", "429"},
           handler' = [handler EXCEPT ![<<update, q>>] = s]
    PROVE  handler' \in [Updates \X Requests -> HandlerStates]
BY DEF TypeOK, HandlerStates, Statuses

LEMMA SendFailsTypes ==
    ASSUME TypeOK, NEW u \in Updates, NEW q \in Requests, Sending(u, q),
           SendFails(u, q)
    PROVE  /\ handler' \in [Updates \X Requests -> HandlerStates]
           /\ next' \in [Updates \X Requests -> 1..(NumChats + 1)]
           /\ swallowed' \in [Updates -> SUBSET Chats]
<1>0. /\ <<u, q>> \in Updates \X Requests /\ next[<<u, q>>] \in Chats
      /\ next[<<u, q>>] + 1 \in 1..(NumChats + 1)
  BY SendingTypes
<1>1. CASE q = GRPC
  <2>1. swallowed[u] \cup {next[<<u, q>>]} \in SUBSET Chats
    BY <1>0 DEF TypeOK
  <2> QED
    BY <1>0, <1>1, <2>1 DEF SendFails, TypeOK
<1>2. CASE q # GRPC
  BY <1>0, <1>2 DEF SendFails, TypeOK, HandlerStates, Statuses
<1> QED
  BY <1>1, <1>2

LEMMA TypesKept ==
    ASSUME TypeOK, CallsInStep, [Next]_vars
    PROVE  TypeOK'
<1>0. /\ pc # "idle" => update \in Updates
      /\ attempt \in Requests /\ GRPC \in Requests
      /\ 1 \in 1..MaxAttempts
  BY RequestsAre, AttemptsAssumption DEF CallsInStep, TypeOK, Attempts
<1>1. CASE Call
  BY <1>0, <1>1 DEF Call, server, answers, TypeOK
<1>2. CASE Post
  BY <1>0, <1>2, RequestTypes DEF Post, answers, TypeOK
<1>3. CASE PostLimited
  <2>1. AttemptFails("429") /\ handler' \in [Updates \X Requests -> HandlerStates]
    BY <1>0, <1>3, RequestTypes DEF PostLimited
  <2> QED
    BY <1>0, <1>3, <2>1, AttemptFailsTypes DEF PostLimited, Fault, TypeOK
<1>4. CASE PostFails
  BY <1>0, <1>4, PrimaryFailsTypes DEF PostFails, Fault, server, TypeOK
<1>5. CASE Answered
  BY <1>0, <1>5, ReturnTypes, AttemptFailsTypes DEF Answered, server, TypeOK
<1>6. CASE NotAnswered
  BY <1>0, <1>6, PrimaryFailsTypes DEF NotAnswered, server, TypeOK
<1>7. CASE Produce
  BY <1>0, <1>7, ReturnTypes DEF Produce, server, TypeOK
<1>8. CASE ProduceFails
  BY <1>0, <1>8, ReturnTypes DEF ProduceFails, Fault, server, TypeOK
<1>9. CASE ProduceAckLost
  BY <1>0, <1>9, ReturnTypes DEF ProduceAckLost, Fault, server, TypeOK
<1>10. CASE Invoke
  BY <1>0, <1>10, RequestTypes DEF Invoke, answers, TypeOK
<1>11. CASE InvokeFails
  BY <1>0, <1>11, ReturnTypes DEF InvokeFails, Fault, server, TypeOK
<1>12. CASE Invoked
  BY <1>0, <1>12, ReturnTypes DEF Invoked, server, TypeOK
<1>13. CASE InvokedAnswerLost
  BY <1>0, <1>13, ReturnTypes DEF InvokedAnswerLost, Fault, server, TypeOK
<1>14. ASSUME NEW u \in Updates, NEW q \in Requests, Deliver(u, q)
       PROVE  TypeOK'
  BY <1>14, SendingTypes, OneMoreMessage DEF Deliver, answers, TypeOK
<1>15. ASSUME NEW u \in Updates, NEW q \in Requests, Refuse(u, q)
       PROVE  TypeOK'
  BY <1>15, SendFailsTypes DEF Refuse, Fault, answers, TypeOK
<1>16. ASSUME NEW u \in Updates, NEW q \in Requests, DeliverUnconfirmed(u, q)
       PROVE  TypeOK'
  <2>1. Sending(u, q) /\ next[<<u, q>>] \in Chats /\ SendFails(u, q)
    BY <1>16, SendingTypes DEF DeliverUnconfirmed
  <2>2. delivered' \in [Updates \X Chats -> Nat]
    BY <1>16, <2>1, OneMoreMessage DEF DeliverUnconfirmed
  <2>3. /\ handler' \in [Updates \X Requests -> HandlerStates]
        /\ next' \in [Updates \X Requests -> 1..(NumChats + 1)]
        /\ swallowed' \in [Updates -> SUBSET Chats]
    BY <2>1, SendFailsTypes
  <2> QED
    BY <1>16, <2>2, <2>3 DEF DeliverUnconfirmed, Fault, answers, TypeOK
<1>17. ASSUME NEW u \in Updates, NEW q \in Requests, Finish(u, q)
       PROVE  TypeOK'
  BY <1>17 DEF Finish, answers, TypeOK, HandlerStates, Statuses
<1>18. CASE Restart
  BY <1>18 DEF Restart, Fault, answers, TypeOK, HandlerStates
<1>19. CASE UNCHANGED vars
  BY <1>19 DEF vars, TypeOK
<1> QED
  BY <1>1, <1>2, <1>3, <1>4, <1>5, <1>6, <1>7, <1>8, <1>9, <1>10, <1>11,
     <1>12, <1>13, <1>14, <1>15, <1>16, <1>17, <1>18, <1>19
     DEF Next, CallerStep, HandlerStep

---------------------------------------------------------------------------
(* The handlers. *)

LEMMA ServerKept ==
    ASSUME HandlersInStep, UNCHANGED server
    PROVE  HandlersInStep'
BY DEF HandlersInStep, HandlerInStep, server

\* The handler of one request changes, no chat loses anything.
LEMMA OneHandlerChanged ==
    ASSUME TypeOK, HandlersInStep, NEW u \in Updates, NEW q \in Requests, NEW s,
           handler' = [handler EXCEPT ![<<u, q>>] = s],
           UNCHANGED <<next, delivered, swallowed>>,
           \/ s \in {"running", "gone"}
           \/ s = "429" /\ q # GRPC /\ next[<<u, q>>] = 1
           \/ s = "500" /\ q # GRPC /\ next[<<u, q>>] \in Chats
           \/ s = "200" /\ next[<<u, q>>] = NumChats + 1
    PROVE  HandlersInStep'
<1>1. ASSUME NEW v \in Updates, NEW p \in Requests
      PROVE  HandlerInStep(v, p)'
  <2>1. HandlerInStep(v, p) /\ <<v, p>> \in Updates \X Requests
    BY DEF HandlersInStep
  <2>2. CASE <<v, p>> = <<u, q>>
    <3>1. v = u /\ p = q /\ handler'[<<v, p>>] = s
      BY <2>1, <2>2 DEF TypeOK
    <3> QED
      BY <2>1, <3>1, HandlerChanged
  <2>3. CASE <<v, p>> # <<u, q>>
    <3>1. handler'[<<v, p>>] = handler[<<v, p>>]
      BY <2>1, <2>3 DEF TypeOK
    <3> QED
      BY <2>1, <3>1, HandlerKept
  <2> QED
    BY <2>2, <2>3
<1> QED
  BY <1>1 DEF HandlersInStep

\* A handler goes on to the next chat: the chat has got the message, or the
\* gRPC server has noted that it has not.
LEMMA OneHandlerMoved ==
    ASSUME TypeOK, HandlersInStep, NEW u \in Updates, NEW q \in Requests,
           Sending(u, q), UNCHANGED handler,
           next' = [next EXCEPT ![<<u, q>>] = @ + 1],
           \A v \in Updates, c \in Chats :
               delivered[<<v, c>>] > 0 => delivered'[<<v, c>>] > 0,
           \A v \in Updates : swallowed[v] \subseteq swallowed'[v],
           \/ delivered'[<<u, next[<<u, q>>]>>] > 0
           \/ q = GRPC /\ next[<<u, q>>] \in swallowed'[u]
    PROVE  HandlersInStep'
<1>0. handler[<<u, q>>] = "running" /\ next[<<u, q>>] \in Chats
  BY SendingTypes
<1>1. ASSUME NEW v \in Updates, NEW p \in Requests
      PROVE  HandlerInStep(v, p)'
  <2>1. HandlerInStep(v, p) /\ <<v, p>> \in Updates \X Requests
    BY DEF HandlersInStep
  <2>2. CASE <<v, p>> = <<u, q>>
    <3>1. v = u /\ p = q /\ next'[<<v, p>>] = next[<<v, p>>] + 1
      BY <2>1, <2>2 DEF TypeOK
    <3> QED
      BY <1>0, <2>1, <3>1, HandlerMoved
  <2>3. CASE <<v, p>> # <<u, q>>
    <3>1. next'[<<v, p>>] = next[<<v, p>>]
      BY <2>1, <2>3 DEF TypeOK
    <3> QED
      BY <2>1, <3>1, HandlerKept
  <2> QED
    BY <2>2, <2>3
<1> QED
  BY <1>1 DEF HandlersInStep

\* A failed send: over HTTP the handler stops, over gRPC it goes on.
LEMMA HandlerFails ==
    ASSUME TypeOK, HandlersInStep, NEW u \in Updates, NEW q \in Requests,
           Sending(u, q), SendFails(u, q),
           delivered' \in [Updates \X Chats -> Nat],
           \A v \in Updates, c \in Chats :
               delivered[<<v, c>>] > 0 => delivered'[<<v, c>>] > 0
    PROVE  HandlersInStep'
<1>0. handler[<<u, q>>] = "running" /\ next[<<u, q>>] \in Chats
  BY SendingTypes
<1>1. CASE q = GRPC
  <2>1. /\ swallowed' = [swallowed EXCEPT ![u] = swallowed[u] \cup {next[<<u, q>>]}]
        /\ next' = [next EXCEPT ![<<u, q>>] = @ + 1]
        /\ UNCHANGED handler
    BY <1>1 DEF SendFails
  <2>2. swallowed'[u] = swallowed[u] \cup {next[<<u, q>>]}
    BY <2>1 DEF TypeOK
  <2>3. ASSUME NEW v \in Updates PROVE swallowed[v] \subseteq swallowed'[v]
    BY <2>1, <2>2 DEF TypeOK
  <2> QED
    BY <1>1, <2>1, <2>2, <2>3, OneHandlerMoved
<1>2. CASE q # GRPC
  <2>1. ASSUME NEW v \in Updates, NEW p \in Requests
        PROVE  HandlerInStep(v, p)'
    <3>1. HandlerInStep(v, p) /\ <<v, p>> \in Updates \X Requests
      BY DEF HandlersInStep
    <3>2. CASE <<v, p>> = <<u, q>>
      <4>1. v = u /\ p = q /\ handler'[<<v, p>>] = "500"
        BY <1>2, <3>1, <3>2 DEF SendFails, TypeOK
      <4> QED
        BY <1>0, <1>2, <3>1, <4>1, HandlerChanged DEF SendFails
    <3>3. CASE <<v, p>> # <<u, q>>
      <4>1. handler'[<<v, p>>] = handler[<<v, p>>]
        BY <1>2, <3>1, <3>3 DEF SendFails, TypeOK
      <4> QED
        BY <1>2, <3>1, <4>1, HandlerKept DEF SendFails
    <3> QED
      BY <3>2, <3>3
  <2> QED
    BY <2>1 DEF HandlersInStep
<1> QED
  BY <1>1, <1>2

LEMMA HandlersKept ==
    ASSUME TypeOK, TypeOK', HandlersInStep, CallsInStep, [Next]_vars
    PROVE  HandlersInStep'
<1>0. /\ GRPC \in Requests /\ 1 \in Chats
      /\ attempt \in Requests /\ attempt \in Attempts /\ attempt # GRPC
  BY RequestsAre, ChatsAssumption DEF TypeOK, Chats, Attempts
<1>1. CASE UNCHANGED server
  BY <1>1, ServerKept
<1>2. CASE Post
  <2>1. update \in Updates
    BY <1>2 DEF Post, CallsInStep
  <2> QED
    BY <1>0, <1>2, <2>1, OneHandlerChanged DEF Post
<1>3. CASE PostLimited
  <2>1. update \in Updates /\ handler[<<update, attempt>>] = "none"
    BY <1>0, <1>3 DEF PostLimited, CallsInStep
  <2>2. next[<<update, attempt>>] = 1
    BY <1>0, <2>1 DEF HandlersInStep, HandlerInStep
  <2> QED
    BY <1>0, <1>3, <2>1, <2>2, OneHandlerChanged DEF PostLimited
<1>4. CASE Invoke
  <2>1. update \in Updates
    BY <1>4 DEF Invoke, CallsInStep
  <2> QED
    BY <1>0, <1>4, <2>1, OneHandlerChanged DEF Invoke
<1>5. ASSUME NEW u \in Updates, NEW q \in Requests, Deliver(u, q)
      PROVE  HandlersInStep'
  <2>1. Sending(u, q) /\ next[<<u, q>>] \in Chats
    BY <1>5, SendingTypes DEF Deliver
  <2>2. /\ UNCHANGED <<handler, swallowed>>
        /\ next' = [next EXCEPT ![<<u, q>>] = @ + 1]
        /\ delivered' = [delivered EXCEPT ![<<u, next[<<u, q>>]>>] = @ + 1]
    BY <1>5 DEF Deliver
  <2>3. /\ delivered'[<<u, next[<<u, q>>]>>] > 0
        /\ \A v \in Updates, c \in Chats :
              delivered[<<v, c>>] > 0 => delivered'[<<v, c>>] > 0
    BY <2>1, <2>2, OneMoreMessage
  <2>4. \A v \in Updates : swallowed[v] \subseteq swallowed'[v]
    BY <2>2
  <2> QED
    BY <2>1, <2>2, <2>3, <2>4, OneHandlerMoved
<1>6. ASSUME NEW u \in Updates, NEW q \in Requests, Refuse(u, q)
      PROVE  HandlersInStep'
  <2>1. Sending(u, q) /\ SendFails(u, q) /\ UNCHANGED delivered
    BY <1>6 DEF Refuse
  <2> QED
    BY <2>1, HandlerFails DEF TypeOK
<1>7. ASSUME NEW u \in Updates, NEW q \in Requests, DeliverUnconfirmed(u, q)
      PROVE  HandlersInStep'
  <2>1. /\ Sending(u, q) /\ next[<<u, q>>] \in Chats /\ SendFails(u, q)
        /\ delivered' = [delivered EXCEPT ![<<u, next[<<u, q>>]>>] = @ + 1]
    BY <1>7, SendingTypes DEF DeliverUnconfirmed
  <2>2. /\ delivered' \in [Updates \X Chats -> Nat]
        /\ \A v \in Updates, c \in Chats :
              delivered[<<v, c>>] > 0 => delivered'[<<v, c>>] > 0
    BY <2>1, OneMoreMessage
  <2> QED
    BY <2>1, <2>2, HandlerFails
<1>8. ASSUME NEW u \in Updates, NEW q \in Requests, Finish(u, q)
      PROVE  HandlersInStep'
  <2>0. next[<<u, q>>] \in 1..(NumChats + 1)
    BY DEF TypeOK
  <2>1. next[<<u, q>>] = NumChats + 1
    BY <1>8, <2>0, ChatsAssumption DEF Finish, Chats
  <2> QED
    BY <1>8, <2>1, OneHandlerChanged DEF Finish
<1>9. CASE Restart
  <2>1. ASSUME NEW u \in Updates, NEW q \in Requests
        PROVE  HandlerInStep(u, q)'
    <3>1. HandlerInStep(u, q) /\ UNCHANGED <<next, delivered, swallowed>>
      BY <1>9 DEF HandlersInStep, Restart
    <3>2. handler'[<<u, q>>] = "gone" \/ handler'[<<u, q>>] = handler[<<u, q>>]
      BY <1>9 DEF Restart
    <3> QED
      BY <3>1, <3>2, HandlerChanged, HandlerKept
  <2> QED
    BY <2>1 DEF HandlersInStep
<1> QED
  BY <1>1, <1>2, <1>3, <1>4, <1>5, <1>6, <1>7, <1>8, <1>9
     DEF Next, CallerStep, HandlerStep, vars, server, Call, PostFails, Answered,
         NotAnswered, Produce, ProduceFails, ProduceAckLost, InvokeFails,
         Invoked, InvokedAnswerLost

---------------------------------------------------------------------------
(* The messages. *)

\* No chat loses a message, no handler goes back, no lost answer is found.
LEMMA NothingIsTakenBack ==
    ASSUME TypeOK, [Next]_vars
    PROVE  /\ lost \subseteq lost'
           /\ \A u \in Updates, c \in Chats :
                 delivered[<<u, c>>] > 0 => delivered'[<<u, c>>] > 0
           /\ \A u \in Updates, q \in Requests : next[<<u, q>>] <= next'[<<u, q>>]
           /\ \A u \in Updates : swallowed[u] \subseteq swallowed'[u]
<1>1. CASE UNCHANGED <<next, delivered, swallowed>> /\ lost \subseteq lost'
  BY <1>1, ChatsAssumption DEF TypeOK, Chats
<1>2. ASSUME NEW u \in Updates, NEW q \in Requests, Sending(u, q),
             next' = [next EXCEPT ![<<u, q>>] = @ + 1]
      PROVE  \A v \in Updates, p \in Requests : next[<<v, p>>] <= next'[<<v, p>>]
  <2>1. ASSUME NEW v \in Updates, NEW p \in Requests
        PROVE  next[<<v, p>>] <= next'[<<v, p>>]
    <3>1. <<v, p>> \in Updates \X Requests /\ next[<<v, p>>] \in Nat
      BY ChatsAssumption DEF TypeOK
    <3>2. CASE <<v, p>> = <<u, q>>
      BY <1>2, <3>1, <3>2 DEF TypeOK
    <3>3. CASE <<v, p>> # <<u, q>>
      BY <1>2, <3>1, <3>3 DEF TypeOK
    <3> QED
      BY <3>2, <3>3
  <2> QED
    BY <2>1
<1>3. ASSUME NEW u \in Updates, NEW q \in Requests, Sending(u, q), SendFails(u, q)
      PROVE  /\ \A v \in Updates, p \in Requests : next[<<v, p>>] <= next'[<<v, p>>]
             /\ \A v \in Updates : swallowed[v] \subseteq swallowed'[v]
  <2>1. CASE q = GRPC
    <3>1. /\ swallowed' = [swallowed EXCEPT ![u] = swallowed[u] \cup {next[<<u, q>>]}]
          /\ next' = [next EXCEPT ![<<u, q>>] = @ + 1]
      BY <1>3, <2>1 DEF SendFails
    <3>2. \A v \in Updates : swallowed[v] \subseteq swallowed'[v]
      BY <3>1 DEF TypeOK
    <3> QED
      BY <1>2, <1>3, <3>1, <3>2
  <2>2. CASE q # GRPC
    <3>1. UNCHANGED <<next, swallowed>>
      BY <1>3, <2>2 DEF SendFails
    <3> QED
      BY <3>1, ChatsAssumption DEF TypeOK
  <2> QED
    BY <2>1, <2>2
<1>4. ASSUME NEW u \in Updates, NEW q \in Requests, Deliver(u, q)
      PROVE  /\ UNCHANGED <<swallowed, lost>>
             /\ \A v \in Updates, c \in Chats :
                   delivered[<<v, c>>] > 0 => delivered'[<<v, c>>] > 0
             /\ \A v \in Updates, p \in Requests : next[<<v, p>>] <= next'[<<v, p>>]
  BY <1>2, <1>4, SendingTypes, OneMoreMessage DEF Deliver
<1>5. ASSUME NEW u \in Updates, NEW q \in Requests, DeliverUnconfirmed(u, q)
      PROVE  /\ lost \subseteq lost' /\ Sending(u, q) /\ SendFails(u, q)
             /\ \A v \in Updates, c \in Chats :
                   delivered[<<v, c>>] > 0 => delivered'[<<v, c>>] > 0
  BY <1>5, SendingTypes, OneMoreMessage DEF DeliverUnconfirmed
<1>6. ASSUME NEW u \in Updates, NEW q \in Requests, Refuse(u, q)
      PROVE  UNCHANGED <<delivered, lost>> /\ Sending(u, q) /\ SendFails(u, q)
  BY <1>6 DEF Refuse
<1>7. ASSUME NEW u \in Updates, NEW q \in Requests, Finish(u, q)
      PROVE  UNCHANGED <<next, delivered, swallowed, lost>>
  BY <1>7 DEF Finish
<1>8. CASE CallerStep \/ InvokedAnswerLost \/ Restart \/ UNCHANGED vars
  BY <1>1, <1>8
     DEF CallerStep, vars, server, Call, Post, PostLimited, PostFails, Answered,
         NotAnswered, Produce, ProduceFails, ProduceAckLost, Invoke, InvokeFails,
         Invoked, InvokedAnswerLost, Restart
<1>9. ASSUME NEW u \in Updates, NEW q \in Requests, HandlerStep(u, q)
      PROVE  /\ lost \subseteq lost'
             /\ \A v \in Updates, c \in Chats :
                   delivered[<<v, c>>] > 0 => delivered'[<<v, c>>] > 0
             /\ \A v \in Updates, p \in Requests : next[<<v, p>>] <= next'[<<v, p>>]
             /\ \A v \in Updates : swallowed[v] \subseteq swallowed'[v]
  <2>1. CASE Deliver(u, q)
    BY <1>4, <2>1
  <2>2. CASE Refuse(u, q)
    BY <1>3, <1>6, <2>2
  <2>3. CASE DeliverUnconfirmed(u, q)
    BY <1>3, <1>5, <2>3
  <2>4. CASE Finish(u, q)
    BY <1>1, <1>7, <2>4
  <2> QED
    BY <1>9, <2>1, <2>2, <2>3, <2>4 DEF HandlerStep
<1> QED
  BY <1>8, <1>9 DEF Next

\* A chat gets a message from a handler that is sending to it and goes on, or
\* whose answer from Telegram is lost.
LEMMA WhoDelivers ==
    ASSUME TypeOK, [Next]_vars, NEW u \in Updates, NEW c \in Chats,
           delivered'[<<u, c>>] # delivered[<<u, c>>]
    PROVE  \E q \in Requests :
              /\ Sending(u, q) /\ next[<<u, q>>] = c
              /\ u \in lost' \/ next'[<<u, q>>] = c + 1
<1>1. ASSUME NEW v \in Updates, NEW q \in Requests,
             Deliver(v, q) \/ DeliverUnconfirmed(v, q)
      PROVE  v = u /\ Sending(u, q) /\ next[<<u, q>>] = c
  <2>1. /\ Sending(v, q) /\ next[<<v, q>>] \in Chats
        /\ delivered' = [delivered EXCEPT ![<<v, next[<<v, q>>]>>] = @ + 1]
    BY <1>1, SendingTypes DEF Deliver, DeliverUnconfirmed
  <2>2. <<u, c>> = <<v, next[<<v, q>>]>>
    BY <2>1, OneMoreMessage
  <2> QED
    BY <2>1, <2>2
<1>2. ASSUME NEW v \in Updates, NEW q \in Requests, Deliver(v, q)
      PROVE  next'[<<u, q>>] = c + 1
  <2>1. v = u /\ next[<<u, q>>] = c /\ <<u, q>> \in Updates \X Requests
    BY <1>1, <1>2
  <2> QED
    BY <1>2, <2>1 DEF Deliver, TypeOK
<1>3. ASSUME NEW v \in Updates, NEW q \in Requests, DeliverUnconfirmed(v, q)
      PROVE  u \in lost'
  BY <1>1, <1>3 DEF DeliverUnconfirmed
<1>4. \E v \in Updates, q \in Requests : Deliver(v, q) \/ DeliverUnconfirmed(v, q)
  BY DEF Next, CallerStep, HandlerStep, vars, server, Call, Post, PostLimited,
         PostFails, Answered, NotAnswered, Produce, ProduceFails, ProduceAckLost,
         Invoke, InvokeFails, Invoked, InvokedAnswerLost, Refuse, Finish, Restart
<1> QED
  BY <1>1, <1>2, <1>3, <1>4

LEMMA SendersKept ==
    ASSUME TypeOK, TypeOK', MessagesHaveSenders, [Next]_vars
    PROVE  MessagesHaveSenders'
<1>1. ASSUME NEW u \in Updates, NEW c \in Chats, delivered'[<<u, c>>] > 0
      PROVE  u \in lost' \/ \E q \in Requests : c < next'[<<u, q>>]
  <2>1. CASE delivered[<<u, c>>] > 0
    <3>1. CASE u \in lost
      BY <3>1, NothingIsTakenBack
    <3>2. CASE u \notin lost
      <4>1. PICK q \in Requests : c < next[<<u, q>>]
        BY <2>1, <3>2 DEF MessagesHaveSenders
      <4>2. next[<<u, q>>] <= next'[<<u, q>>]
        BY NothingIsTakenBack
      <4>3. /\ next[<<u, q>>] \in 1..(NumChats + 1)
            /\ next'[<<u, q>>] \in 1..(NumChats + 1)
        BY DEF TypeOK
      <4> QED
        BY <4>1, <4>2, <4>3 DEF Chats
    <3> QED
      BY <3>1, <3>2
  <2>2. CASE ~(delivered[<<u, c>>] > 0)
    <3>1. PICK q \in Requests : u \in lost' \/ next'[<<u, q>>] = c + 1
      BY <1>1, <2>2, WhoDelivers
    <3> QED
      BY <3>1 DEF Chats
  <2> QED
    BY <2>1, <2>2
<1> QED
  BY <1>1 DEF MessagesHaveSenders

---------------------------------------------------------------------------
(* The calls. *)

LEMMA ReturnChanges ==
    ASSUME TypeOK, update \in Updates, NEW a, NEW by, Return(a, by)
    PROVE  /\ result'[update] = a /\ route'[update] = by
           /\ \A u \in Updates : u # update =>
                 result'[u] = result[u] /\ route'[u] = route[u]
BY DEF Return, TypeOK

\* How a step can end the call.
LEMMA Outcomes ==
    ASSUME TypeOK, HandlersInStep, CallsInStep, [Next]_vars
    PROVE  /\ topic \subseteq topic'
           /\ \/ UNCHANGED answers
              \/ update \in Updates /\ Return("error", "none")
              \/ /\ update \in Updates /\ Return("ok", "http")
                 /\ handler[<<update, attempt>>] = "200"
              \/ /\ update \in Updates /\ Return("ok", "grpc")
                 /\ handler[<<update, GRPC>>] = "200"
              \/ /\ update \in Updates /\ Return("ok", "kafka")
                 /\ update \in topic'
<1>0. pc # "idle" => update \in Updates
  BY DEF CallsInStep
<1>1. ASSUME NEW s, AttemptFails(s)
      PROVE  UNCHANGED answers \/ Return("error", "none")
  BY <1>1 DEF AttemptFails, PrimaryFails, answers
<1>2. ASSUME PrimaryFails
      PROVE  UNCHANGED answers \/ Return("error", "none")
  BY <1>2 DEF PrimaryFails, answers
<1>3. CASE PostLimited \/ PostFails \/ NotAnswered
  BY <1>0, <1>1, <1>2, <1>3 DEF PostLimited, PostFails, NotAnswered
<1>4. CASE Answered
  <2>1. Waiting = <<update, attempt>>
    BY <1>4 DEF Answered, Waiting
  <2> QED
    BY <1>0, <1>1, <1>4, <2>1 DEF Answered
<1>5. CASE Invoked
  <2>1. Waiting = <<update, GRPC>> /\ update \in Updates
    BY <1>0, <1>5 DEF Invoked, Waiting
  <2>2. handler[<<update, GRPC>>] = "200"
    BY <1>5, <2>1, RequestsAre DEF Invoked, HandlersInStep, HandlerInStep, Statuses
  <2> QED
    BY <1>5, <2>1, <2>2 DEF Invoked
<1>6. CASE Produce \/ ProduceFails \/ ProduceAckLost \/ InvokeFails \/ InvokedAnswerLost
  BY <1>0, <1>6 DEF Produce, ProduceFails, ProduceAckLost, InvokeFails,
                    InvokedAnswerLost
<1>7. CASE Call \/ Post \/ Invoke \/ Restart \/ UNCHANGED vars
  BY <1>7 DEF Call, Post, Invoke, Restart, vars, answers
<1>8. ASSUME NEW u \in Updates, NEW q \in Requests, HandlerStep(u, q)
      PROVE  UNCHANGED <<topic, answers>>
  BY <1>8 DEF HandlerStep, Deliver, Refuse, DeliverUnconfirmed, Finish
<1> QED
  BY <1>3, <1>4, <1>5, <1>6, <1>7, <1>8 DEF Next, CallerStep

\* A handler that has answered 200 has gone through all the chats.
LEMMA AllChatsTried ==
    ASSUME HandlersInStep, NEW u \in Updates, NEW q \in Requests,
           handler[<<u, q>>] = "200", NEW c \in Chats
    PROVE  delivered[<<u, c>>] > 0 \/ (q = GRPC /\ c \in swallowed[u])
<1>1. HandlerInStep(u, q) /\ c < NumChats + 1
  BY ChatsAssumption DEF HandlersInStep, Chats
<1> QED
  BY <1>1 DEF HandlerInStep

LEMMA SuccessKept ==
    ASSUME TypeOK, HandlersInStep, CallsInStep, SuccessMeansHandled, [Next]_vars
    PROVE  SuccessMeansHandled'
<1> DEFINE Handled(u) ==
      /\ route[u] = "http" => \A c \in Chats : delivered[<<u, c>>] > 0
      /\ route[u] = "grpc" =>
            \A c \in Chats : delivered[<<u, c>>] > 0 \/ c \in swallowed[u]
      /\ route[u] = "kafka" => u \in topic
      /\ result[u] = "ok" <=> route[u] # "none"
<1>0. /\ topic \subseteq topic'
      /\ \A u \in Updates, c \in Chats :
            delivered[<<u, c>>] > 0 => delivered'[<<u, c>>] > 0
      /\ \A u \in Updates : swallowed[u] \subseteq swallowed'[u]
  BY Outcomes, NothingIsTakenBack
<1>1. ASSUME NEW u \in Updates, result'[u] = result[u], route'[u] = route[u]
      PROVE  Handled(u)'
  <2>1. Handled(u)
    BY DEF SuccessMeansHandled
  <2> QED
    BY <1>0, <1>1, <2>1
<1>2. ASSUME NEW v \in Updates, v = update, NEW a, NEW by, Return(a, by),
             Handled(v)'
      PROVE  SuccessMeansHandled'
  BY <1>1, <1>2, ReturnChanges DEF SuccessMeansHandled
<1>3. CASE UNCHANGED answers
  BY <1>1, <1>3 DEF SuccessMeansHandled, answers
<1>4. CASE update \in Updates /\ Return("error", "none")
  BY <1>2, <1>4, ReturnChanges
<1>5. CASE /\ update \in Updates /\ Return("ok", "http")
           /\ handler[<<update, attempt>>] = "200"
  <2>1. attempt \in Requests /\ attempt # GRPC
    BY RequestsAre DEF TypeOK, Attempts
  <2>2. \A c \in Chats : delivered'[<<update, c>>] > 0
    BY <1>0, <1>5, <2>1, AllChatsTried
  <2> QED
    BY <1>2, <1>5, <2>2, ReturnChanges
<1>6. CASE /\ update \in Updates /\ Return("ok", "grpc")
           /\ handler[<<update, GRPC>>] = "200"
  <2>1. \A c \in Chats : delivered'[<<update, c>>] > 0 \/ c \in swallowed'[update]
    BY <1>0, <1>6, RequestsAre, AllChatsTried
  <2> QED
    BY <1>2, <1>6, <2>1, ReturnChanges
<1>7. CASE /\ update \in Updates /\ Return("ok", "kafka") /\ update \in topic'
  BY <1>2, <1>7, ReturnChanges
<1> QED
  BY <1>3, <1>4, <1>5, <1>6, <1>7, Outcomes

\* A failed send ends a handler over HTTP with 500 and leaves all others.
LEMMA SendFailsChanges ==
    ASSUME TypeOK, NEW u \in Updates, NEW q \in Requests, Sending(u, q),
           SendFails(u, q), NEW v \in Updates, NEW p \in Requests
    PROVE  \/ handler'[<<v, p>>] = handler[<<v, p>>]
           \/ /\ handler[<<v, p>>] = "running" /\ handler'[<<v, p>>] = "500"
              /\ p \in Attempts
<1>1. <<v, p>> \in Updates \X Requests /\ <<u, q>> \in Updates \X Requests
  OBVIOUS
<1>2. CASE q = GRPC
  BY <1>2 DEF SendFails
<1>3. CASE q # GRPC
  BY <1>1, <1>3, RequestsAre DEF SendFails, Sending, TypeOK
<1> QED
  BY <1>2, <1>3

LEMMA CallsKept ==
    ASSUME TypeOK, TypeOK', CallsInStep, [Next]_vars
    PROVE  CallsInStep'
<1> USE RequestsAre, UpdatesAssumption, AttemptsAssumption DEF Updates, Requests, Attempts, GRPC
<1>1. CASE Call
  BY <1>1 DEF Call, server, answers, TypeOK, CallsInStep
<1>2. CASE Post
  BY <1>2 DEF Post, server, answers, TypeOK, CallsInStep
<1>3. CASE PostLimited
  BY <1>3 DEF PostLimited, AttemptFails, PrimaryFails, Return, server, answers, TypeOK, CallsInStep
<1>4. CASE PostFails
  BY <1>4 DEF PostFails, PrimaryFails, Return, server, answers, TypeOK, CallsInStep
<1>5. CASE Answered
  BY <1>5 DEF Answered, AttemptFails, PrimaryFails, Return, Waiting, Statuses, server, answers, TypeOK, CallsInStep
<1>6. CASE NotAnswered
  BY <1>6 DEF NotAnswered, PrimaryFails, Return, server, answers, TypeOK, CallsInStep
<1>7. CASE Produce
  BY <1>7 DEF Produce, Return, server, answers, TypeOK, CallsInStep
<1>8. CASE ProduceFails
  BY <1>8 DEF ProduceFails, Return, server, answers, TypeOK, CallsInStep
<1>9. CASE ProduceAckLost
  BY <1>9 DEF ProduceAckLost, Return, server, answers, TypeOK, CallsInStep
<1>10. CASE Invoke
  BY <1>10 DEF Invoke, server, answers, TypeOK, CallsInStep
<1>11. CASE InvokeFails
  BY <1>11 DEF InvokeFails, Return, server, answers, TypeOK, CallsInStep
<1>12. CASE Invoked
  BY <1>12 DEF Invoked, Return, Waiting, Statuses, server, answers, TypeOK, CallsInStep
<1>13. CASE InvokedAnswerLost
  BY <1>13 DEF InvokedAnswerLost, Return, server, answers, TypeOK, CallsInStep
<1>14. ASSUME NEW u \in Updates, NEW q \in Requests, Deliver(u, q)
       PROVE  CallsInStep'
  BY <1>14 DEF Deliver, Sending, server, answers, TypeOK, CallsInStep
<1>15. ASSUME NEW u \in Updates, NEW q \in Requests, Refuse(u, q)
       PROVE  CallsInStep'
  <2>1. /\ \A v \in Updates, p \in Requests :
              handler'[<<v, p>>] = "none" <=> handler[<<v, p>>] = "none"
        /\ UNCHANGED <<update, pc, attempt, result, topic>>
    BY <1>15, SendFailsChanges DEF Refuse, answers
  <2> QED
    BY <2>1 DEF CallsInStep
<1>16. ASSUME NEW u \in Updates, NEW q \in Requests, DeliverUnconfirmed(u, q)
       PROVE  CallsInStep'
  <2>1. /\ \A v \in Updates, p \in Requests :
              handler'[<<v, p>>] = "none" <=> handler[<<v, p>>] = "none"
        /\ UNCHANGED <<update, pc, attempt, result, topic>>
    BY <1>16, SendFailsChanges DEF DeliverUnconfirmed, answers
  <2> QED
    BY <2>1 DEF CallsInStep
<1>17. ASSUME NEW u \in Updates, NEW q \in Requests, Finish(u, q)
       PROVE  CallsInStep'
  BY <1>17 DEF Finish, server, answers, TypeOK, CallsInStep
<1>18. CASE Restart
  BY <1>18 DEF Restart, server, answers, TypeOK, CallsInStep
<1>19. CASE UNCHANGED vars
  BY <1>19 DEF vars, server, answers, TypeOK, CallsInStep
<1> QED
  BY <1>1, <1>2, <1>3, <1>4, <1>5, <1>6, <1>7, <1>8, <1>9, <1>10, <1>11, <1>12, <1>13, <1>14, <1>15, <1>16, <1>17, <1>18, <1>19
     DEF Next, CallerStep, HandlerStep

LEMMA NobodyBehindTheBack ==
    ASSUME TypeOK, TypeOK', SuccessMeansHandled, HandlersInStep, CallsInStep,
           NothingBehindTheBack, [Next]_vars
    PROVE  NothingBehindTheBack'
<1> DEFINE Alone(u) ==
      /\ \A q \in Attempts :
            \/ handler[<<u, q>>] \in {"none", "429", "500"}
            \/ u = update /\ pc = "asked" /\ q = attempt
            \/ route[u] = "http" /\ handler[<<u, q>>] = "200"
      /\ \/ handler[<<u, GRPC>>] = "none"
         \/ u = update /\ pc = "askedgrpc"
         \/ route[u] = "grpc" /\ handler[<<u, GRPC>>] = "200"
      /\ u \in topic => route[u] = "kafka"
<1>0. lost \subseteq lost'
  BY NothingIsTakenBack
<1>1. ASSUME NEW u \in Updates, u \notin lost
      PROVE  Alone(u)
  BY <1>1 DEF NothingBehindTheBack
<1>2. SUFFICES ASSUME NEW u \in Updates, u \notin lost'
               PROVE  Alone(u)'
  BY DEF NothingBehindTheBack
<1>3. Alone(u)
  BY <1>0, <1>1, <1>2
\* A call that is not in progress keeps its handlers, its answer and its topic.
<1>4. CASE /\ u # update
           /\ \A q \in Requests : handler'[<<u, q>>] = handler[<<u, q>>]
           /\ route'[u] = route[u]
           /\ u \in topic' => u \in topic
  BY <1>3, <1>4, RequestsAre
<1>5. ASSUME u = update, pc # "idle"
      PROVE  /\ \A q \in Attempts :
                   \/ handler[<<u, q>>] \in {"none", "429", "500"}
                   \/ pc = "asked" /\ q = attempt
             /\ handler[<<u, GRPC>>] = "none" \/ pc = "askedgrpc"
             /\ u \notin topic /\ route[u] = "none"
  <2>1. result[u] = "none" /\ u \notin topic
    BY <1>5 DEF CallsInStep, TypeOK
  <2>2. route[u] = "none"
    BY <2>1 DEF SuccessMeansHandled
  <2> QED
    BY <1>3, <1>5, <2>1, <2>2
<1>6. CASE Call
  <2>1. CASE u # update
    BY <1>4, <1>6, <2>1, RequestsAre DEF Call, server, answers, TypeOK
  <2>2. CASE u = update
    <3>1. \A q \in Requests : handler'[<<u, q>>] = "none"
      BY <1>6, <2>2 DEF Call, CallsInStep, server
    <3>2. u \notin topic'
      BY <1>6, <2>2 DEF Call, CallsInStep, TypeOK
    <3> QED
      BY <3>1, <3>2, RequestsAre
  <2> QED
    BY <2>1, <2>2
<1>7. CASE Post
  <2>1. CASE u # update
    BY <1>4, <1>7, <2>1, RequestsAre DEF Post, server, answers, TypeOK
  <2>2. CASE u = update
    <3>1. /\ attempt \in Attempts /\ attempt \in Requests
          /\ handler' = [handler EXCEPT ![<<u, attempt>>] = "running"]
          /\ u \in topic' => u \in topic
          /\ pc = "http"
      BY <1>7, <2>2, RequestsAre DEF Post, TypeOK, Attempts
    <3>2. /\ handler'[<<u, attempt>>] = "running"
          /\ \A q \in Requests : q # attempt =>
                handler'[<<u, q>>] = handler[<<u, q>>]
      BY <3>1 DEF TypeOK
    <3> QED
      BY <1>5, <1>7, <2>2, <3>1, <3>2, RequestsAre DEF Post
  <2> QED
    BY <2>1, <2>2
<1>8. CASE PostLimited
  <2>1. CASE u # update
    BY <1>4, <1>8, <2>1, RequestsAre DEF PostLimited, AttemptFails, PrimaryFails, Return, server, answers, TypeOK
  <2>2. CASE u = update
    <3>1. /\ attempt \in Attempts /\ attempt \in Requests
          /\ handler' = [handler EXCEPT ![<<u, attempt>>] = "429"]
          /\ u \in topic' => u \in topic
          /\ pc = "http"
      BY <1>8, <2>2, RequestsAre DEF PostLimited, TypeOK, Attempts
    <3>2. /\ handler'[<<u, attempt>>] = "429"
          /\ \A q \in Requests : q # attempt =>
                handler'[<<u, q>>] = handler[<<u, q>>]
      BY <3>1 DEF TypeOK
    <3> QED
      BY <1>5, <1>8, <2>2, <3>1, <3>2, RequestsAre DEF PostLimited
  <2> QED
    BY <2>1, <2>2
<1>9. CASE PostFails
  <2>1. CASE u # update
    BY <1>4, <1>9, <2>1, RequestsAre DEF PostFails, PrimaryFails, Return, server, answers, TypeOK
  <2>2. CASE u = update
    BY <1>5, <1>9, <2>2, RequestsAre DEF PostFails, PrimaryFails, Return, server, answers, TypeOK
  <2> QED
    BY <2>1, <2>2
<1>10. CASE Answered
  <2>1. CASE u # update
    BY <1>4, <1>10, <2>1, RequestsAre DEF Answered, AttemptFails, PrimaryFails, Return, Waiting, Statuses, server, answers, TypeOK
  <2>2. CASE u = update
    BY <1>5, <1>10, <2>2, RequestsAre DEF Answered, AttemptFails, PrimaryFails, Return, Waiting, Statuses, server, answers, TypeOK
  <2> QED
    BY <2>1, <2>2
<1>11. CASE NotAnswered
  <2>1. CASE u # update
    BY <1>4, <1>11, <2>1, RequestsAre DEF NotAnswered, PrimaryFails, Return, server, answers, TypeOK
  <2>2. CASE u = update
    BY <1>2, <1>11, <2>2 DEF NotAnswered
  <2> QED
    BY <2>1, <2>2
<1>12. CASE Produce
  <2>1. CASE u # update
    BY <1>4, <1>12, <2>1, RequestsAre DEF Produce, Return, server, answers, TypeOK
  <2>2. CASE u = update
    BY <1>5, <1>12, <2>2, RequestsAre DEF Produce, Return, server, answers, TypeOK
  <2> QED
    BY <2>1, <2>2
<1>13. CASE ProduceFails
  <2>1. CASE u # update
    BY <1>4, <1>13, <2>1, RequestsAre DEF ProduceFails, Return, server, answers, TypeOK
  <2>2. CASE u = update
    BY <1>5, <1>13, <2>2, RequestsAre DEF ProduceFails, Return, server, answers, TypeOK
  <2> QED
    BY <2>1, <2>2
<1>14. CASE ProduceAckLost
  <2>1. CASE u # update
    BY <1>4, <1>14, <2>1, RequestsAre DEF ProduceAckLost, Return, server, answers, TypeOK
  <2>2. CASE u = update
    BY <1>2, <1>14, <2>2 DEF ProduceAckLost
  <2> QED
    BY <2>1, <2>2
<1>15. CASE Invoke
  <2>1. CASE u # update
    BY <1>4, <1>15, <2>1, RequestsAre DEF Invoke, server, answers, TypeOK
  <2>2. CASE u = update
    BY <1>5, <1>15, <2>2, RequestsAre DEF Invoke, server, answers, TypeOK
  <2> QED
    BY <2>1, <2>2
<1>16. CASE InvokeFails
  <2>1. CASE u # update
    BY <1>4, <1>16, <2>1, RequestsAre DEF InvokeFails, Return, server, answers, TypeOK
  <2>2. CASE u = update
    BY <1>5, <1>16, <2>2, RequestsAre DEF InvokeFails, Return, server, answers, TypeOK
  <2> QED
    BY <2>1, <2>2
<1>17. CASE Invoked
  <2>1. CASE u # update
    BY <1>4, <1>17, <2>1, RequestsAre DEF Invoked, Return, Waiting, Statuses, server, answers, TypeOK
  <2>2. CASE u = update
    <3>1. /\ Waiting = <<u, GRPC>> /\ Return("ok", "grpc") /\ pc = "askedgrpc"
          /\ handler[<<u, GRPC>>] \in Statuses
          /\ UNCHANGED <<handler, topic>>
      BY <1>17, <2>2 DEF Invoked, Waiting, server
    <3>2. handler[<<u, GRPC>>] = "200"
      BY <3>1, RequestsAre DEF HandlersInStep, HandlerInStep, Statuses
    <3>3. route'[u] = "grpc"
      BY <2>2, <3>1 DEF Return, TypeOK
    <3> QED
      BY <1>5, <2>2, <3>1, <3>2, <3>3, RequestsAre
  <2> QED
    BY <2>1, <2>2
<1>18. CASE InvokedAnswerLost
  <2>1. CASE u # update
    BY <1>4, <1>18, <2>1, RequestsAre DEF InvokedAnswerLost, Return, server, answers, TypeOK
  <2>2. CASE u = update
    BY <1>2, <1>18, <2>2 DEF InvokedAnswerLost
  <2> QED
    BY <2>1, <2>2
<1>19. ASSUME NEW v \in Updates, NEW p \in Requests, Deliver(v, p)
      PROVE  Alone(u)'
  BY <1>3, <1>19, RequestsAre DEF Deliver, answers, TypeOK
<1>20. ASSUME NEW v \in Updates, NEW p \in Requests, Refuse(v, p)
      PROVE  Alone(u)'
  <2>1. /\ Sending(v, p) /\ SendFails(v, p)
        /\ UNCHANGED <<update, pc, attempt, route, topic>>
    BY <1>20 DEF Refuse, answers
  <2>2. \A q \in Requests :
          \/ handler'[<<u, q>>] = handler[<<u, q>>]
          \/ handler'[<<u, q>>] = "500" /\ q \in Attempts
    BY <2>1, SendFailsChanges
  <2> QED
    BY <1>3, <2>1, <2>2, RequestsAre
<1>21. ASSUME NEW v \in Updates, NEW p \in Requests, DeliverUnconfirmed(v, p)
      PROVE  Alone(u)'
  <2>1. /\ Sending(v, p) /\ SendFails(v, p)
        /\ UNCHANGED <<update, pc, attempt, route, topic>>
    BY <1>21 DEF DeliverUnconfirmed, answers
  <2>2. \A q \in Requests :
          \/ handler'[<<u, q>>] = handler[<<u, q>>]
          \/ handler'[<<u, q>>] = "500" /\ q \in Attempts
    BY <2>1, SendFailsChanges
  <2> QED
    BY <1>3, <2>1, <2>2, RequestsAre
<1>22. ASSUME NEW v \in Updates, NEW p \in Requests, Finish(v, p)
      PROVE  Alone(u)'
  BY <1>3, <1>22, RequestsAre DEF Finish, answers, TypeOK
<1>23. CASE Restart
  BY <1>3, <1>23, RequestsAre DEF Restart, answers
<1>24. CASE UNCHANGED vars
  BY <1>3, <1>24 DEF vars
<1> QED
  BY <1>6, <1>7, <1>8, <1>9, <1>10, <1>11, <1>12, <1>13, <1>14, <1>15, <1>16, <1>17, <1>18, <1>19, <1>20, <1>21, <1>22, <1>23, <1>24
     DEF Next, CallerStep, HandlerStep

---------------------------------------------------------------------------
(* The repetitions. *)

\* A request starts to send only when the caller posts or invokes it.
LEMMA WhoGoesLive ==
    ASSUME TypeOK, [Next]_vars, NEW u \in Updates, NEW q \in Requests,
           Live(u, q)', ~Live(u, q)
    PROVE  u = update /\ ((Post /\ q = attempt) \/ (Invoke /\ q = GRPC))
<1>0. <<u, q>> \in Updates \X Requests
  OBVIOUS
<1>1. CASE Post
  <2>1. CASE <<u, q>> = <<update, attempt>>
    <3>1. u = update /\ q = attempt
      BY <2>1
    <3> QED
      BY <1>1, <3>1
  <2>2. CASE <<u, q>> # <<update, attempt>>
    <3>1. handler'[<<u, q>>] = handler[<<u, q>>]
      BY <1>0, <1>1, <2>2 DEF Post, TypeOK
    <3> QED
      BY <3>1 DEF Live
  <2> QED
    BY <2>1, <2>2
<1>2. CASE Invoke
  BY <1>0, <1>2 DEF Invoke, Live, TypeOK
<1>3. CASE PostLimited
  BY <1>0, <1>3 DEF PostLimited, Live, TypeOK
<1>4. CASE UNCHANGED handler
  BY <1>4 DEF Live
<1>5. ASSUME NEW v \in Updates, NEW p \in Requests, Refuse(v, p)
      PROVE  FALSE
  <2>1. Sending(v, p) /\ SendFails(v, p)
    BY <1>5 DEF Refuse
  <2> QED
    BY <2>1, SendFailsChanges DEF Live
<1>6. ASSUME NEW v \in Updates, NEW p \in Requests, DeliverUnconfirmed(v, p)
      PROVE  FALSE
  <2>1. Sending(v, p) /\ SendFails(v, p)
    BY <1>6 DEF DeliverUnconfirmed
  <2> QED
    BY <2>1, SendFailsChanges DEF Live
<1>7. ASSUME NEW v \in Updates, NEW p \in Requests, Finish(v, p)
      PROVE  FALSE
  BY <1>0, <1>7 DEF Finish, Live, TypeOK
<1>8. CASE Restart
  BY <1>0, <1>8 DEF Restart, Live
<1> QED
  BY <1>1, <1>2, <1>3, <1>4, <1>5, <1>6, <1>7, <1>8
     DEF Next, CallerStep, HandlerStep, vars, server, Call, PostFails, Answered,
         NotAnswered, Produce, ProduceFails, ProduceAckLost, InvokeFails,
         Invoked, InvokedAnswerLost, Deliver

LEMMA OneLiveRequestKept ==
    ASSUME TypeOK, SuccessMeansHandled, CallsInStep, NothingBehindTheBack,
           OneLiveRequest, [Next]_vars
    PROVE  OneLiveRequest'
<1> SUFFICES ASSUME NEW u \in Updates, u \notin lost',
                    NEW p \in Requests, NEW q \in Requests,
                    Live(u, p)', Live(u, q)'
             PROVE  p = q
  BY DEF OneLiveRequest
<1>0. u \notin lost
  BY NothingIsTakenBack
\* The caller starts a request only when nothing of the call is at work.
<1>1. ASSUME u = update, Post \/ Invoke
      PROVE  \A r \in Requests : ~Live(u, r)
  <2>1. pc \in {"http", "fallback"}
    BY <1>1 DEF Post, Invoke
  <2>2. route[u] = "none"
    BY <1>1 DEF CallsInStep, SuccessMeansHandled, TypeOK
  <2> QED
    BY <1>0, <2>1, <2>2, RequestsAre DEF NothingBehindTheBack, Live
<1>2. CASE Live(u, p) /\ Live(u, q)
  BY <1>0, <1>2 DEF OneLiveRequest
<1>3. CASE ~Live(u, p) \/ ~Live(u, q)
  <2>1. u = update /\ (Post \/ Invoke)
    BY <1>3, WhoGoesLive
  <2>2. ~Live(u, p) /\ ~Live(u, q)
    BY <1>1, <2>1
  <2>3. /\ (Post /\ p = attempt) \/ (Invoke /\ p = GRPC)
        /\ (Post /\ q = attempt) \/ (Invoke /\ q = GRPC)
    BY <2>2, WhoGoesLive
  <2>4. ~(Post /\ Invoke)
    BY DEF Post, Invoke
  <2> QED
    BY <2>3, <2>4
<1> QED
  BY <1>2, <1>3

\* A handler that has answered 500 stays there.
LEMMA FailureStays ==
    ASSUME TypeOK, HandlersInStep, CallsInStep, [Next]_vars,
           NEW u \in Updates, NEW q \in Requests, handler[<<u, q>>] = "500"
    PROVE  handler'[<<u, q>>] = "500"
<1>0. <<u, q>> \in Updates \X Requests /\ q # GRPC /\ attempt \in Attempts
  BY RequestsAre DEF HandlersInStep, HandlerInStep, TypeOK, Attempts
<1>1. CASE Post \/ PostLimited
  <2>1. handler[<<update, attempt>>] = "none"
    BY <1>0, <1>1 DEF Post, PostLimited, CallsInStep
  <2> QED
    BY <1>0, <1>1, <2>1 DEF Post, PostLimited, TypeOK
<1>2. CASE Invoke
  BY <1>0, <1>2 DEF Invoke, TypeOK
<1>3. CASE UNCHANGED handler
  BY <1>3
<1>4. ASSUME NEW v \in Updates, NEW p \in Requests,
             Refuse(v, p) \/ DeliverUnconfirmed(v, p)
      PROVE  handler'[<<u, q>>] = "500"
  <2>1. Sending(v, p) /\ SendFails(v, p)
    BY <1>4 DEF Refuse, DeliverUnconfirmed
  <2> QED
    BY <2>1, SendFailsChanges
<1>5. ASSUME NEW v \in Updates, NEW p \in Requests, Finish(v, p)
      PROVE  handler'[<<u, q>>] = "500"
  BY <1>0, <1>5 DEF Finish, TypeOK
<1>6. CASE Restart
  BY <1>0, <1>6 DEF Restart
<1> QED
  BY <1>1, <1>2, <1>3, <1>4, <1>5, <1>6
     DEF Next, CallerStep, HandlerStep, vars, server, Call, PostFails, Answered,
         NotAnswered, Produce, ProduceFails, ProduceAckLost, InvokeFails,
         Invoked, InvokedAnswerLost, Deliver

\* Requests that have gone past a chat, or ended at it, do not come back.
LEMMA PastGrows ==
    ASSUME TypeOK, TypeOK', HandlersInStep, CallsInStep, [Next]_vars,
           NEW u \in Updates, NEW c \in Chats
    PROVE  /\ Past(u, c) \subseteq Past(u, c)'
           /\ Past(u, c) \cup EndedAt(u, c) \subseteq (Past(u, c) \cup EndedAt(u, c))'
<1>1. ASSUME NEW q \in Requests
      PROVE  /\ next[<<u, q>>] \in Nat /\ next'[<<u, q>>] \in Nat /\ c \in Nat
             /\ next[<<u, q>>] <= next'[<<u, q>>]
  BY ChatsAssumption, NothingIsTakenBack DEF TypeOK, Chats
<1>2. ASSUME NEW q \in Requests, c < next[<<u, q>>]
      PROVE  c < next'[<<u, q>>]
  BY <1>1, <1>2
<1>3. ASSUME NEW q \in Requests, c = next[<<u, q>>], handler[<<u, q>>] = "500"
      PROVE  \/ c < next'[<<u, q>>]
             \/ c = next'[<<u, q>>] /\ handler'[<<u, q>>] = "500"
  BY <1>1, <1>3, FailureStays
<1> QED
  BY <1>2, <1>3 DEF Past, EndedAt

\* A message comes from a request that had not been past the chat and is
\* afterwards, or has ended at it and the answer of Telegram is lost.
LEMMA MessageFromNewRequest ==
    ASSUME TypeOK, [Next]_vars, NEW u \in Updates, NEW c \in Chats,
           delivered'[<<u, c>>] # delivered[<<u, c>>]
    PROVE  /\ delivered'[<<u, c>>] = delivered[<<u, c>>] + 1
           /\ \E q \in Requests :
                 /\ q \notin Past(u, c) \cup EndedAt(u, c)
                 /\ q \in (Past(u, c) \cup EndedAt(u, c))'
                 /\ u \in lost' \/ q \in Past(u, c)'
<1>1. PICK v \in Updates, q \in Requests : Deliver(v, q) \/ DeliverUnconfirmed(v, q)
  BY DEF Next, CallerStep, HandlerStep, vars, server, Call, Post, PostLimited,
         PostFails, Answered, NotAnswered, Produce, ProduceFails, ProduceAckLost,
         Invoke, InvokeFails, Invoked, InvokedAnswerLost, Refuse, Finish, Restart
<1>2. /\ Sending(v, q) /\ next[<<v, q>>] \in Chats
      /\ delivered' = [delivered EXCEPT ![<<v, next[<<v, q>>]>>] = @ + 1]
  BY <1>1, SendingTypes DEF Deliver, DeliverUnconfirmed
<1>3. v = u /\ next[<<u, q>>] = c
  <2>1. <<u, c>> = <<v, next[<<v, q>>]>>
    BY <1>2, OneMoreMessage
  <2> QED
    BY <2>1
<1>4. delivered'[<<u, c>>] = delivered[<<u, c>>] + 1
  BY <1>2, <1>3 DEF TypeOK
<1>5. q \notin Past(u, c) \cup EndedAt(u, c)
  BY <1>2, <1>3 DEF Past, EndedAt, Sending, Chats
<1>6. \/ next'[<<u, q>>] = c + 1
      \/ next'[<<u, q>>] = c /\ handler'[<<u, q>>] = "500" /\ u \in lost'
  <2>1. CASE Deliver(u, q)
    BY <1>3, <2>1 DEF Deliver, TypeOK
  <2>2. CASE DeliverUnconfirmed(u, q)
    BY <1>3, <2>2 DEF DeliverUnconfirmed, SendFails, TypeOK
  <2> QED
    BY <1>1, <1>3, <2>1, <2>2
<1>7. q \in (Past(u, c) \cup EndedAt(u, c))' /\ (u \in lost' \/ q \in Past(u, c)')
  BY <1>6 DEF Past, EndedAt, Chats
<1> QED
  BY <1>4, <1>5, <1>7

\* Sets of requests are finite, and grow by what they get.
LEMMA SetsOfRequests ==
    ASSUME NEW S \in SUBSET Requests, NEW T \in SUBSET Requests, S \subseteq T
    PROVE  /\ Cardinality(S) \in Nat /\ Cardinality(T) \in Nat
           /\ Cardinality(S) <= Cardinality(T)
           /\ T # S => Cardinality(S) + 1 <= Cardinality(T)
           /\ Cardinality(T) <= GRPC
<1>1. IsFiniteSet(Requests) /\ Cardinality(Requests) = GRPC
  BY FS_Interval, AttemptsAssumption DEF Requests, GRPC
<1>2. IsFiniteSet(T) /\ Cardinality(T) <= GRPC
  BY <1>1, FS_Subset
<1>3. /\ IsFiniteSet(S) /\ Cardinality(S) <= Cardinality(T)
      /\ Cardinality(T) = Cardinality(S) => T = S
  BY <1>2, FS_Subset
<1>4. Cardinality(S) \in Nat /\ Cardinality(T) \in Nat
  BY <1>2, <1>3, FS_CardinalityType
<1> QED
  BY <1>2, <1>3, <1>4

LEMMA MessagesCounted ==
    ASSUME TypeOK, TypeOK', HandlersInStep, CallsInStep, MessagesAreCounted,
           [Next]_vars
    PROVE  MessagesAreCounted'
<1> SUFFICES ASSUME NEW u \in Updates, NEW c \in Chats
             PROVE  (/\ delivered[<<u, c>>] <= Cardinality(Past(u, c) \cup EndedAt(u, c))
                     /\ u \notin lost => delivered[<<u, c>>] <= Cardinality(Past(u, c)))'
  BY DEF MessagesAreCounted
<1> DEFINE P == Past(u, c)
           A == P \cup EndedAt(u, c)
<1>1. /\ P \in SUBSET Requests /\ P' \in SUBSET Requests
      /\ A \in SUBSET Requests /\ A' \in SUBSET Requests
      /\ P \subseteq P' /\ A \subseteq A'
  <2>1. /\ Past(u, c) \subseteq Requests /\ EndedAt(u, c) \subseteq Requests
        /\ Past(u, c)' \subseteq Requests /\ EndedAt(u, c)' \subseteq Requests
    BY DEF Past, EndedAt
  <2> QED
    BY <2>1, PastGrows
<1>2. /\ delivered[<<u, c>>] \in Nat /\ delivered'[<<u, c>>] \in Nat
      /\ delivered[<<u, c>>] <= Cardinality(A)
      /\ u \notin lost => delivered[<<u, c>>] <= Cardinality(P)
      /\ u \notin lost' => u \notin lost
  BY NothingIsTakenBack DEF MessagesAreCounted, TypeOK
<1>3. /\ Cardinality(P) \in Nat /\ Cardinality(P') \in Nat
      /\ Cardinality(A) \in Nat /\ Cardinality(A') \in Nat
      /\ Cardinality(P) <= Cardinality(P') /\ Cardinality(A) <= Cardinality(A')
      /\ P' # P => Cardinality(P) + 1 <= Cardinality(P')
      /\ A' # A => Cardinality(A) + 1 <= Cardinality(A')
  BY <1>1, SetsOfRequests
<1>4. CASE delivered'[<<u, c>>] = delivered[<<u, c>>]
  BY <1>2, <1>3, <1>4
<1>5. CASE delivered'[<<u, c>>] # delivered[<<u, c>>]
  <2>1. /\ delivered'[<<u, c>>] = delivered[<<u, c>>] + 1
        /\ A' # A
        /\ u \notin lost' => P' # P
    BY <1>5, MessageFromNewRequest
  <2> QED
    BY <1>2, <1>3, <2>1
<1> QED
  BY <1>4, <1>5

---------------------------------------------------------------------------
(* The theorems. *)

LEMMA InitIndInv == Init => IndInv
<1> SUFFICES ASSUME Init
             PROVE  IndInv
  OBVIOUS
<1>1. TypeOK
  BY UpdatesAssumption, ChatsAssumption, AttemptsAssumption, FaultsAssumption
     DEF Init, TypeOK, HandlerStates
<1>2. SuccessMeansHandled /\ MessagesHaveSenders /\ CallsInStep
  BY UpdatesAssumption, RequestsAre
     DEF Init, SuccessMeansHandled, MessagesHaveSenders, CallsInStep, Updates
<1>3. HandlersInStep
  BY ChatsAssumption DEF Init, HandlersInStep, HandlerInStep, Chats
<1>4. NothingBehindTheBack
  BY RequestsAre DEF Init, NothingBehindTheBack
<1>5. OneLiveRequest
  BY DEF Init, OneLiveRequest, Live
<1>6. MessagesAreCounted
  <2>1. ASSUME NEW u \in Updates, NEW c \in Chats
        PROVE  /\ delivered[<<u, c>>] = 0
               /\ 0 <= Cardinality(Past(u, c) \cup EndedAt(u, c))
               /\ 0 <= Cardinality(Past(u, c))
    <3>1. /\ Past(u, c) \in SUBSET Requests
          /\ Past(u, c) \cup EndedAt(u, c) \in SUBSET Requests
      BY DEF Past, EndedAt
    <3>2. /\ Cardinality(Past(u, c)) \in Nat
          /\ Cardinality(Past(u, c) \cup EndedAt(u, c)) \in Nat
      BY <3>1, SetsOfRequests
    <3> QED
      BY <3>2 DEF Init
  <2> QED
    BY <2>1 DEF MessagesAreCounted
<1> QED
  BY <1>1, <1>2, <1>3, <1>4, <1>5, <1>6 DEF IndInv

LEMMA IndInvInductive == IndInv /\ [Next]_vars => IndInv'
BY TypesKept, HandlersKept, SendersKept, SuccessKept, CallsKept,
   NobodyBehindTheBack, OneLiveRequestKept, MessagesCounted DEF IndInv

\* The state of a call, of its requests and of the messages they leave fit
\* together in every reachable state.
THEOREM TransportsInvariant == Spec => []IndInv
BY InitIndInv, IndInvInductive, PTL DEF Spec

\* When SendUpdate reports success, every chat has the update, or the gRPC
\* server has noted that it has not, or the Kafka topic has the update.
THEOREM SuccessIsHandled == Spec => []SuccessMeansHandled
<1>1. IndInv => SuccessMeansHandled
  BY DEF IndInv
<1> QED
  BY <1>1, TransportsInvariant, PTL

\* When SendUpdate reports an error and no answer was lost, the update is not in
\* the topic and its last chat has not got it.
THEOREM ErrorsAreHonest == Spec => []FailureIsHonest
<1>1. ASSUME IndInv
      PROVE  FailureIsHonest
  <2> SUFFICES ASSUME NEW u \in Updates, result[u] = "error", u \notin lost
               PROVE  u \notin topic /\ \E c \in Chats : delivered[<<u, c>>] = 0
    BY DEF FailureIsHonest
  <2>1. route[u] = "none"
    BY <1>1 DEF IndInv, SuccessMeansHandled
  <2>2. u # update
    BY <1>1 DEF IndInv, CallsInStep, TypeOK
  <2>3. /\ u \notin topic
        /\ \A q \in Requests : handler[<<u, q>>] \in {"none", "429", "500"}
    BY <1>1, <2>1, <2>2, RequestsAre DEF IndInv, NothingBehindTheBack
  <2>4. \A q \in Requests : ~(NumChats < next[<<u, q>>])
    <3>1. ASSUME NEW q \in Requests
          PROVE  next[<<u, q>>] \in Chats
      BY <1>1, <2>3, ChatsAssumption
         DEF IndInv, HandlersInStep, HandlerInStep, Chats
    <3> QED
      BY <3>1, ChatsAssumption DEF Chats
  <2>5. NumChats \in Chats /\ delivered[<<u, NumChats>>] \in Nat
    BY <1>1, ChatsAssumption DEF IndInv, TypeOK, Chats
  <2>6. delivered[<<u, NumChats>>] = 0
    <3>1. ~(delivered[<<u, NumChats>>] > 0)
      BY <1>1, <2>4, <2>5 DEF IndInv, MessagesHaveSenders
    <3> QED
      BY <2>5, <3>1
  <2> QED
    BY <2>3, <2>5, <2>6
<1> QED
  BY <1>1, TransportsInvariant, PTL

\* A message that is sent after SendUpdate has returned comes from a handler
\* whose answer was lost.
THEOREM LateMessagesExplained == Spec => LateMessagesNeedALostAnswer
<1>1. ASSUME IndInv, [Next]_vars, NEW u \in Updates, NEW c \in Chats,
             delivered'[<<u, c>>] # delivered[<<u, c>>], result[u] # "none"
      PROVE  u \in lost
  <2>1. PICK q \in Requests : handler[<<u, q>>] = "running"
    BY <1>1, WhoDelivers DEF IndInv, Sending
  <2>2. u # update
    BY <1>1 DEF IndInv, CallsInStep, TypeOK
  <2> QED
    BY <1>1, <2>1, <2>2, RequestsAre DEF IndInv, NothingBehindTheBack
<1>2. IndInv /\ [Next]_vars =>
        [\A u \in Updates, c \in Chats :
           (delivered'[<<u, c>>] # delivered[<<u, c>>] /\ result[u] # "none")
              => u \in lost]_vars
  BY <1>1
<1> QED
  BY <1>2, TransportsInvariant, PTL DEF Spec, LateMessagesNeedALostAnswer

\* No request sends the same update twice to a chat; and unless an answer was
\* lost, a chat gets it again only because an attempt failed at a chat behind
\* it: the last chat gets it once.
THEOREM RepetitionsExplained == Spec => []RepetitionsAreExplained
<1>1. ASSUME IndInv
      PROVE  RepetitionsAreExplained
  <2> SUFFICES ASSUME NEW u \in Updates, NEW c \in Chats
               PROVE  /\ delivered[<<u, c>>] <= GRPC
                      /\ u \notin lost =>
                            delivered[<<u, c>>] <= 1 + Cardinality(FailedBehind(u, c))
    BY DEF RepetitionsAreExplained
  <2>0. /\ delivered[<<u, c>>] \in Nat /\ GRPC \in Nat
        /\ Past(u, c) \in SUBSET Requests
        /\ Past(u, c) \cup EndedAt(u, c) \in SUBSET Requests
        /\ FailedBehind(u, c) \in SUBSET Requests
    BY <1>1, AttemptsAssumption, RequestsAre
       DEF IndInv, TypeOK, GRPC, Past, EndedAt, FailedBehind
  <2>1. delivered[<<u, c>>] <= GRPC
    <3>1. /\ Cardinality(Past(u, c) \cup EndedAt(u, c)) \in Nat
          /\ Cardinality(Past(u, c) \cup EndedAt(u, c)) <= GRPC
      BY <2>0, SetsOfRequests
    <3> QED
      BY <1>1, <2>0, <3>1 DEF IndInv, MessagesAreCounted
  \* All the requests past the chat have failed but for the live one.
  <2>2. ASSUME NEW q \in Past(u, c), ~Live(u, q)
        PROVE  q \in FailedBehind(u, c)
    <3>1. q \in Requests /\ HandlerInStep(u, q) /\ c < next[<<u, q>>]
      BY <1>1, <2>2 DEF Past, IndInv, HandlersInStep
    <3>2. handler[<<u, q>>] = "500"
      BY <2>2, <3>1 DEF Live, HandlerInStep, Chats
    <3> QED
      BY <3>1, <3>2, RequestsAre DEF FailedBehind, HandlerInStep
  <2>3. ASSUME u \notin lost
        PROVE  delivered[<<u, c>>] <= 1 + Cardinality(FailedBehind(u, c))
    <3>1. PICK q : Past(u, c) \subseteq FailedBehind(u, c) \cup {q}
      <4>1. CASE \E q \in Past(u, c) : Live(u, q)
        <5>1. PICK q \in Past(u, c) : Live(u, q)
          BY <4>1
        <5>2. Past(u, c) \subseteq FailedBehind(u, c) \cup {q}
          BY <1>1, <2>2, <2>3, <5>1 DEF IndInv, OneLiveRequest, Past
        <5> QED
          BY <5>2
      <4>2. CASE ~\E q \in Past(u, c) : Live(u, q)
        BY <2>2, <4>2
      <4> QED
        BY <4>1, <4>2
    <3>2. /\ IsFiniteSet(Past(u, c)) /\ IsFiniteSet(FailedBehind(u, c))
          /\ Cardinality(Past(u, c)) \in Nat
          /\ Cardinality(FailedBehind(u, c)) \in Nat
      <4>1. IsFiniteSet(Requests)
        BY FS_Interval, AttemptsAssumption DEF Requests, GRPC
      <4>2. IsFiniteSet(Past(u, c)) /\ IsFiniteSet(FailedBehind(u, c))
        BY <2>0, <4>1, FS_Subset
      <4> QED
        BY <4>2, FS_CardinalityType
    <3>3. /\ IsFiniteSet(FailedBehind(u, c) \cup {q})
          /\ Cardinality(FailedBehind(u, c) \cup {q})
                <= Cardinality(FailedBehind(u, c)) + 1
          /\ Cardinality(FailedBehind(u, c) \cup {q}) \in Nat
      <4>1. /\ IsFiniteSet(FailedBehind(u, c) \cup {q})
            /\ Cardinality(FailedBehind(u, c) \cup {q}) =
                 IF q \in FailedBehind(u, c)
                 THEN Cardinality(FailedBehind(u, c))
                 ELSE Cardinality(FailedBehind(u, c)) + 1
        BY <3>2, FS_AddElement
      <4>2. Cardinality(FailedBehind(u, c) \cup {q}) \in Nat
        BY <4>1, FS_CardinalityType
      <4> QED
        BY <3>2, <4>1, <4>2
    <3>4. Cardinality(Past(u, c)) <= Cardinality(FailedBehind(u, c) \cup {q})
      BY <3>1, <3>3, FS_Subset
    <3>5. delivered[<<u, c>>] <= Cardinality(Past(u, c))
      BY <1>1, <2>3 DEF IndInv, MessagesAreCounted
    <3> QED
      BY <2>0, <3>2, <3>3, <3>4, <3>5
  <2> QED
    BY <2>1, <2>3
<1> QED
  BY <1>1, TransportsInvariant, PTL
===========================================================================
