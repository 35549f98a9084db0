---------------------------- MODULE Transports ----------------------------
(***************************************************************************)
(* How the scrapper notifies the bot when the outbox is off: the calls of  *)
(* BotClient.SendUpdate that one worker of the scheduler makes, one after  *)
(* another (http_bot_client.go, grpc_bot_client.go, kafka_bot_client.go,   *)
(* fallback_bot_client.go, retry.go, timeout.go), and the two servers of   *)
(* the bot that answer them (updates_handler.go, update_service.go,        *)
(* bot_grpc_server.go).                                                    *)
(*                                                                         *)
(* A request over HTTP has a deadline, and the handler of the bot does not *)
(* look at the context of the request: when the client has given up, the   *)
(* handler goes on sending, next to whatever the retry or the fallback     *)
(* starts.                                                                 *)
(***************************************************************************)
EXTENDS Naturals, FiniteSets

CONSTANTS
    NumUpdates,   \* calls of SendUpdate: the updates are 1..NumUpdates
    NumChats,     \* TgChatIDs of an update, in their order: 1..NumChats
    MaxAttempts,  \* EXTERNAL_API_RETRY_MAX_ATTEMPTS
    Retryable,    \* EXTERNAL_API_RETRYABLE_STATUSES
    Modes,        \* transports to choose from, see Transport
    MaxFaults     \* bound on refusals, lost answers and restarts

\* The wiring of main: HTTP with Kafka behind it, "GRPC" which is HTTP with
\* gRPC behind it, HTTP alone if the gRPC client cannot be made, Kafka alone.
Transport == {"HTTP", "GRPC", "HTTP_ONLY", "KAFKA"}

\* The bot's server answers these; 429 comes from the rate limiter in front
\* of the router.  400 is for an update without chats, which no caller sends.
Statuses == {"200", "429", "500"}

ASSUME UpdatesAssumption == NumUpdates \in Nat
ASSUME ChatsAssumption == NumChats \in Nat \ {0}
ASSUME AttemptsAssumption == MaxAttempts \in Nat \ {0}
ASSUME RetryableAssumption == Retryable \subseteq Statuses \ {"200"}
ASSUME ModesAssumption == Modes \subseteq Transport
ASSUME FaultsAssumption == MaxFaults \in Nat

Updates == 1..NumUpdates
Chats == 1..NumChats
GRPC == MaxAttempts + 1         \* the request over gRPC follows the attempts
Requests == 1..GRPC

VARIABLES
    mode,       \* NotificationTransport
    update,     \* the update of the call in progress
    pc,         \* where that call is
    attempt,    \* number of the HTTP attempt
    handler,    \* for every request of every call, its handler in the bot
    next,       \* ... and the chat that handler sends to next
    result,     \* what the calls returned
    route,      \* the transport that made a call succeed
    delivered,  \* how often a chat has got an update
    swallowed,  \* chats whose failed message the gRPC server only logged
    topic,      \* updates that are in the Kafka topic
    lost,       \* updates for which an answer was lost on the way
    faults      \* what can still go wrong

server == <<handler, next, delivered, swallowed>>
answers == <<result, route>>
vars == <<mode, update, pc, attempt, handler, next, result, route,
          delivered, swallowed, topic, lost, faults>>

HandlerStates == {"none", "running", "gone"} \cup Statuses

TypeOK ==
    /\ mode \in Modes
    /\ update \in 1..(NumUpdates + 1)
    /\ pc \in {"idle", "http", "asked", "fallback", "askedgrpc"}
    /\ attempt \in 1..MaxAttempts
    /\ handler \in [Updates \X Requests -> HandlerStates]
    /\ next \in [Updates \X Requests -> 1..(NumChats + 1)]
    /\ result \in [Updates -> {"none", "ok", "error"}]
    /\ route \in [Updates -> {"none", "http", "grpc", "kafka"}]
    /\ delivered \in [Updates \X Chats -> Nat]
    /\ swallowed \in [Updates -> SUBSET Chats]
    /\ topic \subseteq Updates
    /\ lost \subseteq Updates
    /\ faults \in Nat

Init ==
    /\ mode \in Modes
    /\ update = 1
    /\ pc = "idle"
    /\ attempt = 1
    /\ handler = [r \in Updates \X Requests |-> "none"]
    /\ next = [r \in Updates \X Requests |-> 1]
    /\ result = [u \in Updates |-> "none"]
    /\ route = [u \in Updates |-> "none"]
    /\ delivered = [d \in Updates \X Chats |-> 0]
    /\ swallowed = [u \in Updates |-> {}]
    /\ topic = {}
    /\ lost = {}
    /\ faults = MaxFaults

\* Something goes wrong.
Fault == faults > 0 /\ faults' = faults - 1

---------------------------------------------------------------------------
(* The caller. *)

Call ==
    /\ pc = "idle"
    /\ update \in Updates
    /\ pc' = IF mode = "KAFKA" THEN "fallback" ELSE "http"
    /\ attempt' = 1
    /\ UNCHANGED <<mode, update, server, answers, topic, lost, faults>>

Return(answer, by) ==
    /\ result' = [result EXCEPT ![update] = answer]
    /\ route' = [route EXCEPT ![update] = by]
    /\ update' = update + 1
    /\ pc' = "idle"

\* FallbackBotClient: any error of the primary transport, and HTTP alone has
\* nothing to fall back to.
PrimaryFails ==
    IF mode = "HTTP_ONLY"
    THEN Return("error", "none")
    ELSE pc' = "fallback" /\ UNCHANGED <<update, answers>>

\* The retrier repeats only an answer whose status is in the list, never an
\* error of the transport.
\* Mutant: the last attempt does not count as failed.
AttemptFailsButLast(status) ==
    IF status \in Retryable
    THEN IF attempt < MaxAttempts
         THEN /\ attempt' = attempt + 1
              /\ pc' = "http"
              /\ UNCHANGED <<update, answers>>
         ELSE Return("ok", "http") /\ UNCHANGED attempt
    ELSE PrimaryFails /\ UNCHANGED attempt

AttemptFails(status) ==
    IF status \in Retryable /\ attempt < MaxAttempts
    THEN /\ attempt' = attempt + 1
         /\ pc' = "http"
         /\ UNCHANGED <<update, answers>>
    ELSE PrimaryFails /\ UNCHANGED attempt

\* The current request.
Waiting == <<update, IF pc = "askedgrpc" THEN GRPC ELSE attempt>>

\* POST /updates passes the rate limiter and reaches the handler.
Post ==
    /\ pc = "http"
    /\ handler' = [handler EXCEPT ![<<update, attempt>>] = "running"]
    /\ pc' = "asked"
    /\ UNCHANGED <<mode, update, attempt, next, delivered, swallowed, answers,
                   topic, lost, faults>>

\* Mutant: the rate limiter answers and lets the request pass all the same.
PostLimitedGoesOn ==
    /\ Fault
    /\ pc = "http"
    /\ handler' = [handler EXCEPT ![<<update, attempt>>] = "running"]
    /\ AttemptFails("429")
    /\ UNCHANGED <<mode, next, delivered, swallowed, topic, lost>>

\* The rate limiter of the bot answers in place of the handler.
PostLimited ==
    /\ Fault
    /\ pc = "http"
    /\ handler' = [handler EXCEPT ![<<update, attempt>>] = "429"]
    /\ AttemptFails("429")
    /\ UNCHANGED <<mode, next, delivered, swallowed, topic, lost>>

\* The bot cannot be reached.
PostFails ==
    /\ Fault
    /\ pc = "http"
    /\ PrimaryFails
    /\ UNCHANGED <<mode, attempt, server, topic, lost>>

Answered ==
    /\ pc = "asked"
    /\ handler[Waiting] \in Statuses
    /\ IF handler[Waiting] = "200"
       THEN Return("ok", "http") /\ UNCHANGED attempt
       ELSE AttemptFails(handler[Waiting])
    /\ UNCHANGED <<mode, server, topic, lost, faults>>

\* Mutant: a client without a timeout sees only a broken connection.
NotAnsweredAlone ==
    /\ pc = "asked"
    /\ handler[Waiting] # "running"
    /\ PrimaryFails
    /\ lost' = lost \cup {update}
    /\ UNCHANGED <<mode, attempt, server, topic, faults>>

\* The deadline of the request passes or the connection breaks, whatever the
\* handler has done or will do.
NotAnswered ==
    /\ pc = "asked"
    /\ PrimaryFails
    /\ lost' = lost \cup {update}
    /\ UNCHANGED <<mode, attempt, server, topic, faults>>

---------------------------------------------------------------------------
(* The fallback: Kafka, or gRPC, which has no deadline. *)

\* Mutant: the error of the primary transport is returned all the same.
ProduceAndComplain ==
    /\ pc = "fallback"
    /\ mode \in {"HTTP", "KAFKA"}
    /\ topic' = topic \cup {update}
    /\ Return("error", "none")
    /\ UNCHANGED <<mode, attempt, server, lost, faults>>

Produce ==
    /\ pc = "fallback"
    /\ mode \in {"HTTP", "KAFKA"}
    /\ topic' = topic \cup {update}
    /\ Return("ok", "kafka")
    /\ UNCHANGED <<mode, attempt, server, lost, faults>>

ProduceFails ==
    /\ Fault
    /\ pc = "fallback"
    /\ mode \in {"HTTP", "KAFKA"}
    /\ Return("error", "none")
    /\ UNCHANGED <<mode, attempt, server, topic, lost>>

ProduceAckLost ==
    /\ Fault
    /\ pc = "fallback"
    /\ mode \in {"HTTP", "KAFKA"}
    /\ topic' = topic \cup {update}
    /\ lost' = lost \cup {update}
    /\ Return("error", "none")
    /\ UNCHANGED <<mode, attempt, server>>

Invoke ==
    /\ pc = "fallback"
    /\ mode = "GRPC"
    /\ handler' = [handler EXCEPT ![<<update, GRPC>>] = "running"]
    /\ pc' = "askedgrpc"
    /\ UNCHANGED <<mode, update, attempt, next, delivered, swallowed, answers,
                   topic, lost, faults>>

InvokeFails ==
    /\ Fault
    /\ pc = "fallback"
    /\ mode = "GRPC"
    /\ Return("error", "none")
    /\ UNCHANGED <<mode, attempt, server, topic, lost>>

Invoked ==
    /\ pc = "askedgrpc"
    /\ handler[Waiting] \in Statuses
    /\ Return("ok", "grpc")
    /\ UNCHANGED <<mode, attempt, server, topic, lost, faults>>

Broken == pc = "askedgrpc" /\ handler[Waiting] = "gone"

InvokedAnswerLost ==
    /\ pc = "askedgrpc"
    /\ IF Broken THEN UNCHANGED faults ELSE Fault
    /\ lost' = lost \cup {update}
    /\ Return("error", "none")
    /\ UNCHANGED <<mode, attempt, server, topic>>

---------------------------------------------------------------------------
(* The bot. *)

Sending(u, q) == handler[<<u, q>>] = "running" /\ next[<<u, q>>] \in Chats

\* The next chat of the update has got the message.
Deliver(u, q) ==
    /\ Sending(u, q)
    /\ delivered' = [delivered EXCEPT ![<<u, next[<<u, q>>]>>] = @ + 1]
    /\ next' = [next EXCEPT ![<<u, q>>] = @ + 1]
    /\ UNCHANGED <<mode, update, pc, attempt, handler, swallowed, answers,
                   topic, lost, faults>>

\* Mutant: a chat that fails does not end the loop of HandleLinkUpdate.
SendFailsAndGoesOn(u, q) ==
    /\ next' = [next EXCEPT ![<<u, q>>] = @ + 1]
    /\ swallowed' = IF q = GRPC
                    THEN [swallowed EXCEPT ![u] = @ \cup {next[<<u, q>>]}]
                    ELSE swallowed
    /\ UNCHANGED handler

\* UpdateService stops at the first chat that fails and the handler answers
\* 500; the gRPC server logs the failure and goes on with the next chat.
SendFails(u, q) ==
    IF q = GRPC
    THEN /\ next' = [next EXCEPT ![<<u, q>>] = @ + 1]
         /\ swallowed' = [swallowed EXCEPT ![u] = @ \cup {next[<<u, q>>]}]
         /\ UNCHANGED handler
    ELSE /\ handler' = [handler EXCEPT ![<<u, q>>] = "500"]
         /\ UNCHANGED <<next, swallowed>>

\* Telegram refuses the message.
Refuse(u, q) ==
    /\ Fault
    /\ Sending(u, q)
    /\ SendFails(u, q)
    /\ UNCHANGED <<mode, update, pc, attempt, delivered, answers, topic, lost>>

\* Telegram takes the message and its answer does not arrive.
DeliverUnconfirmed(u, q) ==
    /\ Fault
    /\ Sending(u, q)
    /\ delivered' = [delivered EXCEPT ![<<u, next[<<u, q>>]>>] = @ + 1]
    /\ SendFails(u, q)
    /\ lost' = lost \cup {u}
    /\ UNCHANGED <<mode, update, pc, attempt, answers, topic>>

\* All chats have been gone through.
Finish(u, q) ==
    /\ handler[<<u, q>>] = "running"
    /\ next[<<u, q>>] \notin Chats
    /\ handler' = [handler EXCEPT ![<<u, q>>] = "200"]
    /\ UNCHANGED <<mode, update, pc, attempt, next, delivered, swallowed,
                   answers, topic, lost, faults>>

\* The bot stops and is started again: its handlers are gone, and with them
\* the answers that somebody waits for.
Restart ==
    /\ Fault
    /\ \E r \in Updates \X Requests : handler[r] = "running"
    /\ handler' = [r \in Updates \X Requests |->
                     IF handler[r] = "running" THEN "gone" ELSE handler[r]]
    /\ UNCHANGED <<mode, update, pc, attempt, next, delivered, swallowed,
                   answers, topic, lost>>

---------------------------------------------------------------------------
CallerStep == \/ Call \/ Post \/ PostLimited \/ PostFails
              \/ Answered \/ NotAnswered
              \/ Produce \/ ProduceFails \/ ProduceAckLost
              \/ Invoke \/ InvokeFails \/ Invoked

HandlerStep(u, q) == \/ Deliver(u, q) \/ Refuse(u, q)
                     \/ DeliverUnconfirmed(u, q) \/ Finish(u, q)

Next == \/ CallerStep
        \/ InvokedAnswerLost
        \/ \E u \in Updates, q \in Requests : HandlerStep(u, q)
        \/ Restart

Spec == Init /\ [][Next]_vars

\* The goroutine of the caller runs on, the deadline of an HTTP request
\* passes, and a call over gRPC notices that the bot has stopped.  Nothing is
\* assumed of the handlers over HTTP; a call over gRPC has no deadline and
\* returns because Telegram answers its handler.
Fairness ==
    /\ WF_vars(CallerStep)
    /\ WF_vars(Broken /\ InvokedAnswerLost)
    /\ \A u \in Updates : WF_vars(HandlerStep(u, GRPC))

FairSpec == Spec /\ Fairness

---------------------------------------------------------------------------
(* What the callers and the chats may rely on. *)

Attempts == 1..MaxAttempts

\* What SendUpdate = nil means to the scheduler, which moves on for good: over
\* HTTP every chat has the update; over gRPC every chat has it but those
\* whose failure the server only logged; over Kafka the topic has it.
SuccessMeansHandled ==
    \A u \in Updates :
        /\ route[u] = "http" => \A c \in Chats : delivered[<<u, c>>] > 0
        /\ route[u] = "grpc" =>
              \A c \in Chats : delivered[<<u, c>>] > 0 \/ c \in swallowed[u]
        /\ route[u] = "kafka" => u \in topic
        /\ result[u] = "ok" <=> route[u] # "none"

\* An error that no lost answer explains is one: the update is nowhere in
\* Kafka, and there is a chat that has not got it by any of the attempts.
FailureIsHonest ==
    \A u \in Updates :
        result[u] = "error" /\ u \notin lost =>
            u \notin topic /\ \E c \in Chats : delivered[<<u, c>>] = 0

\* When SendUpdate has returned, nothing more is sent for that update, unless
\* an answer was lost and its handler works on behind the caller's back.
LateMessagesNeedALostAnswer ==
    [][\A u \in Updates, c \in Chats :
          (delivered'[<<u, c>>] # delivered[<<u, c>>] /\ result[u] # "none")
              => u \in lost]_vars

\* The scheduler's worker is never held by a call for ever, even if the bot
\* never answers over HTTP.
CallsReturn == <>(update > NumUpdates)

\* The attempts that a failure ended at a chat behind c, so that c had been
\* gone through: the next request sends to c again.
FailedBehind(u, c) ==
    {q \in Attempts : handler[<<u, q>>] = "500" /\ c < next[<<u, q>>]}

\* The same update reaches a chat once for every request at most, the one over
\* gRPC included; and unless an answer was lost, a chat gets it again only
\* because an attempt failed at a chat behind it: the last chat gets it once.
RepetitionsAreExplained ==
    \A u \in Updates, c \in Chats :
        /\ delivered[<<u, c>>] <= GRPC
        /\ u \notin lost =>
              delivered[<<u, c>>] <= 1 + Cardinality(FailedBehind(u, c))

---------------------------------------------------------------------------
(* The inductive invariant behind them. *)

\* How far a handler has come, and what the chats before that have got.
HandlerInStep(u, q) ==
    /\ handler[<<u, q>>] \in {"none", "429"} => next[<<u, q>>] = 1
    /\ handler[<<u, q>>] = "500" => next[<<u, q>>] \in Chats
    /\ handler[<<u, q>>] = "200" => next[<<u, q>>] = NumChats + 1
    /\ q = GRPC => handler[<<u, q>>] \in {"none", "running", "gone", "200"}
    /\ \A c \in Chats :
          c < next[<<u, q>>] =>
              delivered[<<u, c>>] > 0 \/ (q = GRPC /\ c \in swallowed[u])

HandlersInStep == \A u \in Updates, q \in Requests : HandlerInStep(u, q)

\* A message at a chat was sent by a handler that went past the chat, or its
\* answer was lost.
MessagesHaveSenders ==
    \A u \in Updates, c \in Chats :
        delivered[<<u, c>>] > 0 =>
            u \in lost \/ \E q \in Requests : c < next[<<u, q>>]

\* The requests that have gone past a chat, and those that ended at it, of
\* which the chat may have the message all the same.
Past(u, c) == {q \in Requests : c < next[<<u, q>>]}
EndedAt(u, c) ==
    {q \in Requests : c = next[<<u, q>>] /\ handler[<<u, q>>] = "500"}

\* No request sends twice to a chat.
MessagesAreCounted ==
    \A u \in Updates, c \in Chats :
        /\ delivered[<<u, c>>] <= Cardinality(Past(u, c) \cup EndedAt(u, c))
        /\ u \notin lost => delivered[<<u, c>>] <= Cardinality(Past(u, c))

\* Calls are made in order, and what has not been asked for is not there.
CallsInStep ==
    /\ pc # "idle" => update \in Updates
    /\ \A u \in Updates :
          /\ result[u] # "none" <=> u < update
          /\ u >= update => u \notin topic
          /\ u > update \/ (u = update /\ pc = "idle") =>
                \A q \in Requests : handler[<<u, q>>] = "none"
    /\ pc # "idle" =>
          \A q \in Attempts :
              q > attempt \/ (q = attempt /\ pc = "http") =>
                  handler[<<update, q>>] = "none"

\* Where no answer was lost, only the request somebody waits for can be at
\* work, and only the last one can have succeeded.
NothingBehindTheBack ==
    \A u \in Updates \ lost :
        /\ \A q \in Attempts :
              \/ handler[<<u, q>>] \in {"none", "429", "500"}
              \/ u = update /\ pc = "asked" /\ q = attempt
              \/ route[u] = "http" /\ handler[<<u, q>>] = "200"
        /\ \/ handler[<<u, GRPC>>] = "none"
           \/ u = update /\ pc = "askedgrpc"
           \/ route[u] = "grpc" /\ handler[<<u, GRPC>>] = "200"
        /\ u \in topic => route[u] = "kafka"

\* The request of which more may come, or that has succeeded.
Live(u, q) == handler[<<u, q>>] \notin {"none", "429", "500"}

OneLiveRequest ==
    \A u \in Updates \ lost : \A p, q \in Requests :
        Live(u, p) /\ Live(u, q) => p = q

IndInv == /\ TypeOK
          /\ SuccessMeansHandled
          /\ HandlersInStep
          /\ MessagesHaveSenders
          /\ CallsInStep
          /\ NothingBehindTheBack
          /\ OneLiveRequest
          /\ MessagesAreCounted
===========================================================================
