---------------------------- MODULE WorkerCalls ----------------------------
(***************************************************************************)
(* What guards the calls of the scheduler's workers when updates go to the *)
(* bot over HTTP.  A worker fetches a page through the circuit breaker of  *)
(* the GitHub client (github_client.go) or the StackOverflow one, which    *)
(* all workers share, and posts the updates it has found to the bot, where *)
(* the limiter in front of the router (bot.go) decides over each request.  *)
(***************************************************************************)
EXTENDS CircuitBreaker, RateLimiter

\* The handler of a worker's request has the worker's name; the bot may handle
\* requests of other clients too.
ASSUME CallsAssumption == Callers \subseteq Handlers

vars == <<breakerVars, limiterVars>>

Init == BreakerInit /\ LimiterInit

Free(w) == calls[w].at = "idle" /\ visits[w].at = "idle"

\* DoWithCircuitBreaker lets the fetch of the next link through.
Fetch(w) == Free(w) /\ Begin(w) /\ UNCHANGED limiterVars

\* The source has answered, has failed or has not answered in time.
Fetched(w) == (\E ok \in BOOLEAN : Judge(w, ok)) /\ UNCHANGED limiterVars

Counted(w) == Record(w) /\ UNCHANGED limiterVars

\* The worker, or another client, posts an update, or posts it again after a
\* refusal (429).
Post(h) == /\ h \in Callers => Free(h)
           /\ Arrive(h)
           /\ UNCHANGED breakerVars

Handle(h) == (Find(h) \/ Take(h) \/ Leave(h)) /\ UNCHANGED breakerVars

Timers == \/ (Wait \/ WindowMoves) /\ UNCHANGED limiterVars
          \/ Tick /\ UNCHANGED breakerVars

Next == \/ \E w \in Callers : Fetch(w) \/ Fetched(w) \/ Counted(w)
        \/ \E h \in Handlers : Post(h) \/ Handle(h)
        \/ Timers

Spec == Init /\ [][Next]_vars

\* The breaker's wait ends.  A fetch ends at its timeout at the latest, a
\* request to the bot is decided upon, and a worker, whatever it posts in
\* between, always comes to its next fetch.
FairSpec ==
    /\ Spec
    /\ WF_vars(Wait /\ UNCHANGED limiterVars)
    /\ \A w \in Callers : SF_vars(Fetch(w)) /\ WF_vars(Fetched(w) \/ Counted(w))
    /\ \A h \in Handlers : WF_vars(Handle(h))

---------------------------------------------------------------------------
\* What makes the breaker decide on its probes, and what makes the limiters of
\* an address one bucket.
IndInv == BreakerInv /\ LimiterInv
===========================================================================
