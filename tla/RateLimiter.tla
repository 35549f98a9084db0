---------------------------- MODULE RateLimiter ----------------------------
(***************************************************************************)
(* The limiter of requests per client address in front of the bot's HTTP   *)
(* server (rate_limiter.go).  Allow takes the time, then the lock, cleans  *)
(* up addresses that have been idle, finds or makes the limiter of its     *)
(* address, releases the lock and asks that limiter.  Between the time and *)
(* the lock, and between the lock and the limiter, others run.             *)
(*                                                                         *)
(* Times are ages: how many ticks ago something was.  A limiter of the     *)
(* library (golang.org/x/time/rate) is a bucket that refills with the      *)
(* ticks.                                                                  *)
(***************************************************************************)
EXTENDS Naturals, FiniteSets

CONSTANTS
    Handlers,   \* goroutines of the server that handle a request
    Address,    \* the address that a goroutine's client has
    Rate,       \* RATE_LIMIT_REQUESTS_PER_SECOND, per tick
    Burst,      \* RATE_LIMIT_BURST
    Cleanup,    \* RATE_LIMIT_CLEANUP_INTERVAL, in ticks
    TTL,        \* RATE_LIMIT_TTL, in ticks
    MaxPause    \* ticks that Allow may take from its time.Now to its answer

Addresses == {Address[c] : c \in Handlers}

\* A server runs finitely many goroutines at a time.
ASSUME HandlersAssumption == IsFiniteSet(Handlers)

\* What NormalizeRateLimiterConfig leaves, and a TTL in which an empty bucket
\* fills up even for requests that come as late as they can: 5 minutes at 10
\* a second against a burst of 20 by default.
ASSUME LimiterAssumption ==
    /\ Rate \in Nat \ {0} /\ Burst \in Nat \ {0}
    /\ Cleanup \in Nat \ {0} /\ TTL \in Nat /\ MaxPause \in Nat
    /\ 2 * MaxPause <= TTL
    /\ (TTL + 1 - 2 * MaxPause) * Rate >= Burst

Limiters == 1..(Cardinality(Addresses) + Cardinality(Handlers))
NoLimiter == 0

VARIABLES
    limiters,     \* the limiter of an address, or none
    tokens,       \* what is left in a limiter
    lastSeen,     \* age of the last request of an address
    lastCleanup,  \* age of the last cleanup
    visits        \* where a goroutine is in Allow

limiterVars == <<limiters, tokens, lastSeen, lastCleanup, visits>>

\* Ages beyond these make no difference.
MaxSeen == TTL + 1 + MaxPause
MaxCleanup == Cleanup + MaxPause

Visit == [at : {"idle", "timed", "found", "allowed", "refused"},
          now : 0..MaxPause, limiter : Limiters \cup {NoLimiter}]

LimiterTypeOK ==
    /\ limiters \in [Addresses -> Limiters \cup {NoLimiter}]
    /\ tokens \in [Limiters -> 0..Burst]
    /\ lastSeen \in [Addresses -> 0..MaxSeen]
    /\ lastCleanup \in 0..MaxCleanup
    /\ visits \in [Handlers -> Visit]

Idle == [at |-> "idle", now |-> 0, limiter |-> NoLimiter]

LimiterInit ==
    /\ limiters = [a \in Addresses |-> NoLimiter]
    /\ tokens = [l \in Limiters |-> Burst]
    /\ lastSeen = [a \in Addresses |-> MaxSeen]
    /\ lastCleanup = 0
    /\ visits = [c \in Handlers |-> Idle]

Older(age, limit) == IF age < limit THEN age + 1 ELSE limit
Full(n) == IF n < Burst THEN n ELSE Burst
InAllow(c) == visits[c].at \in {"timed", "found"}

---------------------------------------------------------------------------
\* A tick: buckets refill, everything gets older.  No Allow takes too long.
Tick ==
    /\ \A c \in Handlers : InAllow(c) => visits[c].now < MaxPause
    /\ tokens' = [l \in Limiters |-> Full(tokens[l] + Rate)]
    /\ lastSeen' = [a \in Addresses |-> Older(lastSeen[a], MaxSeen)]
    /\ lastCleanup' = Older(lastCleanup, MaxCleanup)
    /\ visits' = [c \in Handlers |->
                    IF InAllow(c) THEN [visits[c] EXCEPT !.now = @ + 1]
                    ELSE visits[c]]
    /\ UNCHANGED limiters

\* now := time.Now()
Arrive(c) ==
    /\ visits[c].at = "idle"
    /\ visits' = [visits EXCEPT ![c] = [Idle EXCEPT !.at = "timed"]]
    /\ UNCHANGED <<limiters, tokens, lastSeen, lastCleanup>>

\* cleanupExpiredLocked, with a clock that shows the time of c.
Due(c) == lastCleanup >= Cleanup + visits[c].now
Expired(c) == {a \in Addresses : lastSeen[a] > TTL + visits[c].now}
Kept(c) == [a \in Addresses |->
              IF Due(c) /\ a \in Expired(c) THEN NoLimiter ELSE limiters[a]]

\* A limiter that nobody has, which rate.NewLimiter returns.
Unused(c) == CHOOSE l \in Limiters :
                /\ \A a \in Addresses : Kept(c)[a] # l
                /\ \A d \in Handlers : visits[d].limiter # l

\* Mutant: lastSeen is set when the limiter is made and never again.
FindOnce(c) ==
    LET a == Address[c]
        l == IF Kept(c)[a] = NoLimiter THEN Unused(c) ELSE Kept(c)[a]
    IN /\ visits[c].at = "timed"
       /\ limiters' = [Kept(c) EXCEPT ![a] = l]
       /\ tokens' = IF Kept(c)[a] = NoLimiter
                    THEN [tokens EXCEPT ![l] = Burst]
                    ELSE tokens
       /\ lastSeen' = IF Kept(c)[a] = NoLimiter
                      THEN [lastSeen EXCEPT ![a] = visits[c].now]
                      ELSE lastSeen
       /\ lastCleanup' = IF Due(c) THEN visits[c].now ELSE lastCleanup
       /\ visits' = [visits EXCEPT ![c].at = "found", ![c].limiter = l]

\* The part of Allow under the lock.
Find(c) ==
    LET a == Address[c]
        l == IF Kept(c)[a] = NoLimiter THEN Unused(c) ELSE Kept(c)[a]
    IN /\ visits[c].at = "timed"
       /\ limiters' = [Kept(c) EXCEPT ![a] = l]
       /\ tokens' = IF Kept(c)[a] = NoLimiter
                    THEN [tokens EXCEPT ![l] = Burst]
                    ELSE tokens
       /\ lastSeen' = [lastSeen EXCEPT ![a] = visits[c].now]
       /\ lastCleanup' = IF Due(c) THEN visits[c].now ELSE lastCleanup
       /\ visits' = [visits EXCEPT ![c].at = "found", ![c].limiter = l]

\* Mutant: a bucket with no token is asked for one all the same.
TakeUnasked(c) ==
    /\ visits[c].at = "found"
    /\ tokens' = [tokens EXCEPT ![visits[c].limiter] = @ - 1]
    /\ visits' = [visits EXCEPT ![c] = [Idle EXCEPT !.at = "allowed"]]
    /\ UNCHANGED <<limiters, lastSeen, lastCleanup>>

\* limiter.Allow(), when the lock is no longer held.
Take(c) ==
    LET l == visits[c].limiter
    IN /\ visits[c].at = "found"
       /\ IF tokens[l] > 0
          THEN /\ tokens' = [tokens EXCEPT ![l] = @ - 1]
               /\ visits' = [visits EXCEPT ![c] = [Idle EXCEPT !.at = "allowed"]]
          ELSE /\ visits' = [visits EXCEPT ![c] = [Idle EXCEPT !.at = "refused"]]
               /\ UNCHANGED tokens
       /\ UNCHANGED <<limiters, lastSeen, lastCleanup>>

\* The middleware has passed the request on, or has answered 429.
Leave(c) ==
    /\ visits[c].at \in {"allowed", "refused"}
    /\ visits' = [visits EXCEPT ![c] = Idle]
    /\ UNCHANGED <<limiters, tokens, lastSeen, lastCleanup>>

---------------------------------------------------------------------------
(* What it promises: one bucket per address that is never forgotten. *)

Ideal == INSTANCE TokenBucket
    WITH level <- [a \in Addresses |->
                     IF limiters[a] = NoLimiter THEN Burst ELSE tokens[limiters[a]]],
         verdict <- [c \in Handlers |->
                       IF visits[c].at \in {"allowed", "refused"}
                       THEN visits[c].at ELSE "none"]

ImplementsTokenBucket == Ideal!Spec

---------------------------------------------------------------------------
(* The inductive invariant behind it, see WorkerCallsProofs. *)

\* Every limiter belongs to one address, and a goroutine that is about to ask a
\* limiter asks the one of its address: no cleanup drops it in between.
LimitersBelong ==
    /\ \A a, b \in Addresses :
          limiters[a] = limiters[b] /\ limiters[a] # NoLimiter => a = b
    /\ \A c \in Handlers :
          IF visits[c].at = "found"
          THEN /\ visits[c].limiter = limiters[Address[c]]
               /\ visits[c].limiter # NoLimiter
               /\ lastSeen[Address[c]] <= MaxPause + visits[c].now
          ELSE visits[c].limiter = NoLimiter

\* What nobody asks refills: a limiter that may be dropped is full.
IdleLimitersRefill ==
    \A a \in Addresses :
        limiters[a] # NoLimiter /\ lastSeen[a] >= 2 * MaxPause =>
            tokens[limiters[a]] >= Full((lastSeen[a] - 2 * MaxPause) * Rate)

LimiterInv == LimiterTypeOK /\ LimitersBelong /\ IdleLimitersRefill
===========================================================================
