-------------------------- MODULE CircuitBreaker --------------------------
(***************************************************************************)
(* The circuit breaker around the HTTP clients (circuit_breaker.go): the   *)
(* library's breaker with the settings that NewCircuitBreaker gives it.    *)
(* The library decides under a lock of its own; IsSuccessful is called     *)
(* outside it, reads a copy of the state and keeps counters of its own for *)
(* the half-open state.  A call that began in an earlier state and ends in *)
(* the half-open one is counted with the probes.                           *)
(***************************************************************************)
EXTENDS Naturals, FiniteSets

CONSTANTS
    Callers,         \* goroutines that share the breaker
    MinimumRequests, \* *_CIRCUIT_BREAKER_MINIMUM_REQUESTS
    Threshold,       \* *_FAILURE_RATE_THRESHOLD, in per cent
    Permitted,       \* *_PERMITTED_CALLS_IN_HALF_OPEN_STATE
    MaxRequests      \* bound on the requests of one sliding window

\* What normalizeCircuitBreakerConfig leaves, of the thresholds that are whole
\* numbers; one above 100 is never reached.
ASSUME BreakerAssumption == /\ MinimumRequests \in Nat \ {0}
                            /\ Threshold \in Nat \ {0}
                            /\ Permitted \in Nat \ {0}
                            /\ MaxRequests \in Nat

VARIABLES
    state,        \* closed, open or half-open
    waited,       \* has the breaker been open for WaitDurationInOpenState
    requests,     \* requests of the window, or of the half-open state
    failures,     \* ... and how many of them failed
    successes,    \* successes of the half-open state
    halfRequests, \* halfOpenRequests
    halfFailures, \* halfOpenFailures
    calls,        \* where a caller is, and whether its call is of this state
    stragglers,   \* calls of an earlier state judged in this half-open state
    probes,       \* calls of this half-open state that were judged
    probesFailed  \* ... and how many of them failed

counts == <<requests, failures, successes>>
half == <<halfRequests, halfFailures>>
judged == <<stragglers, probes, probesFailed>>
breakerVars == <<state, waited, counts, half, calls, judged>>

\* A call: at, fresh (begun since the last change of state), what the operation
\* returned and what IsSuccessful made of it.
Call == [at : {"idle", "running", "judged"}, fresh : BOOLEAN,
         ok : BOOLEAN, verdict : BOOLEAN]

BreakerTypeOK ==
    /\ state \in {"closed", "open", "half-open"}
    /\ waited \in BOOLEAN
    /\ requests \in Nat /\ failures \in 0..requests /\ successes \in 0..requests
    /\ halfRequests \in Nat /\ halfFailures \in 0..halfRequests
    /\ calls \in [Callers -> Call]
    /\ stragglers \in Nat /\ probes \in 0..Permitted /\ probesFailed \in 0..probes

BreakerInit ==
    /\ state = "closed"
    /\ waited = FALSE
    /\ requests = 0 /\ failures = 0 /\ successes = 0
    /\ halfRequests = 0 /\ halfFailures = 0
    /\ calls = [c \in Callers |-> [at |-> "idle", fresh |-> FALSE,
                                   ok |-> TRUE, verdict |-> TRUE]]
    /\ stragglers = 0 /\ probes = 0 /\ probesFailed = 0

---------------------------------------------------------------------------
(* The library. *)

\* The state after its timers: an open breaker that has waited is half-open.
Current == IF state = "open" /\ waited THEN "half-open" ELSE state

\* Mutant: the counters of the half-open state go on from one to the next.
OnStateChangeKeepsCounters(to) == UNCHANGED half

\* OnStateChange resets the counters when the half-open state begins or ends.
OnStateChange(to) ==
    IF "half-open" \in {Current, state, to}
    THEN halfRequests' = 0 /\ halfFailures' = 0
    ELSE UNCHANGED half

\* A new state counts from its first request on, and the calls of the one
\* before are none of its own.
Enter(to, first) ==
    /\ state' = to
    /\ waited' = FALSE
    /\ requests' = first /\ failures' = 0 /\ successes' = 0
    /\ OnStateChange(to)
    /\ stragglers' = 0 /\ probes' = 0 /\ probesFailed' = 0

Old(cs) == [c \in Callers |-> [cs[c] EXCEPT !.fresh = FALSE]]
Running(cs, c) == [cs EXCEPT ![c].at = "running", ![c].fresh = TRUE]

\* Execute lets the call through, and the first one after the wait begins the
\* half-open state.
Begin(c) ==
    /\ calls[c].at = "idle"
    /\ \/ /\ state = "open" /\ waited
          /\ Enter("half-open", 1)
          /\ calls' = Running(Old(calls), c)
       \/ /\ \/ state = "closed" /\ requests < MaxRequests
             \/ state = "half-open" /\ requests < Permitted
          /\ requests' = requests + 1
          /\ calls' = Running(calls, c)
          /\ UNCHANGED <<state, waited, failures, successes, half, judged>>

\* WaitDurationInOpenState passes.
Wait ==
    /\ state = "open" /\ ~waited
    /\ waited' = TRUE
    /\ UNCHANGED <<state, counts, half, calls, judged>>

\* The sliding window leaves its oldest bucket behind.
WindowMoves ==
    /\ state = "closed"
    /\ \E r \in 0..requests, f \in 0..failures :
          /\ r < requests /\ f <= r /\ r - f <= requests - failures
          /\ requests' = r /\ failures' = f
    /\ UNCHANGED <<state, waited, successes, half, calls, judged>>

---------------------------------------------------------------------------
(* The settings of NewCircuitBreaker. *)

ReadyToTrip(r, f) == r >= MinimumRequests /\ f * 100 >= Threshold * r

\* Mutant: a call counts as a success from the last probe on only.
SucceedsAtTheLastProbe(ok) ==
    IF state # "half-open" THEN ok
    ELSE /\ halfRequests' >= Permitted
         /\ halfFailures' * 100 <= Threshold * halfRequests'

Succeeds(ok) ==
    IF state # "half-open" THEN ok
    ELSE \/ halfRequests' < Permitted
         \/ halfFailures' * 100 <= Threshold * halfRequests'

\* IsSuccessful: the operation of the call has returned.
Judge(c, ok) ==
    /\ calls[c].at = "running"
    /\ IF state = "half-open"
       THEN /\ halfRequests' = halfRequests + 1
            /\ halfFailures' = halfFailures + (IF ok THEN 0 ELSE 1)
            /\ IF calls[c].fresh
               THEN /\ probes' = probes + 1
                    /\ probesFailed' = probesFailed + (IF ok THEN 0 ELSE 1)
                    /\ UNCHANGED stragglers
               ELSE stragglers' = stragglers + 1 /\ UNCHANGED <<probes, probesFailed>>
       ELSE UNCHANGED <<half, judged>>
    /\ calls' = [calls EXCEPT ![c].at = "judged", ![c].ok = ok,
                              ![c].verdict = Succeeds(ok)]
    /\ UNCHANGED <<state, waited, counts>>

Idled(c) == [calls EXCEPT ![c] = [@ EXCEPT !.at = "idle", !.fresh = FALSE,
                                           !.verdict = TRUE]]
Ends(c) == calls' = Idled(c)
Turns(c, to) == Enter(to, 0) /\ calls' = Old(Idled(c))

\* The library takes the verdict, unless the call is of an earlier state or of
\* a bucket that the window has left behind.
Record(c) ==
    /\ calls[c].at = "judged"
    /\ \/ /\ Current # state
          /\ Turns(c, Current)
       \/ /\ Current = state
          /\ calls[c].fresh => state = "closed"
          /\ Ends(c)
          /\ UNCHANGED <<state, waited, counts, half, judged>>
       \/ /\ Current = state /\ calls[c].fresh /\ calls[c].verdict
          /\ IF state = "half-open" /\ successes + 1 >= Permitted
             THEN Turns(c, "closed")
             ELSE /\ successes' = successes + (IF state = "closed" THEN 0 ELSE 1)
                  /\ Ends(c)
                  /\ UNCHANGED <<state, waited, requests, failures, half, judged>>
       \/ /\ Current = state /\ calls[c].fresh /\ ~calls[c].verdict
          /\ failures < requests
          /\ IF state = "half-open" \/ ReadyToTrip(requests, failures + 1)
             THEN Turns(c, "open")
             ELSE /\ failures' = failures + 1
                  /\ Ends(c)
                  /\ UNCHANGED <<state, waited, requests, successes, half, judged>>

---------------------------------------------------------------------------
\* A half-open state ends with the verdict that its probes deserve, all of
\* them and nothing but them, unless a call of an earlier state was judged
\* among them.
DecidesOnItsProbes ==
    [][state = "half-open" /\ state' # "half-open" /\ stragglers = 0 =>
          /\ probes = Permitted
          /\ state' = "closed" <=> probesFailed * 100 <= Threshold * probes]_breakerVars

\* Once all calls succeed the breaker closes for good.
Recovers ==
    <>[](\A c \in Callers : calls[c].ok) => <>[](state = "closed")
\* A half-open breaker that lets no more calls through has a probe under way:
\* it has no timer, and would refuse every call for ever if it waited for a
\* verdict that nobody is going to give.
VerdictIsComing ==
    state = "half-open" /\ requests >= Permitted
        => \E c \in Callers : calls[c].fresh /\ calls[c].at # "idle"

---------------------------------------------------------------------------
(* Why the breaker decides on its probes, see WorkerCallsProofs. *)

ProbesRunning == {c \in Callers : calls[c].fresh /\ calls[c].at = "running"}
ProbesJudged == {c \in Callers : calls[c].fresh /\ calls[c].at = "judged"}

TooManyFailed == probesFailed * 100 > Threshold * probes

\* An idle caller has no call of this state, and an open breaker has none at
\* all; only the half-open state counts successes.
CallsAreSound ==
    /\ \A c \in Callers : calls[c].fresh => calls[c].at # "idle"
    /\ state = "open" => \A c \in Callers : ~ calls[c].fresh
    /\ state # "half-open" => successes = 0

\* A request of the half-open state is a probe that runs or was judged, and a
\* judged one waits for the library or was taken for a success, which not all
\* of them were yet.
ProbesAreCounted ==
    state = "half-open" =>
        /\ requests <= Permitted /\ failures = 0
        /\ requests = probes + Cardinality(ProbesRunning)
        /\ probes = successes + Cardinality(ProbesJudged)
        /\ successes < Permitted
        /\ halfRequests = probes + stragglers
        /\ stragglers = 0 => halfFailures = probesFailed

\* Without stragglers a probe is judged a failure if and only if it is the
\* last one and too many of them failed; it is not taken for a success.
VerdictsAreSound ==
    state = "half-open" /\ stragglers = 0 =>
        (\E c \in ProbesJudged : ~ calls[c].verdict)
            <=> (probes = Permitted /\ TooManyFailed)

BreakerInv ==
    BreakerTypeOK /\ CallsAreSound /\ ProbesAreCounted /\ VerdictsAreSound
===========================================================================
