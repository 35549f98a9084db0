-------------------------- MODULE WorkerCallsProofs --------------------------
(***************************************************************************)
(* The limiters behind IPRateLimiter.Allow, with their cleanup and with    *)
(* the gap between the lock and the limiter, are one token bucket per      *)
(* address: for any number of handlers and addresses, any rates, and any   *)
(* pauses that the time to live is long enough for.  The breaker, with the *)
(* counters that IsSuccessful keeps outside the library's lock, decides on *)
(* the probes of its half-open state: for any number of callers, any       *)
(* threshold and any number of probes.                                     *)
(***************************************************************************)
EXTENDS WorkerCalls, Functions, FiniteSetTheorems, TLAPS

\* The limiter's share of the state: its steps, and the step it takes no part in.
LimiterNext == \/ Tick
               \/ \E c \in Handlers : Arrive(c) \/ Find(c) \/ Take(c) \/ Leave(c)

\* A bucket fills up to its burst, and the fuller one stays the fuller one.
LEMMA FullIsLevel ==
    /\ \A n \in Nat : Full(n) \in 0..Burst
    /\ \A n \in Nat : n >= Burst => Full(n) = Burst
    /\ \A n \in 0..Burst : Full(n) = n
BY LimiterAssumption DEF Full

\* One tick more of refilling.
LEMMA FullStep ==
    ASSUME NEW k \in Nat, NEW n \in 0..Burst, n >= Full(k * Rate)
    PROVE  Full(n + Rate) >= Full((k + 1) * Rate)
<1>1. /\ Rate \in Nat /\ Burst \in Nat
      /\ (k + 1) * Rate = k * Rate + Rate
  BY LimiterAssumption
<1>2. k * Rate \in Nat
  BY <1>1
<1>3. QED
  BY <1>1, <1>2 DEF Full

\* The longest an idle limiter is kept is long enough to fill it.
LEMMA FullAfterTTL ==
    ASSUME NEW s \in Nat, s > TTL
    PROVE  Full((s - 2 * MaxPause) * Rate) = Burst
<1> DEFINE d == s - 2 * MaxPause
           e == TTL + 1 - 2 * MaxPause
<1>1. d \in Nat /\ e \in Nat /\ Rate \in Nat /\ Burst \in Nat /\ d >= e /\ e * Rate >= Burst
  BY LimiterAssumption
<1>2. d * Rate \in Nat /\ d * Rate >= e * Rate
  <2>1. d * Rate = e * Rate + (d - e) * Rate
    BY <1>1
  <2>2. (d - e) * Rate \in Nat
    BY <1>1
  <2>3. e * Rate \in Nat
    BY <1>1
  <2>4. QED
    BY <2>1, <2>2, <2>3
<1>3. d * Rate >= Burst
  <2>1. e * Rate \in Nat
    BY <1>1
  <2>2. QED
    BY <1>1, <1>2, <2>1
<1>4. QED
  BY <1>2, <1>3, FullIsLevel

\* As many limiters as addresses and handlers together are enough for a handler
\* that holds none to get one of its own.
LEMMA LimitersSuffice ==
    ASSUME NEW f \in [Addresses -> Limiters \cup {NoLimiter}],
           NEW g \in [Handlers -> Limiters \cup {NoLimiter}],
           NEW c \in Handlers, g[c] = NoLimiter
    PROVE  \E l \in Limiters : /\ \A a \in Addresses : f[a] # l
                               /\ \A d \in Handlers : g[d] # l
<1> DEFINE A == {f[a] : a \in Addresses}
           Others == Handlers \ {c}
           h == [d \in Others |-> g[d]]
           H == {g[d] : d \in Others}
           address == [d \in Handlers |-> Address[d]]
<1>1. IsFiniteSet(Addresses) /\ Cardinality(Addresses) \in Nat
  <2>1. address \in Surjection(Handlers, Addresses)
    BY DEF Surjection, Addresses
  <2>2. QED
    BY <2>1, HandlersAssumption, FS_Surjection, FS_CardinalityType
<1>2. IsFiniteSet(A) /\ Cardinality(A) <= Cardinality(Addresses)
  <2>1. f \in Surjection(Addresses, A)
    BY DEF Surjection
  <2>2. QED
    BY <1>1, <2>1, FS_Surjection
<1>3. /\ IsFiniteSet(Others) /\ Cardinality(Handlers) \in Nat
      /\ Cardinality(Others) = Cardinality(Handlers) - 1
  BY HandlersAssumption, FS_RemoveElement, FS_CardinalityType
<1>4. IsFiniteSet(H) /\ Cardinality(H) <= Cardinality(Others)
  <2>1. h \in Surjection(Others, H)
    BY DEF Surjection
  <2>2. QED
    BY <1>3, <2>1, FS_Surjection
<1>5. /\ IsFiniteSet(A \cup H)
      /\ Cardinality(A \cup H) < Cardinality(Addresses) + Cardinality(Handlers)
  <2>1. /\ IsFiniteSet(A \cup H)
        /\ Cardinality(A \cup H) = Cardinality(A) + Cardinality(H) - Cardinality(A \cap H)
    BY <1>2, <1>4, FS_Union
  <2>2. A \cap H \in SUBSET A
    OBVIOUS
  <2>3. Cardinality(A \cap H) \in Nat
    BY <1>2, <2>2, FS_Subset, FS_CardinalityType
  <2>4. Cardinality(A) \in Nat /\ Cardinality(H) \in Nat
    BY <1>2, <1>4, FS_CardinalityType
  <2>5. QED
    BY <1>1, <1>2, <1>3, <1>4, <2>1, <2>3, <2>4
<1>6. Cardinality(Limiters) = Cardinality(Addresses) + Cardinality(Handlers)
  BY <1>1, <1>3, FS_Interval DEF Limiters
<1>7. Limiters \notin SUBSET (A \cup H)
  <2> SUFFICES ASSUME Limiters \in SUBSET (A \cup H) PROVE FALSE
    OBVIOUS
  <2>1. Cardinality(Limiters) <= Cardinality(A \cup H)
    BY <1>5, FS_Subset
  <2>2. Cardinality(A \cup H) \in Nat
    BY <1>5, FS_CardinalityType
  <2>3. QED
    BY <1>1, <1>3, <1>5, <1>6, <2>1, <2>2
<1>8. PICK l \in Limiters : l \notin A \cup H
  BY <1>7
<1>9. l # NoLimiter
  BY DEF Limiters, NoLimiter
<1>10. QED
  BY <1>8, <1>9

\* A step at the limiter's server finds the limiter it makes.
LEMMA UnusedIsUnused ==
    ASSUME LimiterInv, NEW c \in Handlers, visits[c].at = "timed"
    PROVE  /\ Unused(c) \in Limiters
           /\ \A a \in Addresses : Kept(c)[a] # Unused(c)
           /\ \A d \in Handlers : visits[d].limiter # Unused(c)
<1> DEFINE g == [d \in Handlers |-> visits[d].limiter]
<1>1. Kept(c) \in [Addresses -> Limiters \cup {NoLimiter}]
  BY DEF LimiterInv, LimiterTypeOK, Kept
<1>2. g \in [Handlers -> Limiters \cup {NoLimiter}]
  BY DEF LimiterInv, LimiterTypeOK, Visit
<1>3. g[c] = NoLimiter
  BY DEF LimiterInv, LimitersBelong
<1> HIDE DEF g
<1>4. \E l \in Limiters : /\ \A a \in Addresses : Kept(c)[a] # l
                          /\ \A d \in Handlers : g[d] # l
  BY <1>1, <1>2, <1>3, LimitersSuffice
<1>5. \E l \in Limiters : /\ \A a \in Addresses : Kept(c)[a] # l
                          /\ \A d \in Handlers : visits[d].limiter # l
  BY <1>4 DEF g
<1>6. QED
  BY <1>5 DEF Unused

\* The bucket of an address, and what a request was told.
Level == [a \in Addresses |-> IF limiters[a] = NoLimiter THEN Burst
                              ELSE tokens[limiters[a]]]
Verdict == [c \in Handlers |-> IF visits[c].at \in {"allowed", "refused"}
                               THEN visits[c].at ELSE "none"]

\* At the start nobody has a limiter.
LEMMA LimiterInitInv == LimiterInit => LimiterInv /\ Ideal!Init
<1> SUFFICES ASSUME LimiterInit PROVE LimiterInv /\ Ideal!Init
  OBVIOUS
<1>1. LimiterTypeOK
  BY LimiterAssumption DEF LimiterInit, LimiterTypeOK, MaxSeen, MaxCleanup, Visit, Idle
<1>2. LimitersBelong /\ IdleLimitersRefill
  BY DEF LimiterInit, LimitersBelong, IdleLimitersRefill, Idle
<1>3. Ideal!Init
  BY DEF LimiterInit, Ideal!Init, Addresses, Idle
<1>4. QED
  BY <1>1, <1>2, <1>3 DEF LimiterInv

\* A tick.
LEMMA TickInv == ASSUME LimiterInv, Tick PROVE LimiterInv' /\ Ideal!Tick
<1> USE DEF LimiterInv
<1>0. /\ Rate \in Nat \ {0} /\ Burst \in Nat \ {0} /\ Cleanup \in Nat /\ TTL \in Nat
      /\ MaxPause \in Nat /\ 2 * MaxPause <= TTL /\ MaxSeen \in Nat /\ MaxCleanup \in Nat
  BY LimiterAssumption DEF MaxSeen, MaxCleanup
<1>1. \A c \in Handlers : /\ visits'[c].at = visits[c].at
                          /\ visits'[c].limiter = visits[c].limiter
                          /\ visits'[c] \in Visit
                          /\ visits[c].at = "found" => visits'[c].now = visits[c].now + 1
  BY <1>0 DEF Tick, LimiterTypeOK, Visit, InAllow
<1>2. /\ tokens' = [l \in Limiters |-> Full(tokens[l] + Rate)]
      /\ tokens' \in [Limiters -> 0..Burst]
  BY <1>0 DEF Tick, LimiterTypeOK, Full
<1>3. \A a \in Addresses : /\ lastSeen[a] \in 0..MaxSeen /\ lastSeen'[a] \in 0..MaxSeen
                           /\ lastSeen'[a] <= lastSeen[a] + 1
  BY <1>0 DEF Tick, LimiterTypeOK, Older
<1>4. LimiterTypeOK'
  <2>1. lastSeen' \in [Addresses -> 0..MaxSeen]
    BY <1>3 DEF Tick
  <2>2. lastCleanup' \in 0..MaxCleanup
    BY <1>0 DEF Tick, LimiterTypeOK, Older
  <2>3. visits' \in [Handlers -> Visit]
    BY <1>1 DEF Tick
  <2>4. QED
    BY <1>2, <2>1, <2>2, <2>3 DEF Tick, LimiterTypeOK
<1>5. LimitersBelong'
  <2>1. \A c \in Handlers : Address[c] \in Addresses /\ visits[c].now \in Nat
    BY <1>0 DEF Addresses, LimiterTypeOK, Visit
  <2>2. limiters' = limiters
    BY DEF Tick
  <2>3. QED
    BY <1>0, <1>1, <1>3, <2>1, <2>2 DEF LimitersBelong
<1>6. IdleLimitersRefill'
  <2> SUFFICES ASSUME NEW a \in Addresses, limiters[a] # NoLimiter,
                      lastSeen'[a] >= 2 * MaxPause
               PROVE  tokens'[limiters[a]] >= Full((lastSeen'[a] - 2 * MaxPause) * Rate)
    BY DEF IdleLimitersRefill, Tick
  <2> DEFINE k == lastSeen[a] - 2 * MaxPause
             n == tokens[limiters[a]]
  <2>1. limiters[a] \in Limiters /\ n \in 0..Burst /\ n + Rate \in Nat
    BY <1>0 DEF LimiterTypeOK
  <2>2. tokens'[limiters[a]] = Full(n + Rate)
    BY <1>2, <2>1
  <2>3. CASE lastSeen[a] < 2 * MaxPause
    <3>1. lastSeen'[a] - 2 * MaxPause = 0
      BY <1>0, <1>3, <2>3
    <3>2. (lastSeen'[a] - 2 * MaxPause) * Rate = 0
      BY <1>0, <3>1
    <3>3. QED
      BY <1>0, <2>1, <2>2, <3>2, FullIsLevel DEF Full
  <2>4. CASE lastSeen[a] >= 2 * MaxPause
    <3>1. k \in Nat /\ n >= Full(k * Rate)
      BY <1>0, <1>3, <2>4 DEF IdleLimitersRefill
    <3>2. CASE lastSeen[a] < MaxSeen
      <4>1. lastSeen'[a] - 2 * MaxPause = k + 1
        BY <1>0, <1>3, <3>2 DEF Tick, Older
      <4>2. QED
        BY <2>1, <2>2, <3>1, <4>1, FullStep
    <3>3. CASE ~(lastSeen[a] < MaxSeen)
      <4>1. lastSeen'[a] - 2 * MaxPause = k
        BY <1>0, <1>3, <3>3 DEF Tick, Older
      <4>2. k * Rate \in Nat
        BY <1>0, <3>1
      <4>3. Full(n + Rate) >= n /\ n \in Nat /\ Full(k * Rate) \in Nat /\ Full(n + Rate) \in Nat
        BY <1>0, <2>1, <4>2 DEF Full
      <4>4. QED
        BY <2>2, <3>1, <4>1, <4>3
    <3>4. QED
      BY <3>2, <3>3
  <2>5. QED
    BY <1>0, <1>3, <2>3, <2>4
<1>7. Ideal!Tick
  <2>1. \A a \in Addresses : Level'[a] = IF Level[a] + Rate < Burst
                                         THEN Level[a] + Rate ELSE Burst
    <3> TAKE a \in Addresses
    <3>1. CASE limiters[a] = NoLimiter
      BY <1>0, <3>1 DEF Level, Tick
    <3>2. CASE limiters[a] # NoLimiter
      <4>1. limiters[a] \in Limiters
        BY <3>2 DEF LimiterTypeOK
      <4>2. Level[a] = tokens[limiters[a]] /\ Level'[a] = Full(tokens[limiters[a]] + Rate)
        BY <1>2, <3>2, <4>1 DEF Level, Tick
      <4>3. QED
        BY <4>2 DEF Full
    <3>3. QED
      BY <3>1, <3>2
  <2>2. Verdict' = Verdict
    BY <1>1 DEF Verdict
  <2>3. DOMAIN Level = Addresses /\ Level' = [a \in Addresses |-> Level'[a]]
    BY DEF Level
  <2>4. Level' = [a \in DOMAIN Level |-> IF Level[a] + Rate < Burst
                                         THEN Level[a] + Rate ELSE Burst]
    BY <2>1, <2>3
  <2>5. QED
    BY <2>2, <2>4 DEF Ideal!Tick, Level, Verdict
<1>8. QED
  BY <1>4, <1>5, <1>6, <1>7

\* A request comes in, or is done.
LEMMA VisitInv ==
    ASSUME LimiterInv, NEW c \in Handlers, Arrive(c) \/ Leave(c)
    PROVE  LimiterInv' /\ (Ideal!Leave(c) \/ UNCHANGED Ideal!vars)
<1> USE DEF LimiterInv
<1>0. MaxPause \in Nat
  BY LimiterAssumption
<1> DEFINE v == IF visits[c].at = "idle" THEN [Idle EXCEPT !.at = "timed"] ELSE Idle
<1>1. /\ visits' = [visits EXCEPT ![c] = v]
      /\ UNCHANGED <<limiters, tokens, lastSeen, lastCleanup>>
  BY DEF Arrive, Leave, Idle
<1>2. v \in Visit /\ v.limiter = NoLimiter /\ v.at # "found"
  BY <1>0 DEF Visit, Idle
<1> HIDE DEF v
<1>3. \A d \in Handlers : visits'[d] = IF d = c THEN v ELSE visits[d]
  BY <1>1 DEF LimiterTypeOK
<1>4. LimiterTypeOK'
  BY <1>1, <1>2 DEF LimiterTypeOK
<1>5. LimitersBelong' /\ IdleLimitersRefill'
  BY <1>1, <1>2, <1>3 DEF LimitersBelong, IdleLimitersRefill
<1>6. Level' = Level
  BY <1>1 DEF Level
<1>7. CASE Arrive(c)
  <2>1. visits[c].at = "idle" /\ v.at = "timed"
    BY <1>7 DEF Arrive, Idle, v
  <2>2. Verdict' = Verdict
    BY <1>3, <2>1 DEF Verdict
  <2>3. QED
    BY <1>4, <1>5, <1>6, <2>2 DEF Ideal!vars, Level, Verdict
<1>8. CASE Leave(c)
  <2>1. visits[c].at \in {"allowed", "refused"} /\ v.at = "idle"
    BY <1>8 DEF Leave, Idle, v
  <2>2. Verdict[c] # "none" /\ Verdict' = [Verdict EXCEPT ![c] = "none"]
    BY <1>3, <2>1 DEF Verdict
  <2>3. QED
    BY <1>4, <1>5, <1>6, <2>2 DEF Ideal!Leave, Level, Verdict
<1>9. QED
  BY <1>7, <1>8

\* A limiter is asked.
LEMMA TakeInv ==
    ASSUME LimiterInv, NEW c \in Handlers, Take(c)
    PROVE  LimiterInv' /\ Ideal!Decide(c)
<1> USE DEF LimiterInv
<1> DEFINE a == Address[c]
           l == visits[c].limiter
           at == IF tokens[l] > 0 THEN "allowed" ELSE "refused"
           left == IF tokens[l] > 0 THEN tokens[l] - 1 ELSE 0
<1>0. MaxPause \in Nat /\ Burst \in Nat /\ Rate \in Nat
  BY LimiterAssumption
<1>1. /\ visits[c].at = "found" /\ a \in Addresses
      /\ l = limiters[a] /\ l # NoLimiter /\ l \in Limiters /\ tokens[l] \in 0..Burst
      /\ lastSeen[a] \in Nat /\ visits[c].now \in 0..MaxPause
      /\ lastSeen[a] <= 2 * MaxPause
  <2>1. visits[c].at = "found" /\ a \in Addresses
    BY DEF Take, Addresses
  <2>2. l = limiters[a] /\ l # NoLimiter /\ lastSeen[a] <= MaxPause + visits[c].now
    BY <2>1 DEF LimitersBelong
  <2>3. visits[c].now \in 0..MaxPause /\ lastSeen[a] \in Nat
    BY <2>1, LimiterAssumption DEF LimiterTypeOK, Visit, MaxSeen
  <2>4. l \in Limiters
    BY <2>1, <2>2 DEF LimiterTypeOK
  <2>5. QED
    BY <1>0, <2>1, <2>2, <2>3, <2>4 DEF LimiterTypeOK
<1>2. /\ visits' = [visits EXCEPT ![c] = [Idle EXCEPT !.at = at]]
      /\ tokens' = [tokens EXCEPT ![l] = left]
      /\ UNCHANGED <<limiters, lastSeen, lastCleanup>>
  <2>1. CASE tokens[l] > 0
    BY <2>1 DEF Take
  <2>2. CASE ~(tokens[l] > 0)
    <3>1. tokens[l] = 0
      BY <1>0, <1>1, <2>2
    <3>2. tokens = [tokens EXCEPT ![l] = 0]
      BY <1>1, <3>1 DEF LimiterTypeOK
    <3>3. QED
      BY <2>2, <3>2 DEF Take
  <2>3. QED
    BY <2>1, <2>2
<1>3. left \in 0..Burst /\ left \in Nat
  BY <1>0, <1>1
<1>4. [Idle EXCEPT !.at = at] \in Visit
  BY <1>0 DEF Visit, Idle
<1>5. \A d \in Handlers : /\ d # c => visits'[d] = visits[d]
                          /\ visits'[c].at = at /\ visits'[c].limiter = NoLimiter
  BY <1>2 DEF LimiterTypeOK, Idle
<1>6. LimiterTypeOK'
  BY <1>2, <1>3, <1>4 DEF LimiterTypeOK
<1>7. LimitersBelong'
  BY <1>2, <1>5 DEF LimitersBelong
<1>8. IdleLimitersRefill'
  <2> SUFFICES ASSUME NEW b \in Addresses, limiters[b] # NoLimiter,
                      lastSeen[b] >= 2 * MaxPause
               PROVE  tokens'[limiters[b]] >= Full((lastSeen[b] - 2 * MaxPause) * Rate)
    BY <1>2 DEF IdleLimitersRefill
  <2>1. CASE b = a
    <3>1. (lastSeen[b] - 2 * MaxPause) * Rate = 0
      BY <1>0, <1>1, <2>1
    <3>2. tokens'[limiters[b]] = left
      BY <1>1, <1>2, <2>1 DEF LimiterTypeOK
    <3>3. QED
      BY <1>0, <1>3, <3>1, <3>2 DEF Full
  <2>2. CASE b # a
    <3>1. limiters[b] # l /\ limiters[b] \in Limiters
      BY <1>1, <2>2 DEF LimitersBelong, LimiterTypeOK
    <3>2. tokens'[limiters[b]] = tokens[limiters[b]]
      BY <1>2, <3>1 DEF LimiterTypeOK
    <3>3. QED
      BY <3>2 DEF IdleLimitersRefill
  <2>3. QED
    BY <2>1, <2>2
<1>9. Ideal!Decide(c)
  <2>1. Level[a] = tokens[l] /\ Level[a] \in Nat
    BY <1>0, <1>1 DEF Level
  <2>2. Level' = [Level EXCEPT ![a] = left]
    <3>1. \A b \in Addresses : Level'[b] = IF b = a THEN left ELSE Level[b]
      <4> TAKE b \in Addresses
      <4>1. CASE b = a
        BY <1>1, <1>2, <4>1 DEF Level, LimiterTypeOK
      <4>2. CASE b # a
        <5>1. limiters[b] # NoLimiter => limiters[b] # l /\ limiters[b] \in Limiters
          BY <1>1, <4>2 DEF LimitersBelong, LimiterTypeOK
        <5>2. limiters[b] # NoLimiter => tokens'[limiters[b]] = tokens[limiters[b]]
          BY <1>2, <5>1 DEF LimiterTypeOK
        <5>3. QED
          BY <1>2, <4>2, <5>2 DEF Level
      <4>3. QED
        BY <4>1, <4>2
    <3>2. Level' = [b \in Addresses |-> Level'[b]] /\ Level = [b \in Addresses |-> Level[b]]
      BY DEF Level
    <3>3. QED
      BY <3>1, <3>2
  <2>3. Verdict[c] = "none" /\ Verdict' = [Verdict EXCEPT ![c] = at]
    <3>1. Verdict[c] = "none"
      BY <1>1 DEF Verdict
    <3>2. \A d \in Handlers : Verdict'[d] = IF d = c THEN at ELSE Verdict[d]
      BY <1>5 DEF Verdict
    <3>3. Verdict' = [d \in Handlers |-> Verdict'[d]] /\ Verdict = [d \in Handlers |-> Verdict[d]]
      BY DEF Verdict
    <3>4. QED
      BY <3>1, <3>2, <3>3
  <2>4. CASE tokens[l] > 0
    BY <2>1, <2>2, <2>3, <2>4 DEF Ideal!Decide, Level, Verdict
  <2>5. CASE ~(tokens[l] > 0)
    <3>1. Level[a] = 0 /\ left = 0 /\ at = "refused"
      BY <1>0, <1>1, <2>1, <2>5
    <3>2. Level' = Level
      BY <2>2, <3>1 DEF Level
    <3>3. QED
      BY <2>3, <3>1, <3>2 DEF Ideal!Decide, Level, Verdict
  <2>6. QED
    BY <2>4, <2>5
<1>10. QED
  BY <1>6, <1>7, <1>8, <1>9

\* A limiter that a cleanup drops is full, and no handler is about to ask it.
LEMMA DroppedIsFull ==
    ASSUME LimiterInv, NEW c \in Handlers, NEW b \in Addresses
    PROVE  /\ Kept(c)[b] \in {NoLimiter, limiters[b]}
           /\ limiters[b] # NoLimiter /\ Kept(c)[b] = NoLimiter =>
                /\ tokens[limiters[b]] = Burst
                /\ \A d \in Handlers : visits[d].at = "found" => Address[d] # b
<1> USE DEF LimiterInv
<1>0. /\ MaxPause \in Nat /\ TTL \in Nat /\ 2 * MaxPause <= TTL /\ Burst \in Nat
      /\ lastSeen[b] \in Nat /\ visits[c].now \in Nat
  BY LimiterAssumption DEF LimiterTypeOK, MaxSeen, Visit
<1>1. Kept(c)[b] \in {NoLimiter, limiters[b]}
  BY DEF Kept
<1>2. ASSUME limiters[b] # NoLimiter, Kept(c)[b] = NoLimiter
      PROVE  /\ tokens[limiters[b]] = Burst
             /\ \A d \in Handlers : visits[d].at = "found" => Address[d] # b
  <2>1. lastSeen[b] > TTL
    BY <1>0, <1>2 DEF Kept, Expired
  <2>2. tokens[limiters[b]] >= Full((lastSeen[b] - 2 * MaxPause) * Rate)
    BY <1>0, <1>2, <2>1 DEF IdleLimitersRefill
  <2>3. tokens[limiters[b]] \in 0..Burst
    BY <1>2 DEF LimiterTypeOK
  <2>4. tokens[limiters[b]] = Burst
    BY <1>0, <2>1, <2>2, <2>3, FullAfterTTL
  <2>5. ASSUME NEW d \in Handlers, visits[d].at = "found" PROVE Address[d] # b
    <3>1. lastSeen[Address[d]] <= MaxPause + visits[d].now /\ visits[d].now \in 0..MaxPause
      BY <2>5 DEF LimitersBelong, LimiterTypeOK, Visit
    <3>2. QED
      BY <1>0, <2>1, <3>1
  <2>6. QED
    BY <2>4, <2>5
<1>3. QED
  BY <1>1, <1>2

\* A limiter is found or made: no bucket notices.
LEMMA FindInv ==
    ASSUME LimiterInv, NEW c \in Handlers, Find(c)
    PROVE  LimiterInv' /\ UNCHANGED Ideal!vars
<1> USE DEF LimiterInv
<1> DEFINE a == Address[c]
           K == Kept(c)
           fresh == K[a] = NoLimiter
           l == IF fresh THEN Unused(c) ELSE K[a]
<1>0. /\ MaxPause \in Nat /\ TTL \in Nat /\ Burst \in Nat /\ Rate \in Nat
      /\ MaxSeen \in Nat /\ MaxCleanup \in Nat /\ MaxPause <= MaxSeen
      /\ MaxPause <= MaxCleanup
      /\ a \in Addresses /\ visits[c].now \in 0..MaxPause
  BY LimiterAssumption DEF LimiterTypeOK, MaxSeen, MaxCleanup, Addresses, Visit
<1>1. /\ visits[c].at = "timed"
      /\ limiters' = [K EXCEPT ![a] = l]
      /\ tokens' = IF fresh THEN [tokens EXCEPT ![l] = Burst] ELSE tokens
      /\ lastSeen' = [lastSeen EXCEPT ![a] = visits[c].now]
      /\ lastCleanup' = IF Due(c) THEN visits[c].now ELSE lastCleanup
      /\ visits' = [visits EXCEPT ![c].at = "found", ![c].limiter = l]
  BY DEF Find
<1>2. K \in [Addresses -> Limiters \cup {NoLimiter}]
  BY DEF Kept, LimiterTypeOK
<1>3. \A b \in Addresses : /\ K[b] \in {NoLimiter, limiters[b]}
                           /\ limiters[b] # NoLimiter /\ K[b] = NoLimiter =>
                                tokens[limiters[b]] = Burst
  BY DroppedIsFull
<1>4. /\ Unused(c) \in Limiters
      /\ \A b \in Addresses : K[b] # Unused(c)
      /\ \A d \in Handlers : visits[d].limiter # Unused(c)
  BY <1>1, UnusedIsUnused
<1>5. NoLimiter \notin Limiters
  BY DEF Limiters, NoLimiter
<1> HIDE DEF K
<1>6. /\ l \in Limiters
      /\ \A b \in Addresses \ {a} : K[b] # l
      /\ ~fresh => l = limiters[a]
  <2>1. CASE fresh
    BY <1>4, <2>1
  <2>2. CASE ~fresh
    <3>1. l = limiters[a] /\ l # NoLimiter /\ l \in Limiters
      BY <1>0, <1>2, <1>3, <2>2
    <3>2. \A b \in Addresses \ {a} : K[b] # l
      BY <1>0, <1>3, <3>1 DEF LimitersBelong
    <3>3. QED
      BY <3>1, <3>2
  <2>3. QED
    BY <2>1, <2>2
<1> HIDE DEF l
<1>7. \A b \in Addresses : /\ limiters'[b] = IF b = a THEN l ELSE K[b]
                           /\ lastSeen'[b] = IF b = a THEN visits[c].now ELSE lastSeen[b]
  BY <1>1, <1>2 DEF LimiterTypeOK
<1>8. /\ tokens' \in [Limiters -> 0..Burst]
      /\ \A k \in Limiters : k # l => tokens'[k] = tokens[k]
      /\ tokens'[l] = IF fresh THEN Burst ELSE tokens[l]
  BY <1>0, <1>1, <1>6 DEF LimiterTypeOK
<1>9. \A d \in Handlers : IF d = c
                          THEN /\ visits'[d].at = "found" /\ visits'[d].limiter = l
                               /\ visits'[d].now = visits[d].now
                          ELSE visits'[d] = visits[d]
  BY <1>1 DEF LimiterTypeOK, Visit
<1>10. LimiterTypeOK'
  <2>1. limiters' \in [Addresses -> Limiters \cup {NoLimiter}]
    BY <1>1, <1>2, <1>6
  <2>2. lastSeen' \in [Addresses -> 0..MaxSeen]
    BY <1>0, <1>1 DEF LimiterTypeOK
  <2>3. lastCleanup' \in 0..MaxCleanup
    BY <1>0, <1>1 DEF LimiterTypeOK
  <2>4. visits' \in [Handlers -> Visit]
    BY <1>1, <1>6 DEF LimiterTypeOK, Visit
  <2>5. QED
    BY <1>8, <2>1, <2>2, <2>3, <2>4 DEF LimiterTypeOK
<1>11. LimitersBelong'
  <2>1. ASSUME NEW b1 \in Addresses, NEW b2 \in Addresses,
               limiters'[b1] = limiters'[b2], limiters'[b1] # NoLimiter
        PROVE  b1 = b2
    <3>1. CASE b1 = a \/ b2 = a
      BY <1>6, <1>7, <2>1, <3>1
    <3>2. CASE b1 # a /\ b2 # a
      BY <1>3, <1>7, <2>1, <3>2 DEF LimitersBelong
    <3>3. QED
      BY <3>1, <3>2
  <2>2. ASSUME NEW d \in Handlers
        PROVE  IF visits'[d].at = "found"
               THEN /\ visits'[d].limiter = limiters'[Address[d]]
                    /\ visits'[d].limiter # NoLimiter
                    /\ lastSeen'[Address[d]] <= MaxPause + visits'[d].now
               ELSE visits'[d].limiter = NoLimiter
    <3>1. CASE d = c
      BY <1>0, <1>5, <1>6, <1>7, <1>9, <3>1
    <3>2. CASE d # c /\ visits[d].at # "found"
      BY <1>9, <3>2 DEF LimitersBelong
    <3>3. CASE d # c /\ visits[d].at = "found"
      <4>1. Address[d] \in Addresses
        BY DEF Addresses
      <4>2. /\ visits[d].limiter = limiters[Address[d]] /\ visits[d].limiter # NoLimiter
            /\ lastSeen[Address[d]] <= MaxPause + visits[d].now
            /\ visits[d].now \in Nat
        BY <3>3, <1>0 DEF LimitersBelong, LimiterTypeOK, Visit
      <4>3. K[Address[d]] = limiters[Address[d]]
        BY <3>3, <4>1, <4>2, DroppedIsFull DEF K
      <4>4. limiters'[Address[d]] = limiters[Address[d]]
        BY <1>7, <4>1, <4>2, <4>3 DEF l
      <4>5. lastSeen'[Address[d]] <= MaxPause + visits[d].now
        BY <1>0, <1>7, <4>1, <4>2
      <4>6. QED
        BY <1>9, <3>3, <4>2, <4>4, <4>5
    <3>4. QED
      BY <3>1, <3>2, <3>3
  <2>3. QED
    BY <2>1, <2>2 DEF LimitersBelong
<1>12. IdleLimitersRefill'
  <2> SUFFICES ASSUME NEW b \in Addresses, limiters'[b] # NoLimiter,
                      lastSeen'[b] >= 2 * MaxPause
               PROVE  tokens'[limiters'[b]] >= Full((lastSeen'[b] - 2 * MaxPause) * Rate)
    BY DEF IdleLimitersRefill
  <2>1. CASE b = a
    <3>1. (lastSeen'[b] - 2 * MaxPause) * Rate = 0
      BY <1>0, <1>7, <2>1
    <3>2. tokens'[limiters'[b]] \in Nat
      BY <1>0, <1>6, <1>7, <1>8, <2>1
    <3>3. QED
      BY <1>0, <3>1, <3>2 DEF Full
  <2>2. CASE b # a
    <3>1. limiters'[b] = K[b] /\ K[b] = limiters[b] /\ K[b] # l /\ K[b] \in Limiters
      BY <1>2, <1>3, <1>6, <1>7, <2>2
    <3>2. QED
      BY <1>7, <1>8, <2>2, <3>1 DEF IdleLimitersRefill
  <2>3. QED
    BY <2>1, <2>2
<1>13. Level' = Level
  <2>1. ASSUME NEW b \in Addresses PROVE Level'[b] = Level[b]
    <3>1. CASE b = a /\ fresh
      <4>1. limiters'[b] = l /\ l # NoLimiter /\ tokens'[l] = Burst
        BY <1>5, <1>6, <1>7, <1>8, <3>1
      <4>2. Level[b] = Burst
        BY <1>3, <3>1 DEF Level
      <4>3. Level'[b] = Burst
        BY <4>1 DEF Level
      <4>4. QED
        BY <4>2, <4>3
    <3>2. CASE b = a /\ ~fresh
      <4>1. /\ limiters'[b] = l /\ limiters[b] = l /\ l # NoLimiter
            /\ tokens'[l] = tokens[l]
        BY <1>5, <1>6, <1>7, <1>8, <3>2
      <4>2. QED
        BY <4>1 DEF Level
    <3>3. CASE b # a /\ K[b] = NoLimiter
      BY <1>3, <1>7, <3>3 DEF Level
    <3>4. CASE b # a /\ K[b] # NoLimiter
      <4>1. limiters'[b] = limiters[b] /\ limiters[b] # l /\ limiters[b] \in Limiters
        BY <1>2, <1>3, <1>6, <1>7, <3>4
      <4>2. QED
        BY <1>8, <4>1 DEF Level
    <3>5. QED
      BY <3>1, <3>2, <3>3, <3>4
  <2>2. QED
    BY <2>1 DEF Level
<1>14. Verdict' = Verdict
  BY <1>1, <1>9 DEF Verdict
<1>15. QED
  BY <1>10, <1>11, <1>12, <1>13, <1>14 DEF Ideal!vars, Level, Verdict

\* Nobody is at the limiters.
LEMMA LimiterStutter ==
    ASSUME LimiterInv, UNCHANGED limiterVars PROVE LimiterInv' /\ UNCHANGED Ideal!vars
<1> USE DEF limiterVars
<1>1. LimiterTypeOK' /\ LimitersBelong' /\ IdleLimitersRefill'
  BY DEF LimiterInv, LimiterTypeOK, LimitersBelong, IdleLimitersRefill
<1>2. QED
  BY <1>1 DEF LimiterInv, Ideal!vars

\* Every step of the workers' calls keeps the limiters in order, and is a step of
\* the buckets or leaves them alone.
LEMMA CallStep ==
    ASSUME LimiterInv, [Next]_vars
    PROVE  LimiterInv' /\ [Ideal!Next]_Ideal!vars
<1>1. CASE \E w \in Callers : Fetch(w) \/ Fetched(w) \/ Counted(w)
  BY <1>1, LimiterStutter DEF Fetch, Fetched, Counted
<1>2. ASSUME NEW h \in Handlers, Post(h) \/ Handle(h)
      PROVE  LimiterInv' /\ [Ideal!Next]_Ideal!vars
  <2>1. CASE Arrive(h) \/ Leave(h)
    BY <2>1, VisitInv DEF Ideal!Next
  <2>2. CASE Find(h)
    BY <2>2, FindInv
  <2>3. CASE Take(h)
    BY <2>3, TakeInv DEF Ideal!Next
  <2>4. QED
    BY <1>2, <2>1, <2>2, <2>3 DEF Post, Handle
<1>3. CASE Timers
  BY <1>3, LimiterStutter, TickInv DEF Timers, Ideal!Next
<1>4. CASE UNCHANGED vars
  BY <1>4, LimiterStutter DEF vars
<1>5. QED
  BY <1>1, <1>2, <1>3, <1>4 DEF Next

\* A limiter that is in use is never dropped, and one that is dropped is full: the
\* gap between the lock of Allow and the limiter does no harm.
THEOREM LimitersInvariant == Spec => []LimiterInv
<1>1. Init => LimiterInv
  BY LimiterInitInv DEF Init
<1>2. LimiterInv /\ [Next]_vars => LimiterInv'
  BY CallStep
<1>3. QED
  BY <1>1, <1>2, PTL DEF Spec

\* An address is allowed what its one bucket allows it, cleanups or not.
THEOREM LimiterIsTokenBucket == Spec => ImplementsTokenBucket
<1>1. Init => LimiterInv /\ Ideal!Init
  BY LimiterInitInv DEF Init
<1>2. LimiterInv /\ [Next]_vars => LimiterInv' /\ [Ideal!Next]_Ideal!vars
  BY CallStep
<1>3. QED
  BY <1>1, <1>2, PTL DEF Spec, ImplementsTokenBucket, Ideal!Spec
---------------------------------------------------------------------------
(* The circuit breaker decides on its probes, for any number of callers    *)
(* and any settings that normalizeCircuitBreakerConfig leaves.             *)

\* The breaker's callers are finitely many: they are workers of the scrapper.
LEMMA FewCallers == IsFiniteSet(Callers)
BY CallsAssumption, HandlersAssumption, FS_Subset

\* The probes that run, and those that wait for the library, can be counted.
LEMMA ProbesAreFew ==
    /\ IsFiniteSet(ProbesRunning) /\ Cardinality(ProbesRunning) \in Nat
    /\ IsFiniteSet(ProbesJudged) /\ Cardinality(ProbesJudged) \in Nat
<1>1. ProbesRunning \subseteq Callers /\ ProbesJudged \subseteq Callers
  BY DEF ProbesRunning, ProbesJudged
<1> QED
  BY <1>1, FewCallers, FS_Subset, FS_CardinalityType

\* Where no call is of the present state, there is no probe.
LEMMA NoProbes ==
    ASSUME \A c \in Callers : ~ calls'[c].fresh
    PROVE  /\ ProbesRunning' = {} /\ Cardinality(ProbesRunning') = 0
           /\ ProbesJudged' = {} /\ Cardinality(ProbesJudged') = 0
<1>1. ProbesRunning' = {} /\ ProbesJudged' = {}
  BY DEF ProbesRunning, ProbesJudged
<1> QED
  BY <1>1, FS_EmptySet

\* Nobody calls at first.
LEMMA BreakerInitInv == BreakerInit => BreakerInv
<1> SUFFICES ASSUME BreakerInit PROVE BreakerInv
  OBVIOUS
<1>1. BreakerTypeOK
  <2>1. calls \in [Callers -> Call]
    BY DEF BreakerInit, Call
  <2>2. /\ requests = 0 /\ failures = 0 /\ successes = 0
        /\ halfRequests = 0 /\ halfFailures = 0
        /\ stragglers = 0 /\ probes = 0 /\ probesFailed = 0
        /\ state = "closed" /\ waited = FALSE /\ Permitted \in Nat
    BY BreakerAssumption DEF BreakerInit
  <2>3. /\ requests \in Nat /\ failures \in 0..requests
        /\ successes \in 0..requests
        /\ halfRequests \in Nat /\ halfFailures \in 0..halfRequests
    BY <2>2
  <2>4. /\ stragglers \in Nat /\ probes \in 0..Permitted
        /\ probesFailed \in 0..probes
    BY <2>2
  <2> QED
    BY <2>1, <2>2, <2>3, <2>4 DEF BreakerTypeOK
<1>2. CallsAreSound
  BY DEF BreakerInit, CallsAreSound
<1>3. state # "half-open"
  BY DEF BreakerInit
<1> QED
  BY <1>1, <1>2, <1>3 DEF BreakerInv, ProbesAreCounted, VerdictsAreSound

\* A breaker that turns to a new state as a call is recorded starts anew: it
\* has no request, no probe and no verdict yet.
LEMMA TurnInv ==
    ASSUME BreakerInv, NEW c \in Callers,
           NEW to \in {"closed", "open", "half-open"}, Turns(c, to)
    PROVE  BreakerInv'
<1>0. Permitted \in Nat /\ Permitted # 0
  BY BreakerAssumption
<1>1. /\ state' = to /\ waited' = FALSE
      /\ requests' = 0 /\ failures' = 0 /\ successes' = 0
      /\ stragglers' = 0 /\ probes' = 0 /\ probesFailed' = 0
  BY DEF Turns, Enter
<1>2. /\ halfRequests' \in Nat /\ halfFailures' \in 0..halfRequests'
      /\ to = "half-open" => halfRequests' = 0 /\ halfFailures' = 0
  BY DEF Turns, Enter, OnStateChange, half, BreakerInv, BreakerTypeOK
<1>3. /\ calls' \in [Callers -> Call]
      /\ \A d \in Callers : ~ calls'[d].fresh
  <2>1. Idled(c) \in [Callers -> Call]
    BY DEF Idled, BreakerInv, BreakerTypeOK, Call
  <2>2. \A d \in Callers : /\ [Idled(c)[d] EXCEPT !.fresh = FALSE] \in Call
                           /\ ~ [Idled(c)[d] EXCEPT !.fresh = FALSE].fresh
    BY <2>1 DEF Call
  <2>3. calls' = [d \in Callers |-> [Idled(c)[d] EXCEPT !.fresh = FALSE]]
    BY DEF Turns, Old
  <2> QED
    BY <2>2, <2>3
<1>4. BreakerTypeOK'
  <2>1. /\ requests' \in Nat /\ failures' \in 0..requests'
        /\ successes' \in 0..requests'
    BY <1>1
  <2>2. /\ stragglers' \in Nat /\ probes' \in 0..Permitted
        /\ probesFailed' \in 0..probes'
    BY <1>0, <1>1
  <2> QED
    BY <1>1, <1>2, <1>3, <2>1, <2>2 DEF BreakerTypeOK
<1>5. CallsAreSound'
  BY <1>1, <1>3 DEF CallsAreSound
<1>6. /\ ProbesRunning' = {} /\ Cardinality(ProbesRunning') = 0
      /\ ProbesJudged' = {} /\ Cardinality(ProbesJudged') = 0
  BY <1>3, NoProbes
<1>7. ProbesAreCounted'
  BY <1>0, <1>1, <1>2, <1>6 DEF ProbesAreCounted
<1>8. VerdictsAreSound'
  BY <1>0, <1>1, <1>6 DEF VerdictsAreSound
<1> QED
  BY <1>4, <1>5, <1>7, <1>8 DEF BreakerInv

\* A call that is let through is a probe if the breaker is half-open, and no
\* more than Permitted of them are.
LEMMA BeginInv ==
    ASSUME BreakerInv, NEW c \in Callers, Begin(c)
    PROVE  BreakerInv'
<1> USE DEF BreakerInv
<1>0. Permitted \in Nat /\ Permitted # 0 /\ calls[c].at = "idle"
  BY BreakerAssumption DEF Begin
<1>1. CASE state = "open" /\ waited
  <2>1. /\ Enter("half-open", 1) /\ calls' = Running(Old(calls), c)
    BY <1>1 DEF Begin
  <2>2. /\ state' = "half-open" /\ waited' = FALSE
        /\ requests' = 1 /\ failures' = 0 /\ successes' = 0
        /\ halfRequests' = 0 /\ halfFailures' = 0
        /\ stragglers' = 0 /\ probes' = 0 /\ probesFailed' = 0
    BY <2>1 DEF Enter, OnStateChange
  <2>3. /\ calls' \in [Callers -> Call]
        /\ calls'[c].at = "running" /\ calls'[c].fresh
        /\ \A d \in Callers \ {c} : ~ calls'[d].fresh
    <3>1. /\ Old(calls) \in [Callers -> Call]
          /\ \A d \in Callers : ~ Old(calls)[d].fresh
      BY DEF Old, BreakerTypeOK, Call
    <3>2. calls' = [Old(calls) EXCEPT ![c].at = "running", ![c].fresh = TRUE]
      BY <2>1 DEF Running
    <3> HIDE DEF Old
    <3> QED
      BY <3>1, <3>2 DEF Call
  <2>4. ProbesRunning' = {c} /\ ProbesJudged' = {}
    BY <2>3 DEF ProbesRunning, ProbesJudged
  <2>5. Cardinality(ProbesRunning') = 1 /\ Cardinality(ProbesJudged') = 0
    BY <2>4, FS_Singleton, FS_EmptySet
  <2>6. BreakerTypeOK'
    <3>1. /\ requests' \in Nat /\ failures' \in 0..requests'
          /\ successes' \in 0..requests'
          /\ halfRequests' \in Nat /\ halfFailures' \in 0..halfRequests'
      BY <2>2
    <3>2. /\ stragglers' \in Nat /\ probes' \in 0..Permitted
          /\ probesFailed' \in 0..probes'
      BY <1>0, <2>2
    <3> QED
      BY <2>2, <2>3, <3>1, <3>2 DEF BreakerTypeOK
  <2>7. CallsAreSound'
    BY <2>2, <2>3 DEF CallsAreSound
  <2>8. ProbesAreCounted'
    BY <1>0, <2>2, <2>5 DEF ProbesAreCounted
  <2>9. VerdictsAreSound'
    BY <1>0, <2>2, <2>4 DEF VerdictsAreSound
  <2> QED
    BY <2>6, <2>7, <2>8, <2>9
<1>2. CASE ~ (state = "open" /\ waited)
  <2>1. /\ \/ state = "closed"
           \/ state = "half-open" /\ requests < Permitted
        /\ requests' = requests + 1
        /\ calls' = Running(calls, c)
        /\ UNCHANGED <<state, waited, failures, successes, half, judged>>
    BY <1>2 DEF Begin
  <2>2. /\ calls' \in [Callers -> Call]
        /\ calls'[c].at = "running" /\ calls'[c].fresh
        /\ \A d \in Callers \ {c} : calls'[d] = calls[d]
    BY <2>1 DEF Running, BreakerTypeOK, Call
  <2>3. /\ ProbesRunning' = ProbesRunning \cup {c} /\ c \notin ProbesRunning
        /\ ProbesJudged' = ProbesJudged
    BY <1>0, <2>2 DEF ProbesRunning, ProbesJudged
  <2>4. /\ Cardinality(ProbesRunning') = Cardinality(ProbesRunning) + 1
        /\ Cardinality(ProbesJudged') = Cardinality(ProbesJudged)
    BY <2>3, ProbesAreFew, FS_AddElement
  <2>5. BreakerTypeOK'
    BY <2>1, <2>2 DEF BreakerTypeOK, half, judged
  <2>6. CallsAreSound'
    BY <2>1, <2>2 DEF CallsAreSound
  <2>7. ProbesAreCounted'
    <3> SUFFICES ASSUME state' = "half-open"
                 PROVE  /\ requests' <= Permitted /\ failures' = 0
                        /\ requests' = probes' + Cardinality(ProbesRunning')
                        /\ probes' = successes' + Cardinality(ProbesJudged')
                        /\ successes' < Permitted
                        /\ halfRequests' = probes' + stragglers'
                        /\ stragglers' = 0 => halfFailures' = probesFailed'
      BY DEF ProbesAreCounted
    <3>1. /\ requests < Permitted /\ failures = 0
          /\ requests = probes + Cardinality(ProbesRunning)
          /\ probes = successes + Cardinality(ProbesJudged)
          /\ successes < Permitted
          /\ halfRequests = probes + stragglers
          /\ stragglers = 0 => halfFailures = probesFailed
          /\ requests \in Nat /\ probes \in Nat
      BY <1>0, <2>1 DEF ProbesAreCounted, BreakerTypeOK
    <3> QED
      BY <1>0, <2>1, <2>4, <3>1, ProbesAreFew DEF half, judged
  <2>8. VerdictsAreSound'
    <3>1. \A d \in ProbesJudged : d # c /\ calls'[d] = calls[d]
      BY <1>0, <2>2 DEF ProbesJudged
    <3> QED
      BY <2>1, <2>3, <3>1 DEF VerdictsAreSound, TooManyFailed, judged
  <2> QED
    BY <2>5, <2>6, <2>7, <2>8
<1> QED
  BY <1>1, <1>2

\* IsSuccessful gives the last probe, and no earlier one, the verdict that all
\* of them deserve.
LEMMA JudgeInv ==
    ASSUME BreakerInv, NEW c \in Callers, NEW ok \in BOOLEAN, Judge(c, ok)
    PROVE  BreakerInv'
<1> USE DEF BreakerInv
<1> DEFINE miss == IF ok THEN 0 ELSE 1
<1>0. /\ Permitted \in Nat /\ Threshold \in Nat /\ miss \in {0, 1}
      /\ calls[c].at = "running"
      /\ UNCHANGED <<state, waited, requests, failures, successes>>
      /\ calls' = [calls EXCEPT ![c].at = "judged", ![c].ok = ok,
                                ![c].verdict = Succeeds(ok)]
  BY BreakerAssumption DEF Judge, counts
<1>1. /\ requests \in Nat /\ failures \in Nat /\ successes \in Nat
      /\ halfRequests \in Nat /\ halfFailures \in 0..halfRequests
      /\ stragglers \in Nat /\ probes \in 0..Permitted
      /\ probesFailed \in 0..probes
      /\ failures <= requests /\ successes <= requests
  BY DEF BreakerTypeOK
<1>2. Succeeds(ok) \in BOOLEAN
  BY DEF Succeeds
<1>3. /\ calls' \in [Callers -> Call]
      /\ calls'[c].at = "judged" /\ calls'[c].fresh = calls[c].fresh
      /\ calls'[c].verdict = Succeeds(ok)
      /\ \A d \in Callers \ {c} : calls'[d] = calls[d]
  BY <1>0, <1>2 DEF BreakerTypeOK, Call
<1>4. CallsAreSound'
  BY <1>0, <1>3 DEF CallsAreSound
<1>5. CASE state # "half-open"
  <2>1. UNCHANGED <<halfRequests, halfFailures, stragglers, probes, probesFailed>>
    BY <1>5 DEF Judge, half, judged
  <2>2. BreakerTypeOK'
    BY <1>0, <1>3, <2>1 DEF BreakerTypeOK
  <2> QED
    BY <1>0, <1>4, <1>5, <2>2 DEF ProbesAreCounted, VerdictsAreSound
<1>6. CASE state = "half-open" /\ ~ calls[c].fresh
  <2>1. /\ halfRequests' = halfRequests + 1
        /\ halfFailures' = halfFailures + miss
        /\ stragglers' = stragglers + 1 /\ UNCHANGED <<probes, probesFailed>>
    BY <1>6 DEF Judge
  <2>2. ProbesRunning' = ProbesRunning /\ ProbesJudged' = ProbesJudged
    BY <1>3, <1>6 DEF ProbesRunning, ProbesJudged
  <2>3. BreakerTypeOK'
    <3>1. /\ halfRequests' \in Nat /\ halfFailures' \in 0..halfRequests'
          /\ stragglers' \in Nat
      BY <1>0, <1>1, <2>1
    <3> QED
      BY <1>0, <1>3, <2>1, <3>1 DEF BreakerTypeOK
  <2>4. ProbesAreCounted'
    BY <1>0, <1>1, <1>6, <2>1, <2>2 DEF ProbesAreCounted
  <2>5. VerdictsAreSound'
    <3>1. stragglers' # 0
      BY <1>1, <2>1
    <3> QED
      BY <3>1 DEF VerdictsAreSound
  <2> QED
    BY <1>4, <2>3, <2>4, <2>5
<1>7. CASE state = "half-open" /\ calls[c].fresh
  <2>1. /\ halfRequests' = halfRequests + 1
        /\ halfFailures' = halfFailures + miss
        /\ probes' = probes + 1 /\ probesFailed' = probesFailed + miss
        /\ UNCHANGED stragglers
    BY <1>7 DEF Judge
  <2>2. /\ ProbesRunning' = ProbesRunning \ {c} /\ c \in ProbesRunning
        /\ ProbesJudged' = ProbesJudged \cup {c} /\ c \notin ProbesJudged
    BY <1>0, <1>3, <1>7 DEF ProbesRunning, ProbesJudged
  <2>3. /\ Cardinality(ProbesRunning') = Cardinality(ProbesRunning) - 1
        /\ Cardinality(ProbesJudged') = Cardinality(ProbesJudged) + 1
        /\ Cardinality(ProbesRunning) # 0
    BY <2>2, ProbesAreFew, FS_RemoveElement, FS_AddElement, FS_EmptySet
  <2>4. /\ requests <= Permitted /\ failures = 0
        /\ requests = probes + Cardinality(ProbesRunning)
        /\ probes = successes + Cardinality(ProbesJudged)
        /\ halfRequests = probes + stragglers
        /\ stragglers = 0 => halfFailures = probesFailed
    BY <1>7 DEF ProbesAreCounted
  <2>5. probes < Permitted
    BY <1>0, <1>1, <2>3, <2>4, ProbesAreFew
  <2>6. BreakerTypeOK'
    <3>1. /\ halfRequests' \in Nat /\ halfFailures' \in 0..halfRequests'
          /\ probes' \in 0..Permitted /\ probesFailed' \in 0..probes'
      BY <1>0, <1>1, <2>1, <2>5
    <3> QED
      BY <1>0, <1>3, <2>1, <3>1 DEF BreakerTypeOK
  <2>7. ProbesAreCounted'
    BY <1>0, <1>1, <2>1, <2>3, <2>4, ProbesAreFew DEF ProbesAreCounted
  <2>8. VerdictsAreSound'
    <3> SUFFICES ASSUME stragglers = 0
                 PROVE  (\E d \in ProbesJudged' : ~ calls'[d].verdict)
                           <=> (probes' = Permitted /\ TooManyFailed')
      BY <2>1 DEF VerdictsAreSound
    <3>1. \A d \in ProbesJudged : calls[d].verdict
      BY <1>0, <1>1, <1>7, <2>5 DEF VerdictsAreSound
    <3>2. \A d \in ProbesJudged : d # c /\ calls'[d] = calls[d]
      BY <1>3, <2>2 DEF ProbesJudged
    <3>3. (\E d \in ProbesJudged' : ~ calls'[d].verdict) <=> ~ Succeeds(ok)
      BY <1>3, <2>2, <3>1, <3>2
    <3>4. halfRequests' = probes' /\ halfFailures' = probesFailed'
      BY <1>1, <2>1, <2>4
    <3>5. Succeeds(ok) <=> \/ probes' < Permitted
                           \/ probesFailed' * 100 <= Threshold * probes'
      BY <1>7, <3>4 DEF Succeeds
    <3>6. /\ probes' < Permitted \/ probes' = Permitted
          /\ ~ (probes' < Permitted /\ probes' = Permitted)
      BY <1>0, <1>1, <2>1, <2>5
    <3>7. TooManyFailed' <=> ~ (probesFailed' * 100 <= Threshold * probes')
      <4>1. \A m, n \in Nat : m > n <=> ~ (m <= n)
        OBVIOUS
      <4>2. \A m, n \in Nat : m * n \in Nat
        OBVIOUS
      <4>3. probesFailed' \in Nat /\ probes' \in Nat
        BY <1>0, <2>6 DEF BreakerTypeOK
      <4>4. probesFailed' * 100 \in Nat /\ Threshold * probes' \in Nat
        BY <1>0, <4>2, <4>3
      <4> QED
        BY <4>1, <4>4 DEF TooManyFailed
    <3> QED
      BY <3>3, <3>5, <3>6, <3>7
  <2> QED
    BY <1>4, <2>6, <2>7, <2>8
<1> QED
  BY <1>5, <1>6, <1>7

\* What a call that ends leaves of the calls.
LEMMA EndsCalls ==
    ASSUME BreakerInv, NEW c \in Callers
    PROVE  /\ Idled(c) \in [Callers -> Call]
           /\ Idled(c)[c].at = "idle" /\ ~ Idled(c)[c].fresh
           /\ \A d \in Callers \ {c} : Idled(c)[d] = calls[d]
BY DEF Idled, BreakerInv, BreakerTypeOK, Call

\* A call that ends without a turn of the breaker: one that the library does
\* not count, a success, or a failure that the closed breaker stands.
LEMMA EndInv ==
    ASSUME BreakerInv, NEW c \in Callers, calls[c].at = "judged", Ends(c),
           UNCHANGED <<state, waited, requests, half, judged>>,
           \/ /\ calls[c].fresh => state = "closed"
              /\ UNCHANGED <<failures, successes>>
           \/ /\ calls[c].fresh /\ calls[c].verdict
              /\ ~ (state = "half-open" /\ successes + 1 >= Permitted)
              /\ successes' = successes + (IF state = "closed" THEN 0 ELSE 1)
              /\ UNCHANGED failures
           \/ /\ calls[c].fresh /\ state # "half-open" /\ failures < requests
              /\ failures' = failures + 1 /\ UNCHANGED successes
    PROVE  BreakerInv'
<1> USE DEF BreakerInv
<1>1. /\ calls' \in [Callers -> Call]
      /\ calls'[c].at = "idle" /\ ~ calls'[c].fresh
      /\ \A d \in Callers \ {c} : calls'[d] = calls[d]
  BY EndsCalls DEF Ends
<1>2. /\ requests \in Nat /\ failures \in Nat /\ successes \in Nat
      /\ failures <= requests /\ successes <= requests
      /\ probes \in Nat /\ Permitted \in Nat
      /\ state \in {"closed", "open", "half-open"}
  BY BreakerAssumption DEF BreakerTypeOK
<1>3. state = "open" => \A d \in Callers : ~ calls[d].fresh
  BY DEF CallsAreSound
<1>4. ProbesRunning' = ProbesRunning
  BY <1>1 DEF ProbesRunning
<1>5. ProbesJudged' = ProbesJudged \ {c}
  BY <1>1 DEF ProbesJudged
<1>6. UNCHANGED <<state, waited, requests, halfRequests, halfFailures,
                  stragglers, probes, probesFailed>>
  BY DEF half, judged
<1>7. CASE state # "half-open"
  <2>1. successes' = successes /\ failures' \in 0..requests
    <3>1. CASE calls[c].fresh
      BY <1>2, <1>3, <1>7, <3>1
    <3>2. CASE ~ calls[c].fresh
      BY <1>2, <3>2
    <3> QED
      BY <3>1, <3>2
  <2>2. BreakerTypeOK'
    BY <1>1, <1>6, <2>1 DEF BreakerTypeOK
  <2>3. CallsAreSound'
    BY <1>1, <1>6, <2>1 DEF CallsAreSound
  <2> QED
    BY <1>6, <1>7, <2>2, <2>3 DEF ProbesAreCounted, VerdictsAreSound
<1>8. CASE state = "half-open"
  <2>0. CallsAreSound'
    BY <1>1, <1>6, <1>8 DEF CallsAreSound
  <2>1. /\ requests <= Permitted /\ failures = 0
        /\ requests = probes + Cardinality(ProbesRunning)
        /\ probes = successes + Cardinality(ProbesJudged)
        /\ halfRequests = probes + stragglers
        /\ stragglers = 0 => halfFailures = probesFailed
    BY <1>8 DEF ProbesAreCounted
  <2>2. CASE ~ calls[c].fresh
    <3>1. ProbesJudged' = ProbesJudged /\ c \notin ProbesJudged
      BY <1>5, <2>2 DEF ProbesJudged
    <3>2. UNCHANGED <<failures, successes>>
      BY <2>2
    <3>3. BreakerTypeOK'
      BY <1>1, <1>6, <3>2 DEF BreakerTypeOK
    <3>4. ProbesAreCounted'
      BY <1>4, <1>6, <3>1, <3>2 DEF ProbesAreCounted
    <3>5. \A d \in ProbesJudged : calls'[d] = calls[d]
      BY <1>1, <3>1 DEF ProbesJudged
    <3>6. VerdictsAreSound'
      BY <1>6, <3>1, <3>5 DEF VerdictsAreSound, TooManyFailed
    <3> QED
      BY <2>0, <3>3, <3>4, <3>6
  <2>3. CASE calls[c].fresh
    <3>1. calls[c].verdict /\ successes' = successes + 1 /\ UNCHANGED failures
      BY <1>8, <2>3
    <3>2. c \in ProbesJudged
      BY <2>3 DEF ProbesJudged
    <3>3. /\ Cardinality(ProbesJudged') = Cardinality(ProbesJudged) - 1
          /\ Cardinality(ProbesJudged) # 0
      BY <1>5, <3>2, ProbesAreFew, FS_RemoveElement, FS_EmptySet
    <3>4. successes' \in 0..requests
      BY <1>2, <2>1, <3>1, <3>3, ProbesAreFew
    <3>5. BreakerTypeOK'
      BY <1>1, <1>6, <3>1, <3>4 DEF BreakerTypeOK
    <3>6. ProbesAreCounted'
      BY <1>2, <1>4, <1>6, <2>1, <3>1, <3>3, ProbesAreFew DEF ProbesAreCounted
    <3>7. /\ \A d \in ProbesJudged' : d \in ProbesJudged /\ calls'[d] = calls[d]
          /\ \A d \in ProbesJudged : ~ calls[d].verdict => d \in ProbesJudged'
      BY <1>1, <1>5, <3>1 DEF ProbesJudged
    <3>8. VerdictsAreSound'
      BY <1>6, <3>7 DEF VerdictsAreSound, TooManyFailed
    <3> QED
      BY <2>0, <3>5, <3>6, <3>8
  <2> QED
    BY <2>2, <2>3
<1> QED
  BY <1>7, <1>8

\* The library records a verdict, and the breaker turns or stays.
LEMMA RecordInv ==
    ASSUME BreakerInv, NEW c \in Callers, Record(c)
    PROVE  BreakerInv'
<1>0. /\ calls[c].at = "judged"
      /\ Current \in {"closed", "open", "half-open"}
      /\ state \in {"closed", "open", "half-open"}
  BY DEF Record, Current, BreakerInv, BreakerTypeOK
<1>1. CASE Current # state /\ Turns(c, Current)
  BY <1>0, <1>1, TurnInv
<1>2. CASE /\ Current = state
           /\ calls[c].fresh => state = "closed"
           /\ Ends(c)
           /\ UNCHANGED <<state, waited, counts, half, judged>>
  BY <1>0, <1>2, EndInv DEF counts
<1>3. CASE /\ Current = state /\ calls[c].fresh /\ calls[c].verdict
           /\ IF state = "half-open" /\ successes + 1 >= Permitted
              THEN Turns(c, "closed")
              ELSE /\ successes' = successes + (IF state = "closed" THEN 0 ELSE 1)
                   /\ Ends(c)
                   /\ UNCHANGED <<state, waited, requests, failures, half, judged>>
  <2>1. CASE state = "half-open" /\ successes + 1 >= Permitted
    BY <1>3, <2>1, TurnInv
  <2>2. CASE ~ (state = "half-open" /\ successes + 1 >= Permitted)
    BY <1>0, <1>3, <2>2, EndInv
  <2> QED
    BY <2>1, <2>2
<1>4. CASE /\ Current = state /\ calls[c].fresh /\ ~calls[c].verdict
           /\ failures < requests
           /\ IF state = "half-open" \/ ReadyToTrip(requests, failures + 1)
              THEN Turns(c, "open")
              ELSE /\ failures' = failures + 1
                   /\ Ends(c)
                   /\ UNCHANGED <<state, waited, requests, successes, half, judged>>
  <2>1. CASE state = "half-open" \/ ReadyToTrip(requests, failures + 1)
    BY <1>4, <2>1, TurnInv
  <2>2. CASE ~ (state = "half-open" \/ ReadyToTrip(requests, failures + 1))
    BY <1>0, <1>4, <2>2, EndInv
  <2> QED
    BY <2>1, <2>2
<1> QED
  BY <1>1, <1>2, <1>3, <1>4 DEF Record

\* The timers of the library count nothing.
LEMMA BreakerTimerInv ==
    ASSUME BreakerInv, Wait \/ WindowMoves \/ UNCHANGED breakerVars
    PROVE  BreakerInv'
<1> USE DEF BreakerInv
<1>1. CASE Wait \/ UNCHANGED breakerVars
  <2>1. /\ UNCHANGED <<state, requests, failures, successes, halfRequests,
                       halfFailures, calls, stragglers, probes, probesFailed>>
        /\ waited' \in BOOLEAN
    BY <1>1 DEF Wait, breakerVars, counts, half, judged, BreakerTypeOK
  <2>2. BreakerTypeOK' /\ CallsAreSound'
    BY <2>1 DEF BreakerTypeOK, CallsAreSound
  <2>3. ProbesRunning' = ProbesRunning /\ ProbesJudged' = ProbesJudged
    BY <2>1 DEF ProbesRunning, ProbesJudged
  <2>4. ProbesAreCounted' /\ VerdictsAreSound'
    BY <2>1, <2>3 DEF ProbesAreCounted, VerdictsAreSound, TooManyFailed
  <2> QED
    BY <2>2, <2>4
<1>2. CASE WindowMoves
  <2>1. PICK r \in 0..requests, f \in 0..failures :
          f <= r /\ requests' = r /\ failures' = f
    BY <1>2 DEF WindowMoves
  <2>2. /\ UNCHANGED <<state, waited, successes, halfRequests, halfFailures,
                       calls, stragglers, probes, probesFailed>>
        /\ state = "closed" /\ successes = 0
    BY <1>2 DEF WindowMoves, half, judged, CallsAreSound
  <2>3. /\ requests' \in Nat /\ failures' \in 0..requests'
        /\ successes' \in 0..requests'
    BY <2>1, <2>2 DEF BreakerTypeOK
  <2>4. BreakerTypeOK' /\ CallsAreSound'
    BY <2>2, <2>3 DEF BreakerTypeOK, CallsAreSound
  <2> QED
    BY <2>2, <2>4 DEF ProbesAreCounted, VerdictsAreSound
<1> QED
  BY <1>1, <1>2

\* Every step keeps the breaker in order.
LEMMA BreakerStep ==
    ASSUME BreakerInv, [Next]_vars
    PROVE  BreakerInv'
<1>1. CASE \E w \in Callers : Fetch(w)
  BY <1>1, BeginInv DEF Fetch
<1>2. CASE \E w \in Callers : Fetched(w)
  BY <1>2, JudgeInv DEF Fetched
<1>3. CASE \E w \in Callers : Counted(w)
  BY <1>3, RecordInv DEF Counted
<1>4. CASE Timers \/ UNCHANGED vars \/ \E h \in Handlers : Post(h) \/ Handle(h)
  BY <1>4, BreakerTimerInv DEF Timers, Post, Handle, vars
<1> QED
  BY <1>1, <1>2, <1>3, <1>4 DEF Next

\* The breaker's counters, its own and the library's, agree about the probes of
\* the half-open state (IsSuccessful, OnStateChange), and the limiters about the
\* addresses.
THEOREM CallsInvariant == Spec => []IndInv
<1>1. Init => IndInv
  BY BreakerInitInv, LimiterInitInv DEF Init, IndInv
<1>2. IndInv /\ [Next]_vars => IndInv'
  BY BreakerStep, CallStep DEF IndInv
<1> QED
  BY <1>1, <1>2, PTL DEF Spec

\* The breaker leaves the half-open state as a probe is recorded.
LEMMA LeavesAsRecorded ==
    ASSUME BreakerInv, [Next]_vars, state = "half-open", state' # "half-open"
    PROVE  \E c \in ProbesJudged :
              \/ calls[c].verdict /\ successes + 1 >= Permitted /\ state' = "closed"
              \/ ~ calls[c].verdict /\ state' = "open"
<1>1. PICK c \in Callers : Record(c)
  <2>1. \A w \in Callers : ~ Fetch(w)
    BY DEF Fetch, Begin
  <2>2. \A w \in Callers : ~ Fetched(w)
    BY DEF Fetched, Judge
  <2>3. ~ Timers /\ \A h \in Handlers : ~ Post(h) /\ ~ Handle(h)
    BY DEF Timers, Wait, WindowMoves, Post, Handle, breakerVars
  <2>4. state' # state
    OBVIOUS
  <2> QED
    BY <2>1, <2>2, <2>3, <2>4 DEF Next, Counted, vars, breakerVars
<1>2. Current = state
  BY DEF Current
<1>3. calls[c].fresh /\ calls[c].at = "judged"
  BY <1>1, <1>2 DEF Record
<1>4. c \in ProbesJudged
  BY <1>3 DEF ProbesJudged
<1> QED
  BY <1>1, <1>2, <1>3, <1>4 DEF Record, Turns, Enter

\* A half-open state ends with the verdict that its probes deserve, all
\* Permitted of them and nothing but them, unless a call of an earlier state
\* was judged among them: although IsSuccessful counts outside the library's
\* lock, the counters of the two never disagree.
THEOREM BreakerDecidesOnItsProbes == Spec => DecidesOnItsProbes
<1>1. ASSUME IndInv, [Next]_vars
      PROVE  [state = "half-open" /\ state' # "half-open" /\ stragglers = 0 =>
                /\ probes = Permitted
                /\ state' = "closed" <=> probesFailed * 100 <= Threshold * probes
             ]_breakerVars
  <2> SUFFICES ASSUME state = "half-open", state' # "half-open", stragglers = 0
               PROVE  /\ probes = Permitted
                      /\ state' = "closed" <=>
                            probesFailed * 100 <= Threshold * probes
    OBVIOUS
  <2>0. BreakerInv
    BY <1>1 DEF IndInv
  <2>1. PICK c \in ProbesJudged :
           \/ calls[c].verdict /\ successes + 1 >= Permitted /\ state' = "closed"
           \/ ~ calls[c].verdict /\ state' = "open"
    BY <1>1, <2>0, LeavesAsRecorded
  <2>2. TooManyFailed <=> ~ (probesFailed * 100 <= Threshold * probes)
    <3>1. \A m, n \in Nat : m > n <=> ~ (m <= n)
      OBVIOUS
    <3>2. \A m, n \in Nat : m * n \in Nat
      OBVIOUS
    <3>3. probesFailed \in Nat /\ probes \in Nat /\ Threshold \in Nat
      BY <2>0, BreakerAssumption DEF BreakerInv, BreakerTypeOK
    <3>4. probesFailed * 100 \in Nat /\ Threshold * probes \in Nat
      BY <3>2, <3>3
    <3> QED
      BY <3>1, <3>4 DEF TooManyFailed
  <2>3. (\E d \in ProbesJudged : ~ calls[d].verdict)
           <=> (probes = Permitted /\ TooManyFailed)
    BY <2>0 DEF BreakerInv, VerdictsAreSound
  <2>4. CASE ~ calls[c].verdict /\ state' = "open"
    BY <2>2, <2>3, <2>4
  <2>5. CASE calls[c].verdict /\ successes + 1 >= Permitted /\ state' = "closed"
    <3>1. /\ probes = successes + Cardinality(ProbesJudged)
          /\ probes \in 0..Permitted /\ successes \in Nat /\ Permitted \in Nat
      BY <2>0, BreakerAssumption DEF BreakerInv, ProbesAreCounted, BreakerTypeOK
    <3>2. \A d \in ProbesJudged : d = c
      <4> SUFFICES ASSUME NEW d \in ProbesJudged, d # c PROVE FALSE
        OBVIOUS
      <4>1. {c, d} \subseteq ProbesJudged /\ Cardinality({c, d}) = 2
        <5>1. Cardinality({c}) = 1 /\ IsFiniteSet({c})
          BY FS_Singleton
        <5>2. Cardinality({c} \cup {d}) = 2
          <6>1. d \notin {c}
            OBVIOUS
          <6>2. Cardinality({c} \cup {d}) = Cardinality({c}) + 1
            BY <5>1, <6>1, FS_AddElement
          <6> QED
            BY <5>1, <6>2
        <5>3. {c} \cup {d} = {c, d}
          OBVIOUS
        <5> QED
          BY <5>2, <5>3
      <4>2. Cardinality(ProbesJudged) >= 2
        BY <4>1, ProbesAreFew, FS_Subset
      <4> QED
        BY <2>5, <3>1, <4>2, ProbesAreFew
    <3>3. Cardinality(ProbesJudged) # 0
      BY ProbesAreFew, FS_EmptySet
    <3>4. probes = Permitted
      BY <2>5, <3>1, <3>3, ProbesAreFew
    <3> QED
      BY <2>2, <2>3, <2>5, <3>2, <3>4
  <2> QED
    BY <2>1, <2>4, <2>5
<1> QED
  BY <1>1, CallsInvariant, PTL DEF Spec, DecidesOnItsProbes

\* A half-open breaker that lets no more calls through has one of its probes
\* under way, however calls of earlier states return in between: all requests
\* it has admitted are accounted for, and Permitted successes would have
\* closed it.
THEOREM HalfOpenIsNeverStuck == Spec => []VerdictIsComing
<1>1. ASSUME IndInv, state = "half-open", requests >= Permitted
      PROVE  \E c \in Callers : calls[c].fresh /\ calls[c].at # "idle"
  <2>1. /\ requests = probes + Cardinality(ProbesRunning)
        /\ probes = successes + Cardinality(ProbesJudged)
        /\ successes < Permitted
        /\ successes \in Nat /\ Permitted \in Nat
    BY <1>1, BreakerAssumption
    DEF IndInv, BreakerInv, ProbesAreCounted, BreakerTypeOK
  <2>2. ProbesRunning # {} \/ ProbesJudged # {}
    <3>1. Cardinality(ProbesRunning) # 0 \/ Cardinality(ProbesJudged) # 0
      BY <1>1, <2>1
    <3> QED
      BY <3>1, FS_EmptySet
  <2> QED
    BY <2>2 DEF ProbesRunning, ProbesJudged
<1>2. IndInv => VerdictIsComing
  BY <1>1 DEF VerdictIsComing
<1> QED
  BY <1>2, CallsInvariant, PTL
=============================================================================
