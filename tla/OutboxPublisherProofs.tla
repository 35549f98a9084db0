---------------------- MODULE OutboxPublisherProofs ----------------------
(***************************************************************************)
(* Proofs about OutboxPublisher for every set of rows and of runs and for  *)
(* every value of the bounds.                                              *)
(***************************************************************************)
EXTENDS OutboxPublisher, FiniteSetTheorems, TLAPS

\* The row a run goes on with is one of its batch.
LEMMA OldestIsMember ==
    ASSUME NEW S, NEW m \in Oldest(S) PROVE m \in S
BY DEF Oldest

\* A batch read by GetPendingMessages holds PENDING rows only.
LEMMA BatchIsPending ==
    ASSUME NEW B \in PendingBatches
    PROVE  B \subseteq Messages /\ \A m \in B : status[m] = "PENDING"
BY DEF PendingBatches, Pending

\* The table and the runs start empty.
LEMMA InitIndInv == Init => IndInv
BY BoundsAssumption
   DEF Init, IndInv, TypeOK, Status, SentIsPublished, PublishedIsCommitted,
       RunsAreSound

\* No step of the scheduler, of a run or of a crash breaks the invariant.
LEMMA NextIndInv == IndInv /\ [Next]_vars => IndInv'
<1> SUFFICES ASSUME IndInv, [Next]_vars PROVE IndInv'
  OBVIOUS
<1> USE DEF IndInv, TypeOK, Status, SentIsPublished, PublishedIsCommitted,
            RunsAreSound
<1>1. CASE \E ms \in SUBSET Messages : Save(ms)
  BY <1>1 DEF Save
<1>2. CASE \E r \in Runs : Fetch(r)
  <2> PICK r \in Runs : Fetch(r)
    BY <1>2
  <2>1. PICK B \in PendingBatches : todo' = [todo EXCEPT ![r] = B]
    BY DEF Fetch
  <2> QED
    BY <2>1, BatchIsPending DEF Fetch
<1>3. CASE \E r \in Runs : ProduceAcked(r)
  <2> PICK r \in Runs : ProduceAcked(r)
    BY <1>3
  <2>1. PICK m \in Oldest(todo[r]) \ Poison :
          /\ current' = [current EXCEPT ![r] = m]
          /\ copies' = [copies EXCEPT ![m] = @ + 1]
    BY DEF ProduceAcked
  <2>2. m \in todo[r] /\ m \in Messages
    BY <2>1, OldestIsMember
  <2> QED
    BY <2>1, <2>2 DEF ProduceAcked
<1>4. CASE \E r \in Runs : ProduceRefused(r)
  <2> PICK r \in Runs : ProduceRefused(r)
    BY <1>4
  <2>1. PICK m \in Oldest(todo[r]) :
          /\ current' = [current EXCEPT ![r] = m]
          /\ \/ UNCHANGED faults
             \/ faults > 0 /\ faults' = faults - 1
    BY DEF ProduceRefused
  <2>2. m \in todo[r] /\ m \in Messages
    BY <2>1, OldestIsMember
  <2> QED
    BY <2>1, <2>2 DEF ProduceRefused
<1>5. CASE \E r \in Runs : ProduceAckLost(r)
  <2> PICK r \in Runs : ProduceAckLost(r)
    BY <1>5
  <2>1. PICK m \in Oldest(todo[r]) \ Poison :
          /\ current' = [current EXCEPT ![r] = m]
          /\ copies' = [copies EXCEPT ![m] = @ + 1]
    BY DEF ProduceAckLost
  <2>2. m \in todo[r] /\ m \in Messages
    BY <2>1, OldestIsMember
  <2> QED
    BY <2>1, <2>2 DEF ProduceAckLost
<1>6. CASE \E r \in Runs : Mark(r)
  <2> PICK r \in Runs : Mark(r)
    BY <1>6
  <2>1. current[r] \in todo[r] /\ current[r] \in Messages
    BY DEF Mark
  <2>2. CASE pc[r] = "acked" /\ MarkAsSent(current[r])
    BY <2>1, <2>2 DEF Mark, MarkAsSent, Advance
  <2>3. CASE pc[r] = "failed" /\ MarkPublishFailed(current[r])
    <3>1. attempts' \in [Messages -> Nat]
      BY <2>1, <2>3 DEF MarkPublishFailed
    <3> QED
      BY <2>1, <2>3, <3>1 DEF Mark, MarkPublishFailed, Advance
  <2> QED
    BY <2>2, <2>3 DEF Mark
<1>7. CASE \E r \in Runs : MarkError(r)
  BY <1>7 DEF MarkError, Advance
<1>8. CASE Crash
  BY <1>8 DEF Crash
<1>9. CASE UNCHANGED vars
  BY <1>9 DEF vars
<1> QED
  BY <1>1, <1>2, <1>3, <1>4, <1>5, <1>6, <1>7, <1>8, <1>9
  DEF Next, RunStep, Produce

\* The publisher never loses the types of its table, and what it marks SENT
\* was published, what it published was committed.
THEOREM PublisherInvariant == Spec => []IndInv
BY InitIndInv, NextIndInv, PTL DEF Spec

\* A row marked SENT is in the topic, for any number of overlapping runs and
\* any number of failures and crashes.
THEOREM SentRowsArePublished == Spec => []SentIsPublished
<1>1. IndInv => SentIsPublished
  BY DEF IndInv
<1> QED
  BY <1>1, PublisherInvariant, PTL

\* No step takes a row out of SENT.
THEOREM SentStaysSent == Spec => SentIsFinal
<1>1. ASSUME IndInv, [Next]_vars
      PROVE  [\A m \in Messages : status[m] = "SENT" => status'[m] = "SENT"]_vars
  <2>1. CASE \E ms \in SUBSET Messages : Save(ms)
    BY <2>1 DEF Save
  <2>2. CASE \E r \in Runs : Mark(r)
    BY <1>1, <2>2 DEF Mark, MarkAsSent, MarkPublishFailed, IndInv, TypeOK
  <2> QED
    BY <1>1, <2>1, <2>2
    DEF Next, RunStep, Produce, Fetch, ProduceAcked, ProduceRefused,
        ProduceAckLost, MarkError, Crash, vars
<1> QED
  BY <1>1, PublisherInvariant, PTL DEF Spec, SentIsFinal

\* Once a row is SENT and in no batch, no run selects or publishes it again.
THEOREM SettledRowsStayPut == Spec => SettledForGood
<1>1. ASSUME IndInv, [Next]_vars
      PROVE  [\A m \in Messages :
                (status[m] = "SENT" /\ \A r \in Runs : m \notin todo[r])
                   => /\ copies'[m] = copies[m]
                      /\ \A r \in Runs : m \notin todo'[r]]_vars
  <2> USE <1>1 DEF IndInv, TypeOK
  <2>1. CASE \E r \in Runs : Fetch(r)
    BY <2>1, BatchIsPending DEF Fetch
  <2>2. CASE \E r \in Runs : ProduceAcked(r)
    BY <2>2, OldestIsMember DEF ProduceAcked
  <2>3. CASE \E r \in Runs : ProduceAckLost(r)
    BY <2>3, OldestIsMember DEF ProduceAckLost
  <2> QED
    BY <2>1, <2>2, <2>3
    DEF Next, RunStep, Produce, Save, ProduceRefused, Mark, MarkError,
        Advance, Crash, vars
<1> QED
  BY <1>1, PublisherInvariant, PTL DEF Spec, SettledForGood

\* The outbox implements the hop: each of its steps accepts, relays or
\* settles rows, or leaves the three sets alone.
THEOREM OutboxImplementsHop == Spec => ImplementsHop
<1> DEFINE acc == {m \in Messages : status[m] # "absent"}
           rel == {m \in Messages : copies[m] > 0}
           set == {m \in Messages : status[m] = "SENT"}
<1>1. Init => Hop!Init
  BY DEF Init, Hop!Init
<1>2. ASSUME IndInv, [Next]_vars PROVE [Hop!Next]_(Hop!vars)
  <2> USE <1>2 DEF IndInv, TypeOK, Status
  <2>1. CASE \E ms \in SUBSET Messages : Save(ms)
    <3> PICK ms \in SUBSET Messages : Save(ms)
      BY <2>1
    <3>1. acc' = acc \cup ms /\ rel' = rel /\ set' = set
      BY DEF Save
    <3>2. Hop!Accept(ms)
      BY <3>1 DEF Hop!Accept
    <3> QED
      BY <3>2 DEF Hop!Next
  <2>2. CASE \E r \in Runs : ProduceAcked(r) \/ ProduceAckLost(r)
    <3> PICK r \in Runs : ProduceAcked(r) \/ ProduceAckLost(r)
      BY <2>2
    <3>1. PICK m \in Oldest(todo[r]) \ Poison :
            copies' = [copies EXCEPT ![m] = @ + 1]
      BY DEF ProduceAcked, ProduceAckLost
    <3>2. m \in acc
      BY <3>1, OldestIsMember DEF RunsAreSound
    <3>3. rel' = rel \cup {m} /\ acc' = acc /\ set' = set
      BY <3>1, <3>2 DEF ProduceAcked, ProduceAckLost
    <3>4. Hop!Relay({m})
      BY <3>2, <3>3 DEF Hop!Relay
    <3> QED
      BY <3>2, <3>4 DEF Hop!Next
  <2>3. CASE \E r \in Runs : Mark(r)
    <3> PICK r \in Runs : Mark(r)
      BY <2>3
    <3>1. PICK m \in Messages : m = current[r]
      BY DEF Mark, RunsAreSound
    <3>2. CASE pc[r] = "acked" /\ MarkAsSent(current[r])
      <4>1. m \in rel /\ m \in acc
        BY <3>1, <3>2 DEF RunsAreSound
      <4>2. set' = set \cup {m} /\ rel' = rel /\ acc' = acc
        BY <3>1, <3>2, <4>1 DEF Mark, MarkAsSent
      <4>3. Hop!Settle({m})
        BY <4>1, <4>2 DEF Hop!Settle
      <4> QED
        BY <4>3 DEF Hop!Next
    <3>3. CASE pc[r] = "failed" /\ MarkPublishFailed(current[r])
      BY <3>3 DEF Mark, MarkPublishFailed, Hop!vars
    <3> QED
      BY <3>2, <3>3 DEF Mark
  <2>4. CASE UNCHANGED <<status, copies>>
    BY <2>4 DEF Hop!vars
  <2> QED
    BY <2>1, <2>2, <2>3, <2>4
    DEF Next, RunStep, Produce, Fetch, ProduceRefused, MarkError, Crash, vars
<1> QED
  BY <1>1, <1>2, PublisherInvariant, PTL DEF Spec, ImplementsHop, Hop!Spec
---------------------------------------------------------------------------
(* The duplicates are bounded. *)

\* The runs that can publish row m once more before another fault: those
\* that still have it before them, and, while it is not SENT, those that are
\* not about to mark it.
CanRepeat(m) ==
    IF status[m] = "SENT"
    THEN {r \in Runs : /\ m \in todo[r]
                       /\ pc[r] \in {"acked", "failed"} => current[r] # m}
    ELSE {r \in Runs : pc[r] = "acked" => current[r] # m}

\* What the failures up to now and the present selection allow.
Allowance == Cardinality(Runs) * (1 + MaxFaults - faults)

CopiesAreCounted ==
    /\ faults <= MaxFaults
    /\ \A m \in Messages : copies[m] + Cardinality(CanRepeat(m)) <= Allowance

\* The runs that can repeat a row are some of the runs.
LEMMA RepeatersAreRuns ==
    ASSUME NEW m \in Messages
    PROVE  /\ CanRepeat(m) \subseteq Runs /\ IsFiniteSet(CanRepeat(m))
           /\ Cardinality(Runs) \in Nat /\ Cardinality(CanRepeat(m)) \in Nat
           /\ Cardinality(CanRepeat(m)) <= Cardinality(Runs)
<1>1. CanRepeat(m) \subseteq Runs
  BY DEF CanRepeat
<1> QED
  BY <1>1, RunsAssumption, FS_Subset, FS_CardinalityType

\* A fault allows every run to publish a row once more.
LEMMA AllowanceGrows ==
    ASSUME TypeOK, faults <= MaxFaults
    PROVE  /\ Allowance \in Nat
           /\ UNCHANGED faults => Allowance' = Allowance
           /\ faults > 0 /\ faults' = faults - 1
                 => Allowance' = Allowance + Cardinality(Runs)
<1>1. /\ Cardinality(Runs) \in Nat /\ faults \in Nat /\ MaxFaults \in Nat
      /\ 1 + MaxFaults - faults \in Nat
  BY RunsAssumption, FS_CardinalityType, BoundsAssumption DEF TypeOK
<1>2. \A n, k \in Nat : n * k \in Nat /\ n * (k + 1) = n * k + n
  OBVIOUS
<1>3. ASSUME faults > 0, faults' = faults - 1
      PROVE  Allowance' = Allowance + Cardinality(Runs)
  <2>1. 1 + MaxFaults - faults' = (1 + MaxFaults - faults) + 1
    BY <1>1, <1>3
  <2> QED
    BY <1>1, <1>2, <2>1 DEF Allowance
<1> QED
  BY <1>1, <1>2, <1>3 DEF Allowance

\* A step without a new copy and without a new repeater keeps the count.
LEMMA NoMoreCopies ==
    ASSUME TypeOK, CopiesAreCounted, faults' <= MaxFaults,
           NEW m \in Messages, copies'[m] = copies[m],
           CanRepeat(m)' \subseteq CanRepeat(m),
           \/ UNCHANGED faults
           \/ faults > 0 /\ faults' = faults - 1
    PROVE  copies'[m] + Cardinality(CanRepeat(m)') <= Allowance'
<1>1. /\ Cardinality(CanRepeat(m)') \in Nat
      /\ Cardinality(CanRepeat(m)') <= Cardinality(CanRepeat(m))
  BY RepeatersAreRuns, FS_Subset, FS_CardinalityType
<1>2. /\ Cardinality(CanRepeat(m)) \in Nat /\ Cardinality(Runs) \in Nat
      /\ copies[m] \in Nat
  BY RepeatersAreRuns DEF TypeOK
<1>3. /\ copies[m] + Cardinality(CanRepeat(m)) <= Allowance
      /\ Allowance \in Nat /\ Allowance' \in Nat /\ Allowance <= Allowance'
  BY <1>2, AllowanceGrows DEF CopiesAreCounted
<1> QED
  BY <1>1, <1>2, <1>3

\* A fault may make every run a repeater again.
LEMMA FaultRefills ==
    ASSUME TypeOK, CopiesAreCounted, faults > 0, faults' = faults - 1,
           NEW m \in Messages, copies'[m] = copies[m]
    PROVE  copies'[m] + Cardinality(CanRepeat(m)') <= Allowance'
<1>1. CanRepeat(m)' \subseteq Runs
  BY DEF CanRepeat
<1>2. /\ Cardinality(CanRepeat(m)') \in Nat
      /\ Cardinality(CanRepeat(m)') <= Cardinality(Runs)
  BY <1>1, RunsAssumption, FS_Subset, FS_CardinalityType
<1>3. /\ Cardinality(CanRepeat(m)) \in Nat /\ Cardinality(Runs) \in Nat
      /\ copies[m] \in Nat
  BY RepeatersAreRuns DEF TypeOK
<1>4. /\ copies[m] + Cardinality(CanRepeat(m)) <= Allowance
      /\ Allowance \in Nat /\ Allowance' = Allowance + Cardinality(Runs)
  BY AllowanceGrows DEF CopiesAreCounted
<1> QED
  BY <1>2, <1>3, <1>4

\* Every step preserves the count: an acknowledged copy takes its run out of
\* the repeaters of the row, and only a fault brings a run back.
LEMMA NextCopiesAreCounted ==
    ASSUME IndInv, CopiesAreCounted, [Next]_vars
    PROVE  CopiesAreCounted'
<1>0. TypeOK /\ TypeOK'
  BY NextIndInv DEF IndInv
<1>1. /\ faults \in Nat /\ MaxFaults \in Nat /\ faults <= MaxFaults
      /\ UNCHANGED faults \/ (faults > 0 /\ faults' = faults - 1)
      /\ faults' <= MaxFaults
  <2>1. UNCHANGED faults \/ (faults > 0 /\ faults' = faults - 1)
    BY DEF Next, RunStep, Produce, Save, Fetch, ProduceAcked, ProduceRefused,
           ProduceAckLost, Mark, MarkError, Crash, vars
  <2>2. faults \in Nat /\ MaxFaults \in Nat /\ faults <= MaxFaults
    BY <1>0, BoundsAssumption DEF TypeOK, CopiesAreCounted
  <2> QED
    BY <2>1, <2>2
<1>2. ASSUME NEW m \in Messages, copies'[m] = copies[m],
             CanRepeat(m)' \subseteq CanRepeat(m)
      PROVE  copies'[m] + Cardinality(CanRepeat(m)') <= Allowance'
  BY <1>0, <1>1, <1>2, NoMoreCopies
<1>3. ASSUME NEW m \in Messages, UNCHANGED copies, faults > 0,
             faults' = faults - 1
      PROVE  copies'[m] + Cardinality(CanRepeat(m)') <= Allowance'
  BY <1>0, <1>3, FaultRefills
<1> SUFFICES ASSUME NEW m \in Messages
             PROVE  copies'[m] + Cardinality(CanRepeat(m)') <= Allowance'
  BY <1>1 DEF CopiesAreCounted
<1>4. CASE \E ms \in SUBSET Messages : Save(ms)
  <2>1. /\ UNCHANGED <<copies, pc, todo, current>>
        /\ status[m] = "SENT" <=> status'[m] = "SENT"
    BY <1>0, <1>4 DEF Save, TypeOK
  <2>2. CanRepeat(m)' = CanRepeat(m)
    BY <2>1 DEF CanRepeat
  <2> QED
    BY <1>2, <2>1, <2>2
<1>5. CASE \E r \in Runs : Fetch(r)
  <2> PICK r \in Runs : Fetch(r)
    BY <1>5
  <2>1. PICK B \in PendingBatches : todo' = [todo EXCEPT ![r] = B]
    BY DEF Fetch
  <2>2. /\ UNCHANGED <<status, copies, current>>
        /\ pc[r] = "idle" /\ pc' = [pc EXCEPT ![r] = "produce"]
    BY DEF Fetch
  <2>3. status[m] = "SENT" => m \notin B
    BY BatchIsPending
  <2>4. CanRepeat(m)' \subseteq CanRepeat(m)
    BY <1>0, <2>1, <2>2, <2>3 DEF CanRepeat, TypeOK
  <2> QED
    BY <1>2, <2>2, <2>4
<1>6. CASE \E r \in Runs : ProduceAcked(r)
  <2> PICK r \in Runs : ProduceAcked(r)
    BY <1>6
  <2>1. PICK x \in Oldest(todo[r]) \ Poison :
          /\ current' = [current EXCEPT ![r] = x]
          /\ copies' = [copies EXCEPT ![x] = @ + 1]
    BY DEF ProduceAcked
  <2>2. /\ UNCHANGED <<status, todo, faults>>
        /\ pc[r] = "produce" /\ pc' = [pc EXCEPT ![r] = "acked"]
        /\ x \in todo[r] /\ x \in Messages
    BY <1>0, <2>1, OldestIsMember DEF ProduceAcked, TypeOK
  <2>3. CASE m # x
    <3>1. copies'[m] = copies[m]
      BY <1>0, <2>1, <2>3 DEF TypeOK
    <3>2. CanRepeat(m)' \subseteq CanRepeat(m)
      BY <1>0, <2>1, <2>2, <2>3 DEF CanRepeat, TypeOK
    <3> QED
      BY <1>2, <3>1, <3>2
  <2>4. CASE m = x
    <3>1. r \in CanRepeat(m)
      BY <2>2, <2>4 DEF CanRepeat
    <3>2. CanRepeat(m)' = CanRepeat(m) \ {r}
      BY <1>0, <2>1, <2>2, <2>4 DEF CanRepeat, TypeOK
    <3>3. Cardinality(CanRepeat(m)') = Cardinality(CanRepeat(m)) - 1
      BY <3>1, <3>2, RepeatersAreRuns, FS_RemoveElement
    <3>4. copies'[m] = copies[m] + 1 /\ copies[m] \in Nat
      BY <1>0, <2>1, <2>2, <2>4 DEF TypeOK
    <3>5. /\ copies[m] + Cardinality(CanRepeat(m)) <= Allowance
          /\ Allowance \in Nat /\ Allowance' = Allowance
          /\ Cardinality(CanRepeat(m)) \in Nat
      BY <1>0, <2>2, AllowanceGrows, RepeatersAreRuns DEF CopiesAreCounted
    <3> QED
      BY <3>3, <3>4, <3>5
  <2> QED
    BY <2>3, <2>4
<1>7. CASE \E r \in Runs : ProduceRefused(r)
  <2> PICK r \in Runs : ProduceRefused(r)
    BY <1>7
  <2>1. PICK x \in Oldest(todo[r]) : current' = [current EXCEPT ![r] = x]
    BY DEF ProduceRefused
  <2>2. /\ UNCHANGED <<status, todo, copies>>
        /\ pc[r] = "produce" /\ pc' = [pc EXCEPT ![r] = "failed"]
    BY DEF ProduceRefused
  <2>3. CanRepeat(m)' \subseteq CanRepeat(m)
    BY <1>0, <2>1, <2>2 DEF CanRepeat, TypeOK
  <2> QED
    BY <1>2, <2>2, <2>3
<1>8. CASE \E r \in Runs : ProduceAckLost(r)
  <2> PICK r \in Runs : ProduceAckLost(r)
    BY <1>8
  <2>1. PICK x \in Oldest(todo[r]) \ Poison :
          /\ current' = [current EXCEPT ![r] = x]
          /\ copies' = [copies EXCEPT ![x] = @ + 1]
    BY DEF ProduceAckLost
  <2>2. /\ UNCHANGED <<status, todo>> /\ faults > 0 /\ faults' = faults - 1
        /\ pc[r] = "produce" /\ pc' = [pc EXCEPT ![r] = "failed"]
        /\ x \in Messages
    BY <1>0, <2>1, OldestIsMember DEF ProduceAckLost, TypeOK
  <2>3. CanRepeat(m)' \subseteq CanRepeat(m)
    BY <1>0, <2>1, <2>2 DEF CanRepeat, TypeOK
  <2>4. /\ Cardinality(CanRepeat(m)') \in Nat
        /\ Cardinality(CanRepeat(m)') <= Cardinality(CanRepeat(m))
    BY <2>3, RepeatersAreRuns, FS_Subset, FS_CardinalityType
  <2>5. copies[m] \in Nat /\ copies'[m] \in {copies[m], copies[m] + 1}
    BY <1>0, <2>1, <2>2 DEF TypeOK
  <2>6. Cardinality(Runs) \in Nat /\ Cardinality(Runs) >= 1
    <3>1. Cardinality(Runs) # 0
      BY RunsAssumption, FS_EmptySet
    <3> QED
      BY <3>1, RepeatersAreRuns
  <2>7. /\ copies[m] + Cardinality(CanRepeat(m)) <= Allowance
        /\ Allowance \in Nat /\ Allowance' = Allowance + Cardinality(Runs)
        /\ Cardinality(CanRepeat(m)) \in Nat
    BY <1>0, <2>2, AllowanceGrows, RepeatersAreRuns DEF CopiesAreCounted
  <2> QED
    BY <2>4, <2>5, <2>6, <2>7
<1>9. CASE \E r \in Runs : Mark(r)
  <2> PICK r \in Runs : Mark(r)
    BY <1>9
  <2>1. /\ current[r] \in todo[r] /\ current[r] \in Messages
        /\ pc[r] \in {"acked", "failed"} /\ UNCHANGED copies
        /\ todo' = [todo EXCEPT ![r] = @ \ {current[r]}]
        /\ current' = [current EXCEPT ![r] = None]
        /\ pc' = [pc EXCEPT ![r] = IF todo[r] = {current[r]}
                                    THEN "idle" ELSE "produce"]
    BY DEF Mark, Advance, IndInv, RunsAreSound, TypeOK
  <2>2. /\ \A q \in Runs \ {r} : /\ pc'[q] = pc[q] /\ todo'[q] = todo[q]
                                 /\ current'[q] = current[q]
        /\ pc'[r] \notin {"acked", "failed"}
        /\ todo'[r] = todo[r] \ {current[r]}
    BY <1>0, <2>1 DEF TypeOK
  <2>3. CASE pc[r] = "acked" /\ MarkAsSent(current[r])
    <3>1. status' = [status EXCEPT ![current[r]] = "SENT"]
      BY <2>3 DEF MarkAsSent
    <3>2. CASE m = current[r]
      <4>1. status'[m] = "SENT"
        BY <1>0, <2>1, <3>1, <3>2 DEF TypeOK
      <4>2. CanRepeat(m)' \subseteq CanRepeat(m)
        BY <2>2, <3>2, <4>1 DEF CanRepeat
      <4> QED
        BY <1>2, <2>1, <4>2
    <3>3. CASE m # current[r]
      <4>1. status'[m] = status[m]
        BY <1>0, <3>1, <3>3 DEF TypeOK
      <4>2. CanRepeat(m)' \subseteq CanRepeat(m)
        BY <2>2, <3>3, <4>1 DEF CanRepeat
      <4> QED
        BY <1>2, <2>1, <4>2
    <3> QED
      BY <3>2, <3>3
  <2>4. CASE pc[r] = "failed" /\ MarkPublishFailed(current[r])
    <3>1. UNCHANGED status
      BY <2>4 DEF MarkPublishFailed
    <3>2. CanRepeat(m)' \subseteq CanRepeat(m)
      BY <2>2, <2>4, <3>1 DEF CanRepeat
    <3> QED
      BY <1>2, <2>1, <3>2
  <2> QED
    BY <2>3, <2>4 DEF Mark
<1>10. CASE (\E r \in Runs : MarkError(r)) \/ Crash
  BY <1>3, <1>10 DEF MarkError, Crash
<1>11. CASE UNCHANGED vars
  <2>1. CanRepeat(m)' = CanRepeat(m)
    BY <1>11 DEF vars, CanRepeat
  <2> QED
    BY <1>2, <1>11, <2>1 DEF vars
<1> QED
  BY <1>4, <1>5, <1>6, <1>7, <1>8, <1>9, <1>10, <1>11
  DEF Next, RunStep, Produce

\* The topic holds a row at most once for every run that PublishPending may
\* have in progress, and as many times again for every failed call or crash:
\* without a failure no run publishes a row twice (ProduceRaw, MarkAsSent).
THEOREM DuplicatesHaveABound == Spec => []DuplicatesAreBounded
<1>1. Init => CopiesAreCounted
  <2> SUFFICES ASSUME Init, NEW m \in Messages
               PROVE  /\ faults <= MaxFaults
                      /\ copies[m] + Cardinality(CanRepeat(m)) <= Allowance
    BY BoundsAssumption DEF Init, CopiesAreCounted
  <2>1. TypeOK
    BY InitIndInv DEF IndInv
  <2>2. faults = MaxFaults /\ copies[m] = 0 /\ MaxFaults \in Nat
    BY BoundsAssumption DEF Init
  <2>3. /\ Cardinality(CanRepeat(m)) <= Cardinality(Runs)
        /\ Cardinality(Runs) \in Nat /\ Cardinality(CanRepeat(m)) \in Nat
    BY RepeatersAreRuns
  <2>4. 1 + MaxFaults - faults = 1 /\ Allowance = Cardinality(Runs)
    BY <2>2, <2>3 DEF Allowance
  <2> QED
    BY <2>2, <2>3, <2>4
<1>2. IndInv /\ CopiesAreCounted /\ [Next]_vars => CopiesAreCounted'
  BY NextCopiesAreCounted
<1>3. IndInv /\ CopiesAreCounted => DuplicatesAreBounded
  <2> SUFFICES ASSUME IndInv, CopiesAreCounted, NEW m \in Messages
               PROVE  copies[m] <= Allowance
    BY DEF DuplicatesAreBounded, Allowance
  <2> QED
    BY RepeatersAreRuns, AllowanceGrows DEF IndInv, TypeOK, CopiesAreCounted
<1> QED
  BY <1>1, <1>2, <1>3, PublisherInvariant, PTL DEF Spec

---------------------------------------------------------------------------
(* Starvation behind the rows that the broker refuses. *)

\* The rows in the way of a row are finitely many.
LEMMA StuckRowsAreFew ==
    ASSUME NEW m \in Messages
    PROVE  /\ StuckBefore(m) \subseteq Pending /\ m \notin StuckBefore(m)
           /\ IsFiniteSet(Pending) /\ IsFiniteSet(StuckBefore(m))
           /\ Cardinality(StuckBefore(m)) \in Nat
<1>1. StuckBefore(m) \subseteq Pending /\ Pending \subseteq Messages
  BY DEF StuckBefore, Pending
<1>2. m \notin StuckBefore(m)
  BY CreatedAtAssumption DEF StuckBefore
<1> QED
  BY <1>1, <1>2, MessagesAssumption, FS_Subset, FS_CardinalityType

\* A batch is as large as LIMIT allows.
LEMMA BatchSizes ==
    ASSUME NEW B \in PendingBatches
    PROVE  /\ B \subseteq Pending /\ IsFiniteSet(B) /\ Cardinality(B) \in Nat
           /\ Cardinality(B) <= BatchSize
           /\ B = Pending \/ Cardinality(B) = BatchSize
<1>1. B \subseteq Pending /\ Pending \subseteq Messages
  BY DEF PendingBatches, Pending
<1>2. /\ IsFiniteSet(Pending) /\ IsFiniteSet(B)
      /\ Cardinality(Pending) \in Nat /\ Cardinality(B) \in Nat
      /\ Cardinality(B) = Cardinality(Pending) => B = Pending
  BY <1>1, MessagesAssumption, FS_Subset, FS_CardinalityType
<1>3. Cardinality(B) = IF Cardinality(Pending) < BatchSize
                       THEN Cardinality(Pending) ELSE BatchSize
  BY DEF PendingBatches
<1> QED
  BY <1>1, <1>2, <1>3, BoundsAssumption

\* So no batch holds a starved row.
LEMMA StarvedIsNotRead ==
    ASSUME NEW m \in Messages, Starved(m), NEW B \in PendingBatches
    PROVE  m \notin B
<1> SUFFICES ASSUME m \in B PROVE FALSE
  OBVIOUS
<1> DEFINE S == StuckBefore(m)
<1>1. S \subseteq B
  <2> SUFFICES ASSUME NEW p \in S, p \notin B PROVE FALSE
    OBVIOUS
  <2>1. p \in Pending \ B /\ p \in Messages /\ CreatedAt[p] < CreatedAt[m]
    BY StuckRowsAreFew DEF StuckBefore, Pending
  <2>2. CreatedAt[m] <= CreatedAt[p]
    BY <2>1 DEF PendingBatches
  <2> QED
    BY <2>1, <2>2, CreatedAtAssumption
<1>2. S \cup {m} \subseteq B /\ m \notin S /\ IsFiniteSet(S) /\ Cardinality(S) \in Nat
  BY <1>1, StuckRowsAreFew
<1>3. IsFiniteSet(S \cup {m}) /\ Cardinality(S \cup {m}) = Cardinality(S) + 1
  BY <1>2, FS_AddElement
<1>4. Cardinality(S \cup {m}) <= Cardinality(B)
  BY <1>2, BatchSizes, FS_Subset
<1>5. Cardinality(B) <= BatchSize /\ Cardinality(B) \in Nat /\ BatchSize <= Cardinality(S)
  BY BatchSizes DEF Starved
<1> HIDE DEF S
<1> QED
  BY <1>2, <1>3, <1>4, <1>5, BoundsAssumption

\* No copy of a row that the broker refuses gets into the topic.
PoisonIsStuck == \A p \in Poison : copies[p] = 0

LEMMA NextPoisonIsStuck ==
    ASSUME TypeOK, PoisonIsStuck, [Next]_vars PROVE PoisonIsStuck'
<1>1. \/ UNCHANGED copies
      \/ \E m \in Messages \ Poison : copies' = [copies EXCEPT ![m] = @ + 1]
  <2>1. ASSUME NEW r \in Runs, RunStep(r)
        PROVE  \/ UNCHANGED copies
               \/ \E m \in Messages \ Poison : copies' = [copies EXCEPT ![m] = @ + 1]
    <3>1. todo[r] \subseteq Messages
      BY DEF TypeOK
    <3> QED
      BY <2>1, <3>1, OldestIsMember
      DEF RunStep, Produce, ProduceAcked, ProduceRefused, ProduceAckLost,
          Mark, MarkError
  <2> QED
    BY <2>1 DEF Next, Save, Fetch, Crash, vars
<1> QED
  BY <1>1, PoisonAssumption DEF PoisonIsStuck, TypeOK

\* A row that is starved stays so: the rows before it stay PENDING, no run
\* selects it, and only a run that has it publishes or marks it.
LEMMA NextStarved ==
    ASSUME IndInv, PoisonIsStuck, [Next]_vars, NEW m \in Messages, Starved(m)
    PROVE  Starved(m)' /\ copies'[m] = copies[m]
<1> USE DEF IndInv, TypeOK
<1>1. \A p \in Messages : status[p] = "PENDING" /\ status'[p] # "PENDING"
         => \E r \in Runs : p \in todo[r] /\ p \notin Poison
  <2> SUFFICES ASSUME NEW p \in Messages,
                      status[p] = "PENDING", status'[p] # "PENDING"
               PROVE  \E r \in Runs : p \in todo[r] /\ p \notin Poison
    OBVIOUS
  <2>1. PICK r \in Runs : Mark(r) /\ pc[r] = "acked" /\ MarkAsSent(current[r])
    BY DEF Next, Save, Fetch, RunStep, Produce, ProduceAcked, ProduceRefused,
       ProduceAckLost, Mark, MarkPublishFailed, MarkError, Crash, vars
  <2>2. current[r] \in todo[r] /\ copies[current[r]] > 0
    BY <2>1 DEF RunsAreSound
  <2>3. p = current[r]
    BY <2>1 DEF MarkAsSent
  <2> QED
    BY <2>1, <2>2, <2>3 DEF PoisonIsStuck
<1>2. status'[m] = "PENDING"
  BY <1>1 DEF Starved
<1>3. StuckBefore(m) \subseteq StuckBefore(m)'
  BY <1>1, PoisonAssumption DEF StuckBefore, Pending
<1>4. BatchSize <= Cardinality(StuckBefore(m)')
  <2>1. /\ IsFiniteSet(StuckBefore(m)') /\ Cardinality(StuckBefore(m)') \in Nat
        /\ Cardinality(StuckBefore(m)) \in Nat
    <3>1. StuckBefore(m)' \subseteq Messages
      BY PoisonAssumption DEF StuckBefore
    <3> QED
      BY <3>1, MessagesAssumption, StuckRowsAreFew, FS_Subset, FS_CardinalityType
  <2>2. Cardinality(StuckBefore(m)) <= Cardinality(StuckBefore(m)')
    BY <1>3, <2>1, FS_Subset
  <2> QED
    BY <2>1, <2>2, BoundsAssumption DEF Starved
<1>5. \A r \in Runs : m \notin todo'[r]
  <2>1. ASSUME NEW r \in Runs, Fetch(r) PROVE \A q \in Runs : m \notin todo'[q]
    <3>1. PICK B \in PendingBatches : todo' = [todo EXCEPT ![r] = B]
      BY <2>1 DEF Fetch
    <3>2. m \notin B
      BY StarvedIsNotRead
    <3> QED
      BY <3>1, <3>2 DEF Starved
  <2>2. ASSUME NEW r \in Runs, RunStep(r) PROVE \A q \in Runs : todo'[q] \subseteq todo[q]
    BY <2>2 DEF RunStep, Produce, ProduceAcked, ProduceRefused, ProduceAckLost,
       Mark, MarkError, Advance
  <2> QED
    BY <2>1, <2>2 DEF Next, Save, Crash, vars, Starved
<1>6. copies'[m] = copies[m]
  <2>1. ASSUME NEW r \in Runs, RunStep(r) PROVE copies'[m] = copies[m]
    <3>1. m \notin Oldest(todo[r])
      BY OldestIsMember DEF Starved
    <3> QED
      BY <2>1, <3>1 DEF RunStep, Produce, ProduceAcked, ProduceRefused,
         ProduceAckLost, Mark, MarkError
  <2> QED
    BY <2>1 DEF Next, Save, Fetch, Crash, vars
<1> QED
  BY <1>2, <1>4, <1>5, <1>6 DEF Starved

\* As many refused rows as a batch has places, all older than a row, starve it
\* for ever: for any number of rows, runs, faults and restarts.
THEOREM StarvedRowsStayStarved == Spec => StarvationIsForGood
<1>1. Init => PoisonIsStuck
  BY PoisonAssumption DEF Init, PoisonIsStuck
<1>2. IndInv /\ PoisonIsStuck /\ [Next]_vars => PoisonIsStuck'
  BY NextPoisonIsStuck DEF IndInv
<1>3. IndInv /\ PoisonIsStuck /\ [Next]_vars
         => [\A m \in Messages :
                Starved(m) => Starved(m)' /\ copies'[m] = copies[m]]_vars
  BY NextStarved
<1> QED
  BY <1>1, <1>2, <1>3, PublisherInvariant, PTL DEF Spec, StarvationIsForGood

\* With fewer refused rows than places in a batch every batch makes progress
\* with the others, the oldest first: in every state.
THEOREM GoodRowsAreReached == Spec => []BatchesReachGoodRows
<1>1. BatchesReachGoodRows
  <2> SUFFICES ASSUME Cardinality(Poison) < BatchSize,
                      NEW B \in PendingBatches, NEW m \in Pending \ Poison
               PROVE  \E n \in B \ Poison : CreatedAt[n] <= CreatedAt[m]
    BY DEF BatchesReachGoodRows
  <2>1. CASE m \in B
    <3>1. CreatedAt[m] \in Nat
      BY CreatedAtAssumption DEF Pending
    <3> QED
      BY <2>1, <3>1
  <2>2. CASE m \notin B
    <3>1. Cardinality(B) = BatchSize
      BY <2>2, BatchSizes
    <3>2. ~(B \subseteq Poison)
      <4>1. IsFiniteSet(Poison) /\ Cardinality(Poison) \in Nat
        BY MessagesAssumption, PoisonAssumption, FS_Subset, FS_CardinalityType
      <4>2. B \subseteq Poison => Cardinality(B) <= Cardinality(Poison)
        BY <4>1, FS_Subset
      <4> QED
        BY <3>1, <4>1, <4>2, BoundsAssumption
    <3>3. PICK n \in B : n \notin Poison
      BY <3>2
    <3> QED
      BY <2>2, <3>3 DEF PendingBatches
  <2> QED
    BY <2>1, <2>2
<1> QED
  BY <1>1, PTL
=========================================================================
