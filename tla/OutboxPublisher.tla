------------------------- MODULE OutboxPublisher -------------------------
(***************************************************************************)
(* The transactional outbox of the scrapper: the table outbox_messages     *)
(* (outbox_repository.go) and the job that drains it into Kafka            *)
(* (outbox_publisher.go, link_update_producer.go).                         *)
(*                                                                         *)
(* PublishPending is started by gocron on every tick, whether or not an    *)
(* earlier call is still at work, so several runs interleave.  A run reads *)
(* one batch of PENDING rows and then, for each of them, makes two calls   *)
(* that can fail apart from one another: ProduceRaw to the broker and one  *)
(* UPDATE of the row.  The process can stop between any two of them.       *)
(***************************************************************************)
EXTENDS Naturals, FiniteSets

CONSTANTS
    Messages,     \* the outbox rows that the scheduler may save
    Runs,         \* calls of PublishPending that can be in progress at once
    Poison,       \* rows that the broker refuses on every attempt
    CreatedAt,    \* created_at of every row: taken by makeOutboxMessage
                  \* before the transaction, so commits may be out of order
    BatchSize,    \* OUTBOX_BATCH_SIZE
    MaxAttempts,  \* bound on the column attempts, which nothing reads
    MaxFaults,    \* bound on failed calls and crashes
    None          \* no row in hand

ASSUME MessagesAssumption == IsFiniteSet(Messages) /\ None \notin Messages
ASSUME RunsAssumption == IsFiniteSet(Runs)
ASSUME PoisonAssumption == Poison \subseteq Messages
ASSUME CreatedAtAssumption == CreatedAt \in [Messages -> Nat]
ASSUME BoundsAssumption == /\ BatchSize \in Nat \ {0}
                           /\ MaxAttempts \in Nat
                           /\ MaxFaults \in Nat

VARIABLES
    status,    \* status column; "absent" before the row is committed
    attempts,  \* attempts column
    copies,    \* how many records of the row the Kafka topic holds
    pc,        \* where each run is
    todo,      \* rows of the run's batch it has not finished with
    current,   \* the row the run is working on
    faults     \* failures that can still happen

table == <<status, attempts>>
vars == <<status, attempts, copies, pc, todo, current, faults>>

Status == {"absent", "PENDING", "SENT"}

TypeOK ==
    /\ status \in [Messages -> Status]
    /\ attempts \in [Messages -> Nat]
    /\ copies \in [Messages -> Nat]
    /\ pc \in [Runs -> {"idle", "produce", "acked", "failed"}]
    /\ todo \in [Runs -> SUBSET Messages]
    /\ current \in [Runs -> Messages \cup {None}]
    /\ faults \in Nat

Init ==
    /\ status = [m \in Messages |-> "absent"]
    /\ attempts = [m \in Messages |-> 0]
    /\ copies = [m \in Messages |-> 0]
    /\ pc = [r \in Runs |-> "idle"]
    /\ todo = [r \in Runs |-> {}]
    /\ current = [r \in Runs |-> None]
    /\ faults = MaxFaults

---------------------------------------------------------------------------
(* The table. *)

Pending == {m \in Messages : status[m] = "PENDING"}

Oldest(S) == {m \in S : \A n \in S : CreatedAt[m] <= CreatedAt[n]}

\* What the query of GetPendingMessages may return: LIMIT rows, the oldest
\* ones; rows with equal created_at come in any order.
PendingBatches ==
    LET size == IF Cardinality(Pending) < BatchSize
                THEN Cardinality(Pending) ELSE BatchSize
    IN  {B \in SUBSET Pending :
            /\ Cardinality(B) = size
            /\ \A m \in B, n \in Pending \ B : CreatedAt[m] <= CreatedAt[n]}

\* One transaction of the scheduler inserts the rows of one link check; all
\* of them become visible to the publisher at once.
Save(ms) ==
    /\ ms # {}
    /\ \A m \in ms : status[m] = "absent"
    /\ status' = [m \in Messages |-> IF m \in ms THEN "PENDING" ELSE status[m]]
    /\ UNCHANGED <<attempts, copies, pc, todo, current, faults>>

\* Mutant: the UPDATE affects no row.
MarkNothing(m) == m \in Messages /\ UNCHANGED table

MarkAsSent(m) == status' = [status EXCEPT ![m] = "SENT"] /\ UNCHANGED attempts

\* MarkPublishFailed leaves the status alone: the row stays PENDING and is
\* selected again by a later run.
MarkPublishFailed(m) ==
    /\ attempts' = [attempts EXCEPT
                      ![m] = IF @ < MaxAttempts THEN @ + 1 ELSE @]
    /\ UNCHANGED status

---------------------------------------------------------------------------
(* One run of PublishPending. *)

\* A tick whose query fails or finds nothing returns at once and is a
\* stuttering step.
Fetch(r) ==
    /\ pc[r] = "idle"
    /\ Pending # {}
    /\ \E B \in PendingBatches : todo' = [todo EXCEPT ![r] = B]
    /\ pc' = [pc EXCEPT ![r] = "produce"]
    /\ UNCHANGED <<status, attempts, copies, current, faults>>

\* ProduceRaw of the next row of the batch: the broker stores the record and
\* the delivery report says so.
ProduceAcked(r) ==
    /\ pc[r] = "produce"
    /\ \E m \in Oldest(todo[r]) \ Poison :
          /\ current' = [current EXCEPT ![r] = m]
          /\ copies' = [copies EXCEPT ![m] = @ + 1]
    /\ pc' = [pc EXCEPT ![r] = "acked"]
    /\ UNCHANGED <<status, attempts, todo, faults>>

\* Mutant: the error of the delivery report is not looked at.
ProduceUnchecked(r) ==
    /\ pc[r] = "produce"
    /\ \E m \in Oldest(todo[r]) : current' = [current EXCEPT ![r] = m]
    /\ pc' = [pc EXCEPT ![r] = "acked"]
    /\ UNCHANGED <<status, attempts, copies, todo, faults>>

\* The broker refuses the record: always for a poison row, else a fault.
ProduceRefused(r) ==
    /\ pc[r] = "produce"
    /\ \E m \in Oldest(todo[r]) :
          /\ current' = [current EXCEPT ![r] = m]
          /\ \/ m \in Poison /\ UNCHANGED faults
             \/ m \notin Poison /\ faults > 0 /\ faults' = faults - 1
    /\ pc' = [pc EXCEPT ![r] = "failed"]
    /\ UNCHANGED <<status, attempts, copies, todo>>

\* The broker stores the record but the report is an error (a delivery
\* timeout while the acknowledgement was on its way).
ProduceAckLost(r) ==
    /\ pc[r] = "produce"
    /\ faults > 0
    /\ faults' = faults - 1
    /\ \E m \in Oldest(todo[r]) \ Poison :
          /\ current' = [current EXCEPT ![r] = m]
          /\ copies' = [copies EXCEPT ![m] = @ + 1]
    /\ pc' = [pc EXCEPT ![r] = "failed"]
    /\ UNCHANGED <<status, attempts, todo>>

\* Mutant: the loop is left at the first failure.
AdvanceOrAbort(r) ==
    LET rest == IF pc[r] = "failed" THEN {} ELSE todo[r] \ {current[r]}
    IN  /\ todo' = [todo EXCEPT ![r] = rest]
        /\ current' = [current EXCEPT ![r] = None]
        /\ pc' = [pc EXCEPT ![r] = IF rest = {} THEN "idle" ELSE "produce"]

\* The loop goes on to the next row, or the run returns.
Advance(r) ==
    /\ todo' = [todo EXCEPT ![r] = @ \ {current[r]}]
    /\ current' = [current EXCEPT ![r] = None]
    /\ pc' = [pc EXCEPT ![r] = IF todo[r] = {current[r]}
                                THEN "idle" ELSE "produce"]

\* Mutant: MarkAsSent also after MarkPublishFailed (a missing continue).
MarkAnyway(r) ==
    /\ pc[r] \in {"acked", "failed"}
    /\ MarkAsSent(current[r])
    /\ Advance(r)
    /\ UNCHANGED <<copies, faults>>

Mark(r) ==
    /\ \/ pc[r] = "acked" /\ MarkAsSent(current[r])
       \/ pc[r] = "failed" /\ MarkPublishFailed(current[r])
    /\ Advance(r)
    /\ UNCHANGED <<copies, faults>>

\* An UPDATE that fails is only logged.
MarkError(r) ==
    /\ pc[r] \in {"acked", "failed"}
    /\ faults > 0
    /\ faults' = faults - 1
    /\ Advance(r)
    /\ UNCHANGED <<status, attempts, copies>>

\* The scrapper stops and starts again: the table and the topic stay.
Crash ==
    /\ faults > 0
    /\ faults' = faults - 1
    /\ \E r \in Runs : pc[r] # "idle"
    /\ pc' = [r \in Runs |-> "idle"]
    /\ todo' = [r \in Runs |-> {}]
    /\ current' = [r \in Runs |-> None]
    /\ UNCHANGED <<status, attempts, copies>>

---------------------------------------------------------------------------

Produce(r) == ProduceAcked(r) \/ ProduceRefused(r) \/ ProduceAckLost(r)

RunStep(r) == Produce(r) \/ Mark(r) \/ MarkError(r)

Next ==
    \/ \E ms \in SUBSET Messages : Save(ms)
    \/ \E r \in Runs : Fetch(r) \/ RunStep(r)
    \/ Crash

Spec == Init /\ [][Next]_vars

\* gocron ticks for ever, and a call to the broker or the database returns.
Fairness == \A r \in Runs : WF_vars(Fetch(r)) /\ WF_vars(RunStep(r))

FairSpec == Spec /\ Fairness

---------------------------------------------------------------------------
(* Properties. *)

\* A row marked SENT is in the topic, whatever the order in which
\* overlapping runs, failures and crashes interleave (PublishPending marks
\* a row only after ProduceRaw returned nil).
SentIsPublished == \A m \in Messages : status[m] = "SENT" => copies[m] > 0

\* Nothing reaches the topic that is not a committed row: GetPendingMessages
\* sees no row of an open transaction.
PublishedIsCommitted ==
    \A m \in Messages : copies[m] > 0 => status[m] # "absent"

\* SENT is final: a run that holds a stale copy of the row, and fails to
\* publish it, must not make it pending again.
SentIsFinal ==
    [][\A m \in Messages : status[m] = "SENT" => status'[m] = "SENT"]_vars

\* A row is published again only by a run that selected it while it was
\* PENDING: once it is SENT and out of every batch, it stays out of every
\* batch and no copy is added, also after a restart.
SettledForGood ==
    [][\A m \in Messages :
          (status[m] = "SENT" /\ \A r \in Runs : m \notin todo[r])
             => /\ copies'[m] = copies[m]
                /\ \A r \in Runs : m \notin todo'[r]]_vars

\* The price of at-least-once delivery is bounded: concurrent runs publish a
\* row once each, and one fault (a crash, at worst) makes each of them do so
\* once more.
DuplicatesAreBounded ==
    \A m \in Messages :
        copies[m] <= Cardinality(Runs) * (1 + MaxFaults - faults)

\* The table and its publisher are a hop that forgets a row, by marking it
\* SENT, only after the topic has it.
Hop == INSTANCE AtLeastOnce WITH
    Items <- Messages,
    accepted <- {m \in Messages : status[m] # "absent"},
    relayed <- {m \in Messages : copies[m] > 0},
    settled <- {m \in Messages : status[m] = "SENT"}

ImplementsHop == Hop!Spec

\* The inductive invariant of the proofs: a run works on committed rows only,
\* and has seen the topic take the row it is about to mark SENT.
RunsAreSound ==
    \A r \in Runs :
        /\ \A m \in todo[r] : status[m] # "absent"
        /\ pc[r] \in {"acked", "failed"} => current[r] \in todo[r]
        /\ pc[r] = "acked" => copies[current[r]] > 0

IndInv == TypeOK /\ SentIsPublished /\ PublishedIsCommitted /\ RunsAreSound

\* The rows that no run ever gets rid of and that are read before row m.
StuckBefore(m) == {p \in Poison \cap Pending : CreatedAt[p] < CreatedAt[m]}

\* A row behind a full batch of such rows is out of reach: the query has
\* neither an offset nor a limit on attempts (GetPendingMessages).
Starved(m) ==
    /\ status[m] = "PENDING"
    /\ BatchSize <= Cardinality(StuckBefore(m))
    /\ \A r \in Runs : m \notin todo[r]

\* Such a row is never published, whatever the runs, the scheduler and
\* restarts do: nothing in the code ends its starvation.
StarvationIsForGood ==
    [][\A m \in Messages : Starved(m) => Starved(m)' /\ copies'[m] = copies[m]]_vars

\* With fewer rows of that kind than a batch has places, no row starves: every
\* batch that GetPendingMessages can return holds, for each pending row the
\* broker can take, that row or one as old that the broker can take.
BatchesReachGoodRows ==
    Cardinality(Poison) < BatchSize =>
        \A B \in PendingBatches, m \in Pending \ Poison :
            \E n \in B \ Poison : CreatedAt[n] <= CreatedAt[m]

\* Every committed row the broker can take is published and marked SENT in
\* the end (README.md, "then the background publisher sends them to Kafka
\* and marks the record as sent").
EventuallySent ==
    \A m \in Messages \ Poison :
        status[m] = "PENDING" ~> (status[m] = "SENT" /\ copies[m] > 0)
===========================================================================
