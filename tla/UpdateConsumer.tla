--------------------------- MODULE UpdateConsumer ---------------------------
(***************************************************************************)
(* The Kafka consumer of the bot (link_update_consumer.go), its dead       *)
(* letter queue (dead_letter_producer.go) and the handler that sends an    *)
(* update to the chats of its subscribers (update_service.go).             *)
(*                                                                         *)
(* The consumer takes one record at a time from a partition, tries to      *)
(* handle it MaxRetries + 1 times, puts it in the dead letter queue if     *)
(* that did not help, and commits its offset.  An error of the dead letter *)
(* queue or of the commit makes Start return; the process lives on without *)
(* a consumer until somebody restarts it.                                  *)
(***************************************************************************)
EXTENDS Naturals

CONSTANTS
    Records,     \* number of records appended to the partition
    Kind,        \* "good", "garbled" (cannot be decoded) or "invalid"
    NumChats,    \* length of TgChatIDs, the same for every record
    Blocked,     \* records the Telegram API refuses for ever, with the chat
    MaxRetries,  \* KAFKA_MAX_RETRIES
    MaxFaults    \* bound on failed calls, cancellations and restarts

Offsets == 1 .. Records
Chats == 1 .. NumChats

ASSUME RecordsAssumption == Records \in Nat
ASSUME KindAssumption == Kind \in [Offsets -> {"good", "garbled", "invalid"}]
ASSUME ChatsAssumption == /\ NumChats \in Nat \ {0}
                           /\ Blocked \subseteq Offsets \X Chats
ASSUME BoundsAssumption == MaxRetries \in Nat /\ MaxFaults \in Nat

VARIABLES
    appended,   \* last offset of the partition
    committed,  \* last committed offset of the group
    position,   \* last offset the consumer took; the record in hand
    pc,         \* where the consumer is
    attempt,    \* loop variable of handleWithRetries
    chat,       \* loop variable of HandleLinkUpdate
    ctx,        \* the context of the errgroup
    delivered,  \* how often each chat got each record
    dlq,        \* records of the offset in the dead letter queue
    failures,   \* history: failed attempts to handle the offset
    cutShort,   \* history: offsets whose attempts a cancellation ended
    faults      \* failures that can still happen

consumer == <<position, pc, attempt, chat>>
history == <<failures, cutShort>>
vars == <<appended, committed, consumer, ctx, delivered, dlq, history,
          faults>>

TypeOK ==
    /\ appended \in 0 .. Records
    /\ committed \in 0 .. Records
    /\ position \in 0 .. Records
    /\ pc \in {"poll", "handle", "deadletter", "commit", "dead"}
    /\ attempt \in 0 .. MaxRetries
    /\ chat \in Chats
    /\ ctx \in {"live", "done"}
    /\ delivered \in [Offsets -> [Chats -> Nat]]
    /\ dlq \in [Offsets -> Nat]
    /\ failures \in [Offsets -> Nat]
    /\ cutShort \subseteq Offsets
    /\ faults \in Nat

Init ==
    /\ appended = 0
    /\ committed = 0
    /\ position = 0
    /\ pc = "poll"
    /\ attempt = 0
    /\ chat = 1
    /\ ctx = "live"
    /\ delivered = [o \in Offsets |-> [c \in Chats |-> 0]]
    /\ dlq = [o \in Offsets |-> 0]
    /\ failures = [o \in Offsets |-> 0]
    /\ cutShort = {}
    /\ faults = MaxFaults

Fault == faults > 0 /\ faults' = faults - 1

\* The broker appends a record of the scrapper.
Append ==
    /\ appended < Records
    /\ appended' = appended + 1
    /\ UNCHANGED <<committed, consumer, ctx, delivered, dlq, history,
                   faults>>

---------------------------------------------------------------------------
(* Start. *)

\* Mutant: a record that cannot be handled is skipped.
PollSkips ==
    /\ pc = "poll"
    /\ ctx = "live"
    /\ position < appended
    /\ position' = position + 1
    /\ pc' = IF Kind[position + 1] = "good" THEN "handle" ELSE "commit"
    /\ attempt' = 0
    /\ chat' = 1
    /\ UNCHANGED <<appended, committed, ctx, delivered, dlq, history,
                   faults>>

\* Poll returns the next record.  What cannot be decoded, or has no URL or no
\* chats, goes to the dead letter queue without an attempt.
Poll ==
    /\ pc = "poll"
    /\ ctx = "live"
    /\ position < appended
    /\ position' = position + 1
    /\ pc' = IF Kind[position + 1] = "good" THEN "handle" ELSE "deadletter"
    /\ attempt' = 0
    /\ chat' = 1
    /\ UNCHANGED <<appended, committed, ctx, delivered, dlq, history,
                   faults>>

\* Start returns: the context is done, or Poll reports a fatal error.
Stop ==
    /\ pc = "poll"
    /\ \/ ctx = "done" /\ UNCHANGED faults
       \/ Fault
    /\ pc' = "dead"
    /\ UNCHANGED <<appended, committed, position, attempt, chat, ctx,
                   delivered, dlq, history>>

\* Another goroutine of the errgroup (HTTP or gRPC server) returned an error.
Cancel ==
    /\ ctx = "live"
    /\ Fault
    /\ ctx' = "done"
    /\ UNCHANGED <<appended, committed, consumer, delivered, dlq, history>>

---------------------------------------------------------------------------
(* handleWithRetries and HandleLinkUpdate. *)

Deliver == delivered' = [delivered EXCEPT ![position][chat] = @ + 1]

Send ==
    /\ pc = "handle"
    /\ <<position, chat>> \notin Blocked
    /\ Deliver
    /\ \/ chat = NumChats /\ pc' = "commit" /\ UNCHANGED chat
       \/ chat < NumChats /\ chat' = chat + 1 /\ UNCHANGED pc
    /\ UNCHANGED <<appended, committed, position, attempt, ctx, dlq,
                   history, faults>>

\* Mutants of the next definition: the consumer goes on without the dead
\* letter queue; the attempts are not counted; there is one attempt too few.
AttemptFailsSkips ==
    /\ failures' = [failures EXCEPT ![position] = @ + 1]
    /\ chat' = 1
    /\ \/ attempt < MaxRetries /\ attempt' = attempt + 1 /\ UNCHANGED pc
       \/ attempt = MaxRetries /\ pc' = "poll" /\ UNCHANGED attempt
    /\ UNCHANGED cutShort

AttemptFailsForever ==
    /\ chat' = 1
    /\ UNCHANGED <<failures, pc, attempt, cutShort>>

AttemptFailsEarly ==
    /\ failures' = [failures EXCEPT ![position] = @ + 1]
    /\ chat' = 1
    /\ \/ attempt + 1 < MaxRetries /\ attempt' = attempt + 1 /\ UNCHANGED pc
       \/ attempt + 1 >= MaxRetries /\ pc' = "deadletter" /\ UNCHANGED attempt
    /\ UNCHANGED cutShort

\* SendMessage returned an error: the chats after this one are not tried.
\* The next attempt starts from the first chat; a context that is done ends
\* the pause between attempts, and with it the attempts.
AttemptFails ==
    /\ failures' = [failures EXCEPT ![position] = @ + 1]
    /\ chat' = 1
    /\ \/ /\ attempt < MaxRetries /\ ctx = "live"
          /\ attempt' = attempt + 1
          /\ UNCHANGED <<pc, cutShort>>
       \/ /\ attempt = MaxRetries \/ ctx = "done"
          /\ pc' = "deadletter"
          /\ cutShort' = IF attempt < MaxRetries
                          THEN cutShort \cup {position} ELSE cutShort
          /\ UNCHANGED attempt

SendFails ==
    /\ pc = "handle"
    /\ \/ <<position, chat>> \in Blocked /\ UNCHANGED faults
       \/ <<position, chat>> \notin Blocked /\ Fault
    /\ AttemptFails
    /\ UNCHANGED <<appended, committed, position, ctx, delivered, dlq>>

\* The chat got the message, the bot an error.
SendAckLost ==
    /\ pc = "handle"
    /\ <<position, chat>> \notin Blocked
    /\ Fault
    /\ Deliver
    /\ AttemptFails
    /\ UNCHANGED <<appended, committed, position, ctx, dlq>>

---------------------------------------------------------------------------
(* sendToDLQAndCommit and commitMessage. *)

BuryRecord == dlq' = [dlq EXCEPT ![position] = @ + 1]

\* Mutant: the offset of a dead letter is not committed.
BuryOnly ==
    /\ pc = "deadletter"
    /\ BuryRecord
    /\ pc' = "poll"
    /\ UNCHANGED <<appended, committed, position, attempt, chat, ctx,
                   delivered, history, faults>>

Bury ==
    /\ pc = "deadletter"
    /\ BuryRecord
    /\ pc' = "commit"
    /\ UNCHANGED <<appended, committed, position, attempt, chat, ctx,
                   delivered, history, faults>>

\* Mutant: the error of the dead letter queue is ignored.
BuryUnchecked ==
    /\ pc = "deadletter"
    /\ Fault
    /\ pc' = "commit"
    /\ UNCHANGED <<appended, committed, position, attempt, chat, ctx,
                   delivered, dlq, history>>

\* The delivery report is an error, or the context is done before it comes:
\* the record may be in the dead letter queue all the same.
BuryFails ==
    /\ pc = "deadletter"
    /\ \/ ctx = "done" /\ UNCHANGED faults
       \/ ctx = "live" /\ Fault
    /\ \/ BuryRecord
       \/ UNCHANGED dlq
    /\ pc' = "dead"
    /\ UNCHANGED <<appended, committed, position, attempt, chat, ctx,
                   delivered, history>>

Commit ==
    /\ pc = "commit"
    /\ committed' = position
    /\ pc' = "poll"
    /\ UNCHANGED <<appended, position, attempt, chat, ctx, delivered, dlq,
                   history, faults>>

\* The broker did not commit, or its answer was lost.
CommitFails ==
    /\ pc = "commit"
    /\ Fault
    /\ committed' \in {committed, position}
    /\ pc' = "dead"
    /\ UNCHANGED <<appended, position, attempt, chat, ctx, delivered, dlq,
                   history>>

---------------------------------------------------------------------------

\* The process stops, at any point, and starts again from the committed
\* offset.
Restart ==
    /\ Fault
    /\ pc' = "poll"
    /\ position' = committed
    /\ attempt' = 0
    /\ chat' = 1
    /\ ctx' = "live"
    /\ UNCHANGED <<appended, committed, delivered, dlq, history>>

ConsumerStep ==
    \/ Poll \/ Stop \/ Send \/ SendFails \/ SendAckLost
    \/ Bury \/ BuryFails \/ Commit \/ CommitFails

Next == Append \/ ConsumerStep \/ Cancel \/ Restart

Spec == Init /\ [][Next]_vars

\* Start loops for ever and every call returns.  Nothing obliges anybody to
\* restart the process, nor the scrapper to produce.
FairSpec == Spec /\ WF_vars(ConsumerStep)

---------------------------------------------------------------------------
(* Properties. *)

\* All chats got the record, or it is kept in the dead letter queue.
Accounted(o) ==
    \/ dlq[o] > 0
    \/ Kind[o] = "good" /\ \A c \in Chats : delivered[o][c] > 0

\* No record is committed and gone: handleMessage commits after the handler
\* or the dead letter queue took it, also across restarts.
CommittedIsAccounted == \A o \in 1 .. committed : Accounted(o)

\* No record overtakes another one: no chat gets, and no dead letter holds, a
\* record while an earlier one is unaccounted for.
NoOvertaking ==
    \A o \in Offsets :
        (dlq[o] > 0 \/ \E c \in Chats : delivered[o][c] > 0)
            => \A p \in 1 .. o - 1 : Accounted(p)

\* The dead letter queue is the last resort for a good record: all attempts
\* failed, unless a cancellation ended the attempts.
DeadLetterIsLastResort ==
    \A o \in Offsets \ cutShort :
        (Kind[o] = "good" /\ dlq[o] > 0) => failures[o] > MaxRetries

\* The repetitions a chat can get are bounded by the retries and by the
\* restarts.
DeliveriesAreBounded ==
    \A o \in Offsets, c \in Chats :
        delivered[o][c] <= (MaxRetries + 1) * (1 + MaxFaults - faults)

\* The group moves one record at a time, and never back.
CommitsInOrder ==
    [][committed' \in {committed, committed + 1}]_vars

\* The consumer is a hop that forgets a record, by committing its offset,
\* only after the chats or the dead letter queue have it.
Hop == INSTANCE AtLeastOnce WITH
    Items <- Offsets,
    accepted <- 1 .. appended,
    relayed <- {o \in Offsets : Accounted(o)},
    settled <- 1 .. committed

ImplementsHop == Hop!Spec

\* The inductive invariant of the proofs.
IndInv ==
    /\ TypeOK
    /\ committed <= position /\ position <= appended
    /\ CommittedIsAccounted
    /\ pc # "dead" => position <= committed + 1
    /\ pc = "poll" => position = committed
    /\ pc \in {"handle", "deadletter", "commit"} => position = committed + 1
    /\ pc = "handle" => /\ Kind[position] = "good"
                        /\ \A c \in 1 .. chat - 1 : delivered[position][c] > 0
    /\ pc = "commit" => Accounted(position)

\* As long as the consumer lives, every record is committed in the end.
RecordsAreSettled ==
    \A o \in Offsets : appended >= o ~> (committed >= o \/ pc = "dead")

=============================================================================
