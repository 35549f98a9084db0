------------------------------- MODULE Agent -------------------------------
(***************************************************************************)
(* The AI agent between the scrapper and the bot (agent.go, handler.go,    *)
(* procerssor.go, grouping_service.go): it consumes raw updates, drops     *)
(* what the filter rejects, has long texts summarised, and collects the    *)
(* updates of a chat for a while before it publishes them as one.          *)
(*                                                                         *)
(* Three kinds of goroutines meet at the buffers: the consumer adds, the   *)
(* timer of a buffer flushes it, and main flushes all of them before it    *)
(* exits.  The lock is held while a buffer changes, not while its group is *)
(* published.  The consumer is the one of UpdateConsumer.                  *)
(***************************************************************************)
EXTENDS Naturals, Sequences, Functions

CONSTANTS
    Records,    \* number of records in the partition of raw updates
    Kind,       \* "short", "long" (to be summarised), "filtered" or
                \* "garbled" (the consumer cannot decode or accept it)
    NumChats,   \* length of TgChatIDs, the same for every record
    MaxRetries, \* KAFKA_MAX_RETRIES
    Summarizer, \* what each start of the process is configured with: "stub",
                \* "remote", or "misconfigured" (remote, with a URL that no
                \* request can be built for)
    MaxFaults   \* bound on failed calls, signals and crashes

Offsets == 1 .. Records
Chats == 1 .. NumChats

ASSUME RecordsAssumption == Records \in Nat
ASSUME KindAssumption ==
    Kind \in [Offsets -> {"short", "long", "filtered", "garbled"}]
ASSUME ChatsAssumption == NumChats \in Nat \ {0}
ASSUME BoundsAssumption == MaxRetries \in Nat /\ MaxFaults \in Nat
ASSUME SummarizerAssumption ==
    Summarizer \in [1 .. MaxFaults + 1 -> {"stub", "remote", "misconfigured"}]

VARIABLES
    committed,  \* last committed offset of the group
    position,   \* last offset the consumer took
    pc,         \* where the consumer, and after it main, is
    attempt,    \* loop variable of handleWithRetries
    chat,       \* loop variable of GroupingService.Add
    ctx,        \* the context of the signals
    buffer,     \* updates in the buffer of each chat; <<>> if it has none
    armed,      \* chats whose buffer has a timer that runs
    fired,      \* timers of each chat that have fired and wait for the lock
    flights,    \* groups taken out of their buffer, not yet published
    toFlush,    \* chats FlushAll has still to look at
    copies,     \* how often each update was published for each chat
    dlq,        \* offsets in the dead letter queue
    lost,       \* history: updates whose group failed, or that were held
                \* when the process ended
    starts,     \* history: how often the process was started
    faults      \* failures that can still happen

consumer == <<committed, position, attempt, chat>>
grouping == <<buffer, armed, fired, flights, toFlush>>
history == <<copies, dlq, lost, starts>>
vars == <<consumer, pc, ctx, grouping, history, faults>>

Groups == [chat : Chats, by : {"timer", "main"}, updates : Seq(Offsets)]

TypeOK ==
    /\ committed \in 0 .. Records
    /\ position \in 0 .. Records
    /\ pc \in {"poll", "process", "add", "deadletter", "commit", "flush",
               "down"}
    /\ attempt \in 0 .. MaxRetries
    /\ chat \in Chats
    /\ ctx \in {"live", "done"}
    /\ buffer \in [Chats -> Seq(Offsets)]
    /\ armed \subseteq Chats
    /\ fired \in [Chats -> Nat]
    /\ flights \subseteq Groups
    /\ toFlush \subseteq Chats
    /\ copies \in [Offsets -> [Chats -> Nat]]
    /\ dlq \subseteq Offsets
    /\ lost \subseteq Offsets \X Chats
    /\ starts \in Nat
    /\ faults \in Nat

Init ==
    /\ committed = 0
    /\ position = 0
    /\ pc = "poll"
    /\ attempt = 0
    /\ chat = 1
    /\ ctx = "live"
    /\ buffer = [c \in Chats |-> <<>>]
    /\ armed = {}
    /\ fired = [c \in Chats |-> 0]
    /\ flights = {}
    /\ toFlush = {}
    /\ copies = [o \in Offsets |-> [c \in Chats |-> 0]]
    /\ dlq = {}
    /\ lost = {}
    /\ starts = 1
    /\ faults = MaxFaults

Fault == faults > 0 /\ faults' = faults - 1

---------------------------------------------------------------------------
(* The buffers. *)

Held(c) == {<<o, c>> : o \in Range(buffer[c])}

InFlight(g) == {<<o, g.chat>> : o \in Range(g.updates)}

InHand ==
    (UNION {Held(c) : c \in Chats}) \cup (UNION {InFlight(g) : g \in flights})

\* Mutants of addForChat: the newest update is put first; only the first chat
\* of an update gets it; a new buffer gets no timer.
AddInFront ==
    /\ buffer' = [buffer EXCEPT ![chat] = <<position>> \o @]
    /\ armed' = IF buffer[chat] = <<>> THEN armed \cup {chat} ELSE armed
    /\ \/ chat < NumChats /\ chat' = chat + 1 /\ UNCHANGED pc
       \/ chat = NumChats /\ pc' = "commit" /\ UNCHANGED chat

AddToFirst ==
    /\ buffer' = [buffer EXCEPT ![chat] = Append(@, position)]
    /\ armed' = IF buffer[chat] = <<>> THEN armed \cup {chat} ELSE armed
    /\ pc' = "commit"
    /\ UNCHANGED chat

AddUntimed ==
    /\ buffer' = [buffer EXCEPT ![chat] = Append(@, position)]
    /\ UNCHANGED armed
    /\ \/ chat < NumChats /\ chat' = chat + 1 /\ UNCHANGED pc
       \/ chat = NumChats /\ pc' = "commit" /\ UNCHANGED chat

\* addForChat: the first update of a chat makes a buffer and starts its timer.
AddForChat ==
    /\ buffer' = [buffer EXCEPT ![chat] = Append(@, position)]
    /\ armed' = IF buffer[chat] = <<>> THEN armed \cup {chat} ELSE armed
    /\ \/ chat < NumChats /\ chat' = chat + 1 /\ UNCHANGED pc
       \/ chat = NumChats /\ pc' = "commit" /\ UNCHANGED chat

\* Mutant: the updates are copied, the buffer stays.
TakeCopy(c, who) ==
    /\ flights' = flights \cup {[chat |-> c, by |-> who, updates |-> buffer[c]]}
    /\ armed' = armed \ {c}
    /\ UNCHANGED buffer

\* flushChat up to the unlock: the buffer is gone, its timer stopped.
Take(c, who) ==
    /\ flights' = flights \cup {[chat |-> c, by |-> who, updates |-> buffer[c]]}
    /\ buffer' = [buffer EXCEPT ![c] = <<>>]
    /\ armed' = armed \ {c}

TimerFires(c) ==
    /\ c \in armed
    /\ armed' = armed \ {c}
    /\ fired' = [fired EXCEPT ![c] = @ + 1]
    /\ UNCHANGED <<consumer, pc, ctx, buffer, flights, toFlush, history, faults>>

\* Mutant: a flush that finds another group of the chat under way gives up.
TimerFlushesAlone(c) ==
    /\ fired[c] > 0
    /\ fired' = [fired EXCEPT ![c] = @ - 1]
    /\ IF buffer[c] = <<>> \/ \E g \in flights : g.chat = c
       THEN UNCHANGED <<buffer, armed, flights>>
       ELSE Take(c, "timer")
    /\ UNCHANGED <<consumer, pc, ctx, toFlush, history, faults>>

\* The goroutine of a timer gets the lock.
TimerFlushes(c) ==
    /\ fired[c] > 0
    /\ fired' = [fired EXCEPT ![c] = @ - 1]
    /\ \/ buffer[c] = <<>> /\ UNCHANGED <<buffer, armed, flights>>
       \/ buffer[c] # <<>> /\ Take(c, "timer")
    /\ UNCHANGED <<consumer, pc, ctx, toFlush, history, faults>>

Publish(g) ==
    copies' = [o \in Offsets |-> [c \in Chats |->
                 IF <<o, c>> \in InFlight(g) THEN copies[o][c] + 1
                                            ELSE copies[o][c]]]

\* Produce of a group.  An error is only logged; if it is the answer that was
\* lost, the group is in the topic all the same.
ProduceGroup(g) ==
    /\ flights' = flights \ {g}
    /\ \/ Publish(g) /\ UNCHANGED <<lost, faults>>
       \/ Fault /\ lost' = lost \cup InFlight(g) /\ UNCHANGED copies
       \/ Fault /\ lost' = lost \cup InFlight(g) /\ Publish(g)
    /\ UNCHANGED <<consumer, pc, ctx, buffer, armed, fired, toFlush, dlq, starts>>

---------------------------------------------------------------------------
(* The consumer and the handler. *)

Poll ==
    /\ pc = "poll"
    /\ ctx = "live"
    /\ position < Records
    /\ position' = position + 1
    /\ pc' = IF Kind[position'] = "garbled" THEN "deadletter" ELSE "process"
    /\ attempt' = 0
    /\ chat' = 1
    /\ UNCHANGED <<committed, ctx, grouping, history, faults>>

\* The stub summarizer gives up once the context is done.  The remote one cuts
\* the text itself when its request fails or is cancelled, so that it fails
\* only if no request can be built, and then always.
SummarizerFails ==
    /\ Kind[position] = "long"
    /\ \/ Summarizer[starts] = "misconfigured"
       \/ Summarizer[starts] = "stub" /\ ctx = "done"

Process ==
    /\ pc = "process"
    /\ ~ SummarizerFails
    /\ pc' = IF Kind[position] = "filtered" THEN "commit" ELSE "add"
    /\ UNCHANGED <<consumer, ctx, grouping, history, faults>>

\* The handler fails, and is called again unless the context is done.
ProcessFails ==
    /\ pc = "process"
    /\ SummarizerFails
    /\ \/ /\ attempt < MaxRetries /\ ctx = "live"
          /\ attempt' = attempt + 1
          /\ UNCHANGED pc
       \/ /\ attempt = MaxRetries \/ ctx = "done"
          /\ pc' = "deadletter"
          /\ UNCHANGED attempt
    /\ UNCHANGED <<committed, position, chat, ctx, grouping, history, faults>>

Add ==
    /\ pc = "add"
    /\ AddForChat
    /\ UNCHANGED <<committed, position, attempt, ctx, fired, flights, toFlush,
                   history, faults>>

Bury ==
    /\ pc = "deadletter"
    /\ dlq' = dlq \cup {position}
    /\ pc' = "commit"
    /\ UNCHANGED <<consumer, ctx, grouping, copies, lost, starts, faults>>

Commit ==
    /\ pc = "commit"
    /\ committed' = position
    /\ pc' = "poll"
    /\ UNCHANGED <<position, attempt, chat, ctx, grouping, history, faults>>

---------------------------------------------------------------------------
(* main. *)

\* SIGTERM or an interrupt.
Signal ==
    /\ pc # "down"
    /\ ctx = "live"
    /\ Fault
    /\ ctx' = "done"
    /\ UNCHANGED <<consumer, pc, grouping, history>>

\* Mutant: what a timer has fired for is left to the timer.
ChatsWithTimer == armed

\* The keys of the map of buffers.
ChatsWithBuffer == {c \in Chats : buffer[c] # <<>>}

\* Start returns because the context is done, from Poll or from the dead
\* letter queue (which may have stored the record): the deferred FlushAll.
Stop ==
    /\ ctx = "done"
    /\ \/ pc = "poll" /\ UNCHANGED dlq
       \/ pc = "deadletter" /\ dlq' \in {dlq, dlq \cup {position}}
    /\ pc' = "flush"
    /\ toFlush' = ChatsWithBuffer
    /\ UNCHANGED <<consumer, ctx, buffer, armed, fired, flights, copies, lost,
                   starts, faults>>

MainInFlight == \E g \in flights : g.by = "main"

FlushNext(c) ==
    /\ pc = "flush"
    /\ c \in toFlush
    /\ ~ MainInFlight
    /\ toFlush' = toFlush \ {c}
    /\ \/ buffer[c] = <<>> /\ UNCHANGED <<buffer, armed, flights>>
       \/ buffer[c] # <<>> /\ Take(c, "main")
    /\ UNCHANGED <<consumer, pc, ctx, fired, history, faults>>

\* The process is gone, and with it what it held.
Gone ==
    /\ pc' = "down"
    /\ lost' = lost \cup InHand
    /\ buffer' = [c \in Chats |-> <<>>]
    /\ armed' = {}
    /\ fired' = [c \in Chats |-> 0]
    /\ flights' = {}
    /\ toFlush' = {}
    /\ UNCHANGED <<position, attempt, chat, ctx, copies, starts>>

\* main returns after FlushAll; nothing waits for the goroutines of timers.
Exit ==
    /\ pc = "flush"
    /\ toFlush = {}
    /\ ~ MainInFlight
    /\ Gone
    /\ UNCHANGED <<committed, dlq, faults>>

\* A crash, or os.Exit(1) after a failed commit, a failed dead letter or a
\* fatal error of the consumer: no deferred call is made.  The broker may have
\* the commit, or the dead letter, that failed.
Die ==
    /\ pc # "down"
    /\ Fault
    /\ Gone
    /\ committed' \in IF pc = "commit" THEN {committed, position}
                                       ELSE {committed}
    /\ dlq' \in IF pc = "deadletter" THEN {dlq, dlq \cup {position}} ELSE {dlq}

Start ==
    /\ pc = "down"
    /\ pc' = "poll"
    /\ position' = committed
    /\ attempt' = 0
    /\ chat' = 1
    /\ ctx' = "live"
    /\ starts' = starts + 1
    /\ UNCHANGED <<committed, grouping, copies, dlq, lost, faults>>

---------------------------------------------------------------------------

ConsumerStep ==
    \/ Poll \/ Process \/ ProcessFails \/ Add \/ Bury \/ Commit \/ Stop

MainStep == Exit \/ \E c \in Chats : FlushNext(c)

TimerStep(c) == TimerFires(c) \/ TimerFlushes(c)

Next ==
    \/ ConsumerStep \/ Signal \/ MainStep \/ Die \/ Start
    \/ \E c \in Chats : TimerStep(c)
    \/ \E g \in flights : ProduceGroup(g)

Spec == Init /\ [][Next]_vars

\* Every goroutine goes on, every timer fires, every call returns.  Nothing
\* obliges anybody to start the process again.
Fairness ==
    /\ WF_vars(ConsumerStep)
    /\ WF_vars(MainStep)
    /\ \A c \in Chats : WF_vars(TimerStep(c))
    /\ \A o \in Offsets, c \in Chats :
          WF_vars(\E g \in flights : <<o, c>> \in InFlight(g) /\ ProduceGroup(g))

FairSpec == Spec /\ Fairness

---------------------------------------------------------------------------
(* Properties. *)

\* As long as the consumer runs, a buffer has exactly one timer, which runs or
\* waits for the lock, and no timer is left of a buffer that is gone: none is
\* forgotten, none is flushed by the timer of another (addForChat, flushChat).
BuffersHaveTimers ==
    pc # "flush" =>
        \A c \in Chats :
            fired[c] + (IF c \in armed THEN 1 ELSE 0)
                = IF buffer[c] = <<>> THEN 0 ELSE 1

\* What may become of update o for chat c.
Kept(o, c) ==
    \/ Kind[o] = "filtered" \/ o \in dlq \/ copies[o][c] > 0
    \/ <<o, c>> \in InHand \cup lost

\* An update whose offset is committed is published for every chat, or held
\* for it, or in the dead letter queue, unless its group failed or the process
\* ended while it held it (handleMessage commits what is only buffered).
CommittedIsKept == \A o \in 1 .. committed, c \in Chats : Kept(o, c)

Ascending(s) == \A i, j \in DOMAIN s : i < j => s[i] < s[j]

\* The updates of a group are in the order of the topic, and what is buffered
\* is later than what has left the buffer, although groups of one chat may be
\* under way at the same time.
GroupsAreInOrder ==
    /\ \A c \in Chats : Ascending(buffer[c])
    /\ \A g \in flights :
          /\ Ascending(g.updates)
          /\ \A o \in Range(g.updates), p \in Range(buffer[g.chat]) : o < p

\* A chat gets an update once, and again only if the process was restarted:
\* neither retries of the handler nor FlushAll racing a timer repeat it.
RepetitionsNeedARestart ==
    \A o \in Offsets, c \in Chats : copies[o][c] <= starts

\* Repetitions are rare as failures are: an update is in the topic once, and
\* once more at most for every signal, crash or failed call so far.
RepetitionsAreBought ==
    \A o \in Offsets, c \in Chats : copies[o][c] <= 1 + MaxFaults - faults

\* The record in hand is the one after the committed offset, and is kept for
\* the chats the loop over TgChatIDs has been through (handleMessage, Add).
RecordInHand ==
    /\ pc = "poll" => position = committed
    /\ pc \in {"process", "add", "deadletter", "commit"} =>
          position = committed + 1
    /\ pc = "process" => chat = 1
    /\ pc = "add" => \A c \in Chats : c < chat => Kept(position, c)
    /\ pc = "commit" => \A c \in Chats : Kept(position, c)

\* The consumer has been past update o for chat c since the last start.
Passed(o, c) ==
    \/ o < position
    \/ /\ o = position
       /\ pc # "process"
       /\ pc = "add" => c < chat

\* The agent holds an update for a chat at most once, and only if the consumer
\* has been past it since the last start; what it holds, or what the consumer
\* is still to see, can be published once more (flushChat deletes the buffer
\* under the lock under which it copies it).
HeldOnce ==
    /\ \A c \in Chats : \A o \in Range(buffer[c]) : Passed(o, c)
    /\ \A g \in flights : \A o \in Range(g.updates) : Passed(o, g.chat)
    /\ \A g, h \in flights :
          g # h /\ g.chat = h.chat => Range(g.updates) \cap Range(h.updates) = {}
    /\ \A o \in Offsets, c \in Chats :
          pc # "down" /\ (<<o, c>> \in InHand \/ ~ Passed(o, c)) =>
              copies[o][c] < starts

\* A process that is gone holds nothing; one that flushes has all buffers that
\* are left on the list of FlushAll.
EndOfProcess ==
    /\ pc = "down" =>
          /\ flights = {}
          /\ \A c \in Chats : buffer[c] = <<>> /\ fired[c] = 0 /\ c \notin armed
    /\ pc = "flush" => \A c \in Chats : buffer[c] # <<>> => c \in toFlush

\* The inductive invariant.
IndInv ==
    /\ TypeOK
    /\ BuffersHaveTimers
    /\ CommittedIsKept
    /\ GroupsAreInOrder
    /\ RepetitionsNeedARestart
    /\ RecordInHand
    /\ HeldOnce
    /\ EndOfProcess

\* Every start but the first was bought by a failure, and the end of a process
\* is bought before the process has ended: main flushes after a signal only.
StartsAreBought ==
    /\ pc = "flush" => ctx = "done"
    /\ starts + (IF pc = "down" \/ ctx = "done" THEN 1 ELSE 0) + faults
          <= 1 + MaxFaults

\* When main returns after a signal, FlushAll has emptied every buffer; only
\* groups that timers have in hand can still be lost.
ExitLeavesNoBuffer ==
    [][(pc = "flush" /\ pc' = "down" /\ faults' = faults)
          => \A c \in Chats : buffer[c] = <<>>]_vars

\* Nothing stays in the agent: what is held is published or lost in the end.
UpdatesLeave ==
    \A o \in Offsets, c \in Chats :
        (<<o, c>> \in InHand) ~> (<<o, c>> \notin InHand)
=============================================================================
