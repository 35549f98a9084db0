# Verification of the link tracker

TLA+ models of the link tracker (`scrapper`, `agent`, `bot`, the shared code in
`pkg`), configurations that check them with TLC, and proofs checked with TLAPS.
Paths below are relative to `src/`.

## 1. The system

A user tells the bot which pages (GitHub repositories, StackOverflow questions)
to track. The scrapper keeps the registry of chats, links and tags, scans the
tracked links at intervals and turns what is new into updates. An update travels

    scheduler -> outbox table -> publisher -> Kafka -> agent -> Kafka -> bot -> chats

or, without the outbox, from the scheduler to the bot over HTTP, gRPC or Kafka.
Every arrow is a call that can fail, be repeated, or be cut off by the end of a
process. No part sees the whole path; the guarantees are those of each hop.

### 1.1 Components

| component | state | operations | talks to |
|---|---|---|---|
| Link scheduler (`scrapper/.../services/scheduler.go`, `tracking_repository.go`) | `links.last_updated`, `reportedFailures`; per scan: offset, page, failures; per goroutine: link, updates found | `CheckLinks`, `processBatch`, `processLink`, `reportLinkFailure` | registry tables, sources, outbox table or bot client |
| Source clients (`github_client.go`, `stackoverflow_client.go`) | none | page of a feed, filter by watermark | GitHub, StackOverflow |
| Outbox table and publisher (`outbox_publisher.go`, `outbox_repository.go`, `link_update_producer.go`) | `outbox_messages`: status, attempts | save, select oldest PENDING, produce, mark SENT or failed | PostgreSQL, Kafka |
| AI agent (`agent/`) | offset, buffer and timer of each chat | filter, summarize, group by chat, flush, shut down | Kafka on both sides, DLQ |
| Bot consumer (`pkg/kafka/link_update_consumer.go`, `dead_letter_producer.go`, `update_service.go`) | offset, record in hand, attempt | poll, validate, send to each chat, retry, dead letter, commit | Kafka, Telegram, DLQ |
| Registry (`chat_service.go`, `link_service.go`, `tag_service.go` and their repositories) | tables `chats`, `subscriptions`, `tags`, `subscription_tags`; `links.last_updated`, shared with the scheduler | register and delete chats; add, remove, list links; create, rename, delete tags | PostgreSQL, cache |
| Cache of `GET /list` (`valkey_list_cache.go`) | one entry per chat (links, `last_updated`, tags), TTL | GET, SET EX, DEL | Valkey |
| Scrapper handlers (`link_handler.go`, `chat_handler.go`, `tag_handler.go`, `scrapper_grpc_server.go`) | none | request to service call | registry |
| Notification transports (`fallback_bot_client.go`, `http_`, `grpc_`, `kafka_bot_client.go`, `updates_handler.go`, `bot_grpc_server.go`) | per call: attempt, transport; per handler of the bot: next chat | `SendUpdate` with retries and fallback; the handlers that send to the chats | bot, Telegram, Kafka |
| Bot dialogue (`adapters/bot.go`, `dispatch.go`, `track_service.go`, commands) | session of `/track` (a row of `track_sessions`) | receive, dispatch, steps of the dialogue, answer | scrapper clients |
| Bot clients of the scrapper (`fallback_scrapper_client.go`, `scrapper_client.go`, `grpc_scrapper_client.go`) | none | request over HTTP, again over gRPC | scrapper |
| Resilience (`pkg/helpers`) | state and counters of a breaker; limiters by address, ages of their last use | retry, timeout, circuit breaker, rate limit with cleanup | breaker: HTTP clients of sources and scrapper; limiter: both HTTP servers |
| Link parsers (`parsers/parser.go`, `parsers/link_parser.go`) | none | URL to repository or question | dialogue, scheduler |
| Avro codec, wiring, configuration, metrics, generated code, load tests, deployment | - | - | - |

### 1.2 What is hard here

* **Overlap.** gocron starts `CheckLinks` and `PublishPending` on every tick,
  whether or not the previous call has returned. Inside a scan several workers
  run at once; in the agent each timer is a goroutine.
* **Two calls that belong together.** produce and mark; send and commit; dead
  letter and commit; statement and invalidation; watermark and updates. Only the
  last pair is one transaction, and only in outbox mode.
* **Lost answers.** A call can take effect and still return an error.
* **Values read and used later.** The watermark of a page, the OFFSET of the
  next page, the rows behind a cache entry, the stale copy of an outbox row.
* **Crashes** between any two steps, and a consumer that ends while its process
  lives on.
* **Work behind the caller's back.** A deadline ends the wait for an answer, not
  the handler: it goes on sending, or its request takes effect later.
* **State kept beside a library's.** `IsSuccessful` counts half-open calls next to
  gobreaker; `Allow` asks a limiter after it has left the lock.
* **Progress.** Rows or records that can never be handled must not hold up the
  others.

`PROJECT.json` lists each of these at its line ("hazards") with the property that
watches it.

### 1.3 What makes each part correct

* Scheduler: no update that the watermark of a link has passed is lost, but for the
  reasons section 3 lists; no update is handed on twice; the watermark goes back
  only when the link is added again. All three however scans overlap, but for what
  two scans make of a link that both have in hand at once. A scan covers what it
  can cover; every update newer than the watermark is handed on; a failure is
  silenced only if somebody was told.
* Outbox: SENT means in the topic; repetitions are bounded; every row that can be
  sent is sent.
* Bot consumer: a committed record was delivered to all its chats or is in the
  DLQ; no record overtakes another; the DLQ is the last resort.
* Agent: no buffer without a timer; order within a chat's group; what a
  committed offset stands for is accounted for; repetitions need a restart.
* Transports: success means that every chat has the update but for the named
  exceptions; an error without a lost answer is one; who sends after the call has
  returned had its answer lost; a chat that gets an update again does so for a
  reason; every call returns.
* Dialogue: what the bot says of a link is so; a failed command changed nothing
  unless an answer was lost; a session is left open for a reason; every message
  is answered.
* Breaker: it decides on its probes, never waits for a verdict that nobody gives,
  and recovers. Limiter: one bucket for each
  address, whatever the cleanup does.
* Parsers: what the parser of the bot accepts and that of the scrapper refuses, so
  that no scan ever checks it, is only the host that looks like a site's.
* Registry and cache: rows have owners whatever interleaves; each field of a cached
  list differs from the tables only for known reasons and not for ever.

## 2. The modules

| module | models | notes |
|---|---|---|
| `AtLeastOnce` | what a hop promises: it forgets an item only after it handed it on | abstract specification |
| `OutboxPublisher` | outbox table and publisher | implements `AtLeastOnce` |
| `UpdateConsumer` | consumer of the bot, DLQ, commit | implements `AtLeastOnce` |
| `Scheduler` | scans, workers, sources, watermark, failure reports | both modes (`OutboxEnabled`) |
| `Registry` | tables, services, cache of `GET /list` | |
| `Agent` | handler, grouping, timers, `main` | |
| `Transports` | `SendUpdate` of the scrapper down to the chats | every wiring of `main` |
| `LinkParsers` | the two parsers as functions on the shape of a URL | no state |
| `TrackDialogue` | one chat's dialogue with the bot, the bot's clients, the registry as they see it | uses `LinkParsers` |
| `CircuitBreaker` | gobreaker with the settings and counters of `NewCircuitBreaker` | part of `WorkerCalls` |
| `TokenBucket` | what a limiter per address promises | abstract specification |
| `RateLimiter` | `IPRateLimiter` with its cleanup | implements `TokenBucket` |
| `WorkerCalls` | the scheduler's workers between breaker and limiter | composes the two |
| `MC*` | constants for TLC | no definition is replaced |
| `*Proofs` | theorems about the module of that name | `EXTENDS` it and `TLAPS` |

`PROJECT.json` "map" gives for every definition the lines it stands for. In
short, one action is one call to something outside the process (a statement, a
request, a produce, a commit) together with all the code up to the next one, or
what is done under one lock.

**OutboxPublisher.** `status` and `attempts` are columns, `copies` counts records
in the topic, and `pc`, `todo`, `current` are the place, batch and row of each run
of `PublishPending`. `Save` is the insertion by the scheduler, `Fetch` the query
(the `BatchSize` oldest PENDING rows; rows of equal age in any order), `Produce*`
the three outcomes of `ProduceRaw`, `Mark` the UPDATE that follows, `MarkError`
its failure.

**UpdateConsumer.** One partition: partitions share only the consumer. `Kind` says
whether a record can be decoded and is valid; `Blocked` which chats never take
it. `Send*` are the calls to Telegram for one chat after another, `AttemptFails`
the retry loop, `Bury*` the DLQ, `Commit*` the commit. `pc = "dead"` is a `Start`
that has returned: `errgroup.Wait` waits for the servers, so the process may live
on without it. `Restart` is the end of the process, anywhere, and its start.

**Scheduler.** Time is a counter; 0 is the zero `time.Time`, which means "no look
yet" to the code. `Post` and `Tick` are the world; `AddLink` and `RemoveLink` the
statements of the registry on the tables a scan reads. `StartScan`, `FetchBatch`,
`JoinWorkers`, `NextBatch`, `EndScan` are the loop of `CheckLinks`; `Fetch` ..
`Send` are `processLink`, one call each; `ClaimReport` .. `ReportFails` are
`reportLinkFailure`. `Evaluate` is the code between the fetch and the next call.
`UpdateAckLost`, `SaveAckLost` and `SendAckLost` are calls that took effect and
returned an error. Pages are sets: `Pages` gives every page a source that sorts by
creation time and cuts at `PerPage` may answer. Scans overlap in the model as they
do in the code: nothing keeps `StartScan` of one from coming before `EndScan` of
another. `contested` and `doubtful` are the history of it: the links that a scan
read into a page while another one had yet to check them, and the updates that were
news to either of the two (posted then or later, as long as one of them has the
link in hand). A link is no longer contested when a scan reads it alone.

**Registry.** A request is a handler that walks through `get`, `exists`,
`execute`, `tags`, `set`, `invalidate`. Each statement is a transaction; `Refused`
is what the keys of `000001_init.up.sql` or zero affected rows refuse. A list is
what `GET /list` answers and caches: the links of a chat, their `last_updated`
(`times`) and their tags. `UpdateLastUpdated` is the scheduler's write to that
column; the `AddLink` of any chat resets it (`Insert`). Neither invalidates the
entries of the chats that have the link, nor do the tag services. `cause` is
history, kept for each entry: it was filled with rows that were old by then
(`late`), an answer, an invalidation or the process was lost (`lost`), a tag was
renamed or dropped (`tag`), a scan moved a watermark (`scan`), another chat added
the link again (`reset`).

**Agent.** A record in hand is processed (`filtered`, `short`, `long` with a call
of the summarizer, or `garbled`), added to the buffer of each of its chats in
turn, and committed. `armed` are timers that run, `fired` timers that wait for
the lock of the grouping service, `flights` groups taken out of the buffer whose
`Produce` is under way (the lock is released before it). `Summarizer` says which
summarizer each start of the process has: the stub fails once the context is done,
the remote one never, because it cuts the text itself when its request fails, and
one whose URL admits no request fails always (`SummarizerFails`). `Stop` is the return of
`Start` after a signal, followed by the deferred `FlushAll`; `Die` is a crash or
`os.Exit(1)`, which runs no deferred call.

**Transports.** A call is an update; `pc` and `attempt` are the place of the caller
in `FallbackBotClient`, `HTTPBotClient` and the retrier; `handler` and `next` are,
for each request of each call, the state of its handler in the bot and the chat it
is at. `PostLimited` is the 429 of the limiter, `NotAnswered` the deadline or a
broken connection (the handler goes on), `Deliver`, `Refuse`,
`DeliverUnconfirmed` the outcomes of one send. Over HTTP the first failed chat
ends the handler with 500; over gRPC it is only logged (`swallowed`). `lost` is
history: updates for which some answer did not arrive. `mode` is the wiring that
`main` chooses from `NotificationTransport` and what it could connect to.

**TrackDialogue.** One chat, because the loop of `Bot.Run` handles one message at
a time and every table is keyed by chat. `session` is the row of
`track_sessions`; `pc` is the statement or the call the handling is at, so that
`DatabaseFails` and `Crash` can come between any two. `Dispatch` and `Registered`
choose the handler; `HandleURL`, `HandleTags` and `Close` are the steps of
`/track`. `registered`, `tracked` and `tags` are the scrapper's tables for this
chat (`Registry` has them in full); `Serve` is the effect of a request. A call
fails because the scrapper declines (`Declined`), is not reached (`NotServed`), or
its answer is lost (`NotAnswered`); a request that nobody waits for is
`abandoned` and takes effect later or never (`LateEffect`). `claim`, `surprised`,
`before`, `missed`, `added`, `troubles` are history.

**CircuitBreaker, RateLimiter, WorkerCalls.** `Begin`, `Record`, `Enter`, `Current`
are gobreaker, modelled from how it is used and configured; `ReadyToTrip`,
`Succeeds`, `OnStateChange` the settings of `NewCircuitBreaker`. `Judge` is
`IsSuccessful`, which the library calls outside its lock; the read of the state
and the update of the counters, each under a lock of its own, are one step.
`fresh` tells calls of the current state from stragglers. In the limiter, times
are ages: `Arrive` takes `now`, `Find` is the part of `Allow` under the lock with
the cleanup, `Take` asks the limiter afterwards. In `WorkerCalls` the workers of a
scan share the breaker of a source client and post to the bot, whose limiter
decides by the address a request comes from.

## 3. The runs

| run | configuration | shows |
|---|---|---|
| `outbox` | `Outbox.cfg` | two overlapping runs, a poison row, faults: at-least-once hop, bounded repetitions, every good row is sent |
| `scheduler_outbox` | `SchedulerOutbox.cfg` | one scan at a time, outbox mode: the watermark accounts for the whole past, every awaited update is handed on, every link is checked again |
| `scheduler_direct` | `SchedulerDirect.cfg` | two workers, direct mode, questions: what a scan covers, what a check may pass over, no update twice |
| `scheduler_overlap` | `SchedulerOverlap.cfg` | two scans at once, outbox mode: the inductive invariant (nothing lost or repeated but what was news to one of two scans with a link in common), failure reports |
| `scheduler_readd` | `SchedulerReAdd.cfg` | *violation*: a second chat that adds a link makes the first one miss updates |
| `consumer` | `Consumer.cfg` | good, blocked, garbled, invalid records: hop, order, last resort, no record waits for ever |
| `registry` | `Registry.cfg` | two concurrent requests, a chat and its neighbour with the same link, a scan: keys, causes of staleness field by field, its end |
| `registry_late_fill` | `RegistryLateFill.cfg` | *violation*: the entry that the next `GET /list` is answered from lacks a link that was added |
| `agent` | `Agent.cfg` | timers, flushes, signal, death: buffers, order, repetitions, what is kept |
| `transports` | `Transports.cfg` | two calls over every wiring: what success and failure mean, who sends too late, every call returns |
| `dialogue` | `Dialogue.cfg` | four messages of a chat, lost answers, late effects, crashes: what the bot says is so, sessions, uncheckable links, every message is dealt with |
| `worker_calls` | `WorkerCalls.cfg` | two workers between breaker and limiter: verdicts of the half-open state, recovery, one bucket per address |

The two violations are findings; `PROJECT.json` quotes the sentence of the
documentation each of them contradicts. Six more losses are known and have no
run of their own:

* As many rows that the broker refuses as a batch has places stop the outbox
  (`outbox_repository.go`: oldest PENDING first, whatever the attempts).
  `EventuallySent` in `Outbox.cfg` has fewer such rows than places.
* An answer posted between the two requests of the StackOverflow client
  (`stackoverflow_client.go:154`), before the newest comment, is passed over by the
  watermark. `Promised` therefore leaves answers out of `FetchIsComplete` and
  `NothingIsLost`; with a StackOverflow link in outbox mode TLC refutes
  `UpdatesAreHanded`, which does not.
* What does not fit on the newest page (`github_client.go:124`). The history
  variable `cut` collects it, and the properties excuse it and nothing more.
* A second update of the same second, posted after the fetch that saw the first:
  it is not newer than the watermark, which is compared strictly at the
  granularity of the source. `NothingIsLost` speaks of updates that are `Alone`.
* An update that is posted between two overlapping first looks at a link: both scans
  have read a zero watermark, the earlier one sets it, and the later one moves it
  past the update without reporting it (`scheduler.go:260-266`). Overlapping scans
  also repeat updates, in both modes, and the slower one may write an older
  watermark back. `AtMostOnce`, `NothingIsLost`, `WatermarkGrows` and
  `OnlyNewsIsSaved` excuse this for `doubtful` updates and `contested` links.
* A consumer whose `Start` has returned is not started again while the process
  lives on (`pc = "dead"` in `UpdateConsumer`): what follows is neither handled
  nor sent to the DLQ until a restart.

What they have in common: each hop keeps its own promise, and the losses come from
what lies between hops (a watermark shared by chats or by scans, two requests with
one watermark, a consumer with no supervisor, a cache filled without a version).

### 3.1 Bounds, and why they are enough

* `MaxFaults` bounds failed calls, lost answers, crashes and signals together. Two
  are the least that make a failure during the recovery from another one (outbox,
  scheduler, agent); the consumer has four, since a record can fail, be cancelled,
  die and restart. `SchedulerDirect.cfg` and `Registry.cfg` have one, for their
  size: two requests at once, or two workers, already interleave with the failure.
  The violations need none.
* Outbox: three rows with a batch of two and two equal `created_at`, so that the
  batch is smaller than the backlog, the choice among rows of equal age matters,
  and a poison row takes a place. Two runs suffice for one to hold a stale copy
  of what the other settles. `MaxAttempts` caps a column nothing reads.
* Consumer: a record of each kind; two chats, one blocked; one retry, so that
  there are a first, a next and a last attempt.
* Scheduler: `SchedulerOutbox.cfg` has a healthy and a broken link with pages of
  one, so a scan is two pages, and three instants: baseline, update, later update;
  the source answers with one item at a time, so that the later update cuts off
  the earlier one if no check comes between.
  `SchedulerDirect.cfg` has three links, pages of two, two workers: a page that
  is shared out and one that is not full; again three instants, so that a comment
  can lie between the watermark and the newest answer. `SchedulerOverlap.cfg` has
  two scans, two texts of an error and two instants for one link: a first look and
  an update that both scans can find. `MaxEdits` bounds the calls of the registry;
  since every run starts with any subscriptions, one is enough to take a link away
  between two pages of a scan, or to add it again. Chunks of more than one link for
  a worker, and pages that do not divide evenly, are left to the proof of
  `ScansAreComplete`.
* Registry: two chats, since a chat's list goes out of date when its neighbour adds
  the same link; one link; two names of tags; two handlers; any chats registered at
  the start. Two writes are one that fills the tables and one that interferes; one
  scan moves the watermark. `Offered` leaves the neighbour with `GET /list` and
  `AddLink`, which is all that touches another chat's list.
* Agent: one record of each kind in the order long, garbled, filtered, short, so
  that the first and the last are published and what lies between is not. The
  summarizer is put right at the first restart: misconfigured, then the stub, then a
  remote one (`Mended`), so that a record that failed can be handled later.
* Transports: two updates, so that a handler of the first call can work on during
  the second; two chats, so that a failure can come between them; two attempts,
  with 429 and 500 as the statuses to retry; three faults, one for each attempt
  and one for the fallback.
* Dialogue: four messages are enough for `/track`, URL, tags and one more message
  that meets the result; a page under a subdomain of GitHub, a host that only looks
  like GitHub and a page of StackOverflow that is no question; one tag; two faults, so that a lost answer
  over HTTP can be followed by one over gRPC.
* Breaker and limiter: two workers, so that one can be a straggler of the other's
  half-open state; two probes, a threshold of one half, windows of two requests;
  two addresses; a cleanup due at every tick and a TTL that just allows a bucket
  to fill up. Nothing else is bounded: both run for ever.

The proofs of section 5 do not depend on these bounds.

One assumption is part of a property's meaning. `ImplementsTokenBucket` needs a TTL
in which an empty bucket fills up (`LimiterAssumption`): the defaults have five
minutes for two seconds' worth of tokens, but nothing in the code enforces it. And
`NothingIsLost` and `OnlyNewsIsSaved` are properties of the outbox mode, as their
theorems say.

### 3.2 Fairness

* gocron ticks for ever, so `StartScan` and `Fetch` (outbox) are weakly fair.
* Every call returns with an answer or an error, so the steps of a run, a worker, a
  request or the consumer are weakly fair, with success and failure in the same
  step; faults run out because they are bounded. For most calls the code sees to
  it: the HTTP clients of sources, bot and scrapper have deadlines, `ProduceRaw`
  waits for its delivery report or the context. For some it is an assumption: the
  Telegram client has no timeout, so that a send ends is assumed in
  `RecordsAreSettled` and in `CallsReturn`, and a statement ends because
  PostgreSQL answers or its connection breaks.
* The TTL of a cache entry passes (`SET EX`); a `time.AfterFunc` fires and its
  goroutine gets the lock.
* Nobody is obliged to restart a process, to send a request, to post, or to
  produce. `RecordsAreSettled` (consumer) therefore speaks of a consumer that
  lives.
* Transports: the goroutine of the caller runs on and the deadline of an HTTP
  request passes, so nothing is asked of the handlers over HTTP. A call over gRPC
  has no deadline: that its handler comes to an end, each send to Telegram being
  answered or failing, is assumed. `CallsReturn` says nothing of a send that is never
  answered; it would hold the scheduler's worker for ever.
* Dialogue: the loop runs on; a call over HTTP ends at its deadline, one over gRPC
  because the scrapper's statements return; a message Telegram repeats arrives.
* Worker calls: the breaker's wait ends, calls return, requests at the limiter are
  decided. A worker comes to its next fetch again and again although the breaker
  and its other work disable it in between, hence strong fairness of `Fetch`.

`CHECK_DEADLOCK FALSE` stands only where the system may stop: the consumer that
has returned, the agent and the consumer when all records are done and no fault
is left, the transports when all calls have returned, the dialogue when the user
has nothing more to say.

## 4. Refinement

`AtLeastOnce` has three sets: accepted, relayed, settled. The outbox accepts a row
with the transaction of the scheduler, relays it when the topic has it, settles
it with SENT. The consumer accepts what the broker has appended, relays a record
when all its chats or the DLQ have it, settles it with the commit. `ImplementsHop`
is checked by TLC and proved for both. The agent is *not* such a hop: it commits
what is only in a buffer. Its property is the weaker `CommittedIsKept`, which
names how an update can be lost.

`TokenBucket` has one bucket for each address that is never forgotten. The
limiters implement it under the mapping that takes an address without a limiter
for a full bucket. What could break it: a cleanup that drops a limiter which is
not full, or one that a handler has found and is about to ask. `ImplementsTokenBucket`
is checked by TLC and proved.

## 5. What is proved

All theorems are for every value of the constants that satisfies the named
assumptions (`...Assumption`) of the module, and for any number of faults.

**OutboxPublisher** (`OutboxPublisherProofs`). `SentIsPublished` is not inductive:
it does not say what a run is about to mark. `RunsAreSound` adds that a run holds
committed rows only and, between a successful produce and the UPDATE, that the
topic has its current row. `IndInv` is the conjunction; the theorems are
`PublisherInvariant`, `SentRowsArePublished`, `SentStaysSent`,
`SettledRowsStayPut` and `OutboxImplementsHop`.

`DuplicatesHaveABound` counts. A run can still repeat a row if it holds it, or may
select it because it is PENDING, and has not just published it (`CanRepeat`). The
copies and those runs together never exceed one for each run and one more for each
run and fault (`CopiesAreCounted`); a fault gives back at most one chance to each
run, and it is paid for. The runs have to be finitely many (`RunsAssumption`).

Two theorems mark the boundary of starvation, the known loss of section 3.
`StarvedRowsStayStarved`: a row with `BatchSize` stuck rows before it (`Starved`)
is never published by any step, because a row once stuck, PENDING and refused by
the broker, stays so, and the query is a function of age. `GoodRowsAreReached`: with
fewer refused rows than places, no batch is filled by them, so that every batch
holds for each pending good row that row or a good one that is not younger. What is
left to TLC is the fairness that turns this into `EventuallySent`.

**UpdateConsumer** (`UpdateConsumerProofs`). That committed records are accounted
for needs to know where the record in hand stands: it is the one after the
committed offset, the chats before `chat` have it, and in `commit` it is
accounted for. From `IndInv` follow `ConsumerInvariant`, `CommitsAreInOrder`,
`ConsumerImplementsHop` and, with the further lemma that nothing ahead of the
position has been touched beyond the record after the committed one,
`RecordsDoNotOvertake`.

Two more invariants count. `AttemptsAreCounted`: the failures of the record in
hand are at least the attempts behind it, so that one that goes to the dead letter
queue has had all of them or was cut short; `DeadLettersAreTheLastResort` follows.
`DeliveriesAreCounted`: what a chat has got in the round under way is bounded by
the attempts of this round, and what it got in earlier rounds by the faults that
ended them; `RepetitionsAreBounded` follows.

**Scheduler** (`SchedulerProofs`). `IndInv` has these parts, each kept by every
step of any number of scans and workers.

* `WorkersAreSound`: workers of a scan have disjoint links, and only while their
  scan is at work. It rests on the arithmetic of the chunks of `processBatch`.
* `NoticesAreSound`, `SilencesAreSound`: a silent failure was told, is being told
  by the scan that holds its notice, or nobody tracked the link. Two scans that
  report one link meet in `reportedFailures`, where only one of them gets the entry.
* `DuesAreSound`: what a scan still owes is in the hands of a worker or behind the
  offset. A link that goes moves those behind it one place forward, perhaps past
  the offset, and only these are let off (`Excuse`); one that comes moves them
  back, where the scan still gets to.
* `SourcesAreSound`, `ChecksAreSound`: what a worker found is posted and newer
  than the watermark it read, and the stamp is the time of the newest.
* `FetchIsComplete`: what is newer than the watermark is on the page or cut off; an
  update posted after the fetch is not older than the stamp, and of the same second
  only if it is not alone in it.
* `OverlapsAreSound`: a link that two goroutines have in hand is `contested`, and
  what is news to either of them is `doubtful`. It is what the next two parts know
  about overlapping scans.
* `HandsAreSound`: what was handed on is not newer than the watermark in the table,
  nor than the one a worker read (`WatermarkIsKnown`: the two agree, or the link was
  added again and the table says zero); what is left to send was not handed on.
  Doubtful updates and contested links are left out of it, and nothing else is.
* `AccountIsSound`, with the outbox. `NothingIsLost` is about the whole past and
  survives resets, after which the watermark of the table and the one a check goes
  by are different. So both are kept as accounts (`Accounted`), and for both
  something at the source has their time or the link had its first look later
  (`Dated`): without it, an update posted now could get the time of a watermark that
  is written already.

gocron may start a scan while another is at work, so nothing is assumed about it:
the theorems are for any number of overlapping scans, and say what an overlap may
spoil. Nothing is assumed of the sources either: what a page leaves out is in
`cut`, what shares a second is not `Alone`. Theorems: `SchedulerInvariant`,
`SilencesAreDeserved`, `ScansAreComplete`, `FetchesAreComplete`,
`NothingIsHandedTwice` and `WatermarksGrow`; `NothingReportableIsLost` and
`SavedIsNews` for the outbox mode. The last two belong together: what the watermark
has passed is saved or excused, and what it has passed without being saved never
will be. `FoundIsSentUnlessSomethingFails` says what takes their place without the
outbox, where the watermark moves first: only a failed call, the end of the process
or the last subscriber's leave keeps back what was found.

**Agent** (`AgentProofs`). The invariant joins the safety properties with three
facts about the code. `RecordInHand`: as above, over the loop of
`GroupingService.Add`. `HeldOnce`: an update is in at most one buffer or group of
a chat, only if the consumer has been past it since the last start, and what is
held or still to come was published less often than the process was started;
it rests on `flushChat` removing the buffer under the lock under which it takes
it. `EndOfProcess`: what is left in a process that flushes or is gone. Theorems:
`AgentInvariant`, `CommittedUpdatesAreKept`, `NoBufferIsForgotten`,
`GroupsKeepTheOrder`, `RepetitionsAreBounded`, `FlushAllFlushesAll`.
`StartsAreBought` counts the starts: each but the first was preceded by a signal, a
crash or a failed call, and the end of a process is paid for before `main` has
returned. With the bound by starts this gives `RepetitionsCostAFailure`.

**Registry** (`RegistryProofs`). `RowsHaveOwners` and `StalenessHasACause` are
inductive with the types and the fact that a handler at work has a request. The
argument for the second goes field by field: every statement either leaves the
links, tags and times of a chat's list alone, or belongs to a request that now
stands at its invalidation, or leaves the cause that excuses this field and no
other (`EffectLinks`, `EffectTags`, `EffectTimes`). No cause but a late fill or a
lost answer excuses the links. Theorems: `RegistryInvariant`,
`RowsKeepTheirOwners`, `StaleEntriesAreExplained`.

**Transports** (`TransportsProofs`). What a returned call means needs to know what
its handlers have done: `HandlersInStep` (a handler that is at a chat has been past
the ones before it), `MessagesHaveSenders` (a message was sent by a handler that
went past its chat, or an answer was lost), `CallsInStep` (nothing is there that
was not asked for) and `NothingBehindTheBack` (where no answer was lost, only the
request somebody waits for is at work). How often a chat gets an update is counted
in requests (`MessagesAreCounted`): a message takes a request that had not been
past the chat and is afterwards. Where no answer was lost, one of these requests at
most is live (`OneLiveRequest`), and the others failed at a chat further on; so a
chat gets an update again only when a chat behind it in the list made an attempt
fail, and the last chat never does. Theorems: `TransportsInvariant`,
`SuccessIsHandled`, `ErrorsAreHonest`, `LateMessagesExplained`,
`RepetitionsExplained`.

**TrackDialogue** (`TrackDialogueProofs`). A claim is made in the step after the
call that justifies it, and a crash or a late effect may come between:
`HandlingFits` says that a link about to be called added is tracked or was changed
by an abandoned request; `ChangesComeLast`, that a command has changed nothing
before the answer to its last request; `SessionEndsWithLink`, that a link is added
by the last call of its session. Theorems: `DialogueInvariant`, `ClaimsAreTrue`,
`FailuresAreExplained`, `OpenSessionsExplained`. `UncheckableLinksOnlyLookAlike`
joins the two parsers with the dialogue: a URL reaches `AddLink` only through the
parser of the bot (`OnlyAcceptable`), and where that one accepts and the host does
not merely look like a site's, the parser of the scrapper accepts as well
(`ParsersAgree`).

**CircuitBreaker in WorkerCalls** (`WorkerCallsProofs`). That the breaker decides
on its probes relates three sets of counters: the library's, those of
`IsSuccessful`, and the calls themselves. `ProbesAreCounted`: in the half-open
state every admitted request is a probe that runs or was judged, every judged one
was recorded as a success or waits to be, and those are fewer than `Permitted`.
`VerdictsAreSound`: without stragglers the only probe judged a failure is the last
one, and it is if too many failed. From the invariant follow
`BreakerDecidesOnItsProbes` and `HalfOpenIsNeverStuck`: a half-open breaker that
refuses calls has a probe under way, so that it does not refuse them for ever; it
has no timer that would help.

**RateLimiter in WorkerCalls** (`WorkerCallsProofs`). `LimitersBelong`: every
limiter belongs to one address and the one a handler has found is still its
address's, because the last use is at most two pauses old and the TTL is longer.
`IdleLimitersRefill`: what was not used for `k` ticks beyond that holds at least
`k * Rate` tokens, so a limiter that is dropped is full. That there is always an
unused limiter in the model's pool is a counting argument
(`LimitersSuffice`). Theorems: `LimitersInvariant`, `LimiterIsTokenBucket`;
`CallsInvariant` joins the invariants of breaker and limiters.

### 5.1 Model-checked only

Liveness, which needs fairness and ENABLED: `EventuallySent`,
`LinksKeepBeingChecked`, `UpdatesAreHanded`, `RecordsAreSettled`, `StalenessEnds`,
`UpdatesLeave`, `CallsReturn`, `MessagesAreAnswered`, `Recovers`. Every invariant,
action property and refinement that a passing run checks is also a theorem.

Proved and in no run: `WatermarkGrows`, `OnlyNewsIsSaved`,
`SentUnlessFailed`, `VerdictIsComing`, `RepetitionsAreExplained`,
`StarvationIsForGood`, `BatchesReachGoodRows`, `RepetitionsAreBought` and, in their
modules, `SentIsFinal`, `SettledForGood` and `CommitsInOrder`. Each was first checked
on the configuration of its module. The two facts that `RepetitionsAreExplained`
follows from, `MessagesAreCounted` and `OneLiveRequest`, are part of the `IndInv`
that the run `transports` checks.

## 6. What is not modelled

* `getWithClientSideCache`: the Valkey client keeps a copy that the server
  invalidates; it adds a delay to a stale answer.
* A grouping window of zero, in which `Add` publishes directly.
* What the filter and the priority look for in a text, the wording of previews,
  messages and reports; a text is at most a kind of record.
* Retries, timeouts and the breaker inside one call to a source, in `Scheduler`: the
  call fails or it does not. What a summarizer makes of a text.
* The publication order of the agent's groups: `Produce` is called outside the lock,
  so groups of a chat may overtake one another, and no property says they do not.
  `GroupsAreInOrder` is about the order within groups and against the buffer.
* Half-open states in which a straggler is judged: `DecidesOnItsProbes` excuses them,
  because the counters of `IsSuccessful` count it; `Recovers` covers them in so far
  as the breaker closes in the end.
* The breaker in front of the bot's calls to the scrapper: the loop of the bot is
  one goroutine, so it has no concurrent callers; an open breaker is a call that
  fails (`NotServed`). The limiter of the scrapper's server is the bot's.
* `TrackService.Cancel`, which the dispatcher bypasses by resetting the session,
  and the branch of `HandleTags` for a link that is tracked already
  (`track_service.go:91`): the scrapper never answers so. `DeleteChat` of the bot's
  clients, which no command calls.
* URLs outside the table of `LinkParsers`, which has one subdomain besides `www.`.
  Both parsers take any (`gist.github.com`), and a scan then asks the API about a
  repository of that name, which may not exist: to `Scheduler` such a link is a
  broken one. In the table, a host in capitals is refused by
  the bot and could be checked by the scrapper; a host that contains a site's name
  is accepted by the bot, against the text of its own refusal
  (`track_service.go:51`), and can never be checked.
* `ListTags`, `ListByTag`: they read only.
* Avro encoding (a record can be decoded or not), configuration (its values are
  the constants), metrics, logging, generated code, load tests, deployment.
* Locks of the database: a deadlock between two transactions is a statement that
  fails (`CallFails`), and no property watches it.
* Thresholds of the breaker are whole numbers of percent, with no upper bound, as
  `normalizeCircuitBreakerConfig` leaves them; fractions would change nothing.

## 7. Plan

Done: the modules of section 2, in the order outbox, scheduler, consumer,
registry, agent, transports, dialogue and parsers, breaker and limiter, with the
proofs of section 5.

Left out, with the reason:

* A composition of outbox, agent and consumer in one state space. What it could say
  beyond the hops is that topics connect them, and the agent's hop is not one of
  `AtLeastOnce`: the composed promise would be the disjunction of the named losses
  that `CommittedIsKept` has already.
* The window of the rate limiter as a bound on the requests in an interval: it
  follows from `TokenBucket`, whose bucket holds `Burst` and gains `Rate` a tick, by
  an induction over the interval that no installed prover does.
* That groups of one chat do not overlap in what they hold is `HeldOnce` with
  `GroupsAreInOrder`; it has no name of its own.
