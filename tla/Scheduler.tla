----------------------------- MODULE Scheduler -----------------------------
(***************************************************************************)
(* The scan of the tracked links by the scrapper (scheduler.go), with the  *)
(* tables it shares with the HTTP and gRPC handlers (links, subscriptions, *)
(* outbox_messages) and the pages it reads from GitHub and StackOverflow.  *)
(*                                                                         *)
(* gocron starts CheckLinks on every tick, also while an earlier call is   *)
(* still at work.  A scan walks over the tracked links page by page; the   *)
(* links of a page are shared out among WorkerCount goroutines; after they *)
(* have all returned, the failures of the page are reported.  Every call   *)
(* to the database, to a source or to the bot is a step of its own, so the *)
(* registry, the sources and other scans act in between.                   *)
(***************************************************************************)
EXTENDS Integers, FiniteSets, FiniteSetsExt

CONSTANTS
    Links,          \* links.id, in the order of ORDER BY l.id
    Kind,           \* the source of every link: "github" or "stackoverflow"
    Broken,         \* links whose source answers with an error for ever
    Chats,
    Scans,          \* calls of CheckLinks that can be in progress at once
    BatchSize,      \* LINK_BATCH_SIZE
    WorkerCount,
    PerPage,        \* items in a page of a source
    OutboxEnabled,
    Errors,         \* texts of an error (MakeErrorPreview)
    None,           \* no error
    MaxClock,       \* bound on time; time 0 is time.Time{}
    MaxPerTick,     \* updates of one feed with the same creation time
    MaxEdits,       \* bound on calls of the registry
    MaxFaults       \* bound on failed calls and crashes

ASSUME LinksAssumption == Links \subseteq Nat /\ IsFiniteSet(Links)
ASSUME KindAssumption == Kind \in [Links -> {"github", "stackoverflow"}]
ASSUME BrokenAssumption == Broken \subseteq Links
ASSUME SizesAssumption == /\ BatchSize \in Nat \ {0}
                          /\ WorkerCount \in Nat \ {0}
                          /\ PerPage \in Nat \ {0}
ASSUME OutboxAssumption == OutboxEnabled \in BOOLEAN
ASSUME ErrorsAssumption == Errors # {} /\ None \notin Errors
ASSUME BoundsAssumption == /\ MaxClock \in Nat \ {0}
                           /\ MaxPerTick \in Nat \ {0}
                           /\ MaxEdits \in Nat
                           /\ MaxFaults \in Nat

Time == 0 .. MaxClock
Feeds == {"issues", "answers", "comments"}
Updates == [feed : Feeds, at : Time \ {0}, nr : 1 .. MaxPerTick]
Workers == Scans \X (1 .. WorkerCount)

VARIABLES
    \* the database
    lastUpdated,  \* links.last_updated
    subs,         \* subscriptions of every link
    \* the sources
    clock,
    posted,       \* updates that exist at the source of every link
    \* the scans
    phase, offset, page, since, failed, notice,
    \* their worker goroutines
    todo, step, found, stamp,
    \* the scheduler's memory
    reported,     \* reportedFailures
    \* bounds
    edits, faults,
    \* history
    handed,       \* <<link, update>>: outbox row saved or SendUpdate made
    handedTwice,  \* handed more than once
    skipped,      \* passed over because the link had no subscriber
    base,         \* the watermark that the latest first look at a link set
    cut,          \* newer than the watermark, but beyond the page of a check
    contested,    \* links that another scan had in hand when they were read
    doubtful,     \* updates that were news to a scan of a contested link
    due,          \* links every scan in progress has yet to check
    told,         \* errors the subscribers know, since the last clear
    muted         \* the entry of reportedFailures was made for nobody

registry == <<lastUpdated, subs>>
sources == <<clock, posted>>
scans == <<phase, offset, page, since, failed, notice>>
workers == <<todo, step, found, stamp>>
bounds == <<edits, faults>>
log == <<handed, handedTwice, skipped, base, cut>>
overlap == <<contested, doubtful>>
memory == <<reported, told, muted>>
vars == <<registry, sources, scans, workers, bounds, log, overlap, memory, due>>

Phases == {"idle", "page", "work", "report", "lookup", "notify"}
Steps == {"fetch", "comments", "baseline", "advance", "subscribers", "skip",
          "save", "send"}

TypeOK ==
    /\ lastUpdated \in [Links -> Time]
    /\ subs \in [Links -> SUBSET Chats]
    /\ clock \in Time \ {0}
    /\ posted \in [Links -> SUBSET Updates]
    /\ phase \in [Scans -> Phases]
    /\ offset \in [Scans -> Nat]
    /\ page \in [Scans -> SUBSET Links]
    /\ since \in [Scans -> [Links -> Time]]
    /\ failed \in [Scans -> SUBSET (Links \X Errors)]
    /\ notice \in [Scans -> (Links \X Errors) \cup {None}]
    /\ todo \in [Workers -> SUBSET Links]
    /\ step \in [Workers -> Steps]
    /\ found \in [Workers -> SUBSET Updates]
    /\ stamp \in [Workers -> Time]
    /\ reported \in [Links -> Errors \cup {None}]
    /\ edits \in Nat
    /\ faults \in Nat
    /\ handed \subseteq Links \X Updates
    /\ handedTwice \subseteq Links \X Updates
    /\ skipped \subseteq Links \X Updates
    /\ base \in [Links -> Time]
    /\ cut \subseteq Links \X Updates
    /\ contested \subseteq Links
    /\ doubtful \subseteq Links \X Updates
    /\ due \in [Scans -> SUBSET Links]
    /\ told \in [Links -> SUBSET Errors]
    /\ muted \in [Links -> BOOLEAN]

Init ==
    /\ lastUpdated = [l \in Links |-> 0]
    /\ subs \in [Links -> SUBSET Chats]
    /\ clock = 1
    /\ posted = [l \in Links |-> {}]
    /\ phase = [s \in Scans |-> "idle"]
    /\ offset = [s \in Scans |-> 0]
    /\ page = [s \in Scans |-> {}]
    /\ since = [s \in Scans |-> [l \in Links |-> 0]]
    /\ failed = [s \in Scans |-> {}]
    /\ notice = [s \in Scans |-> None]
    /\ todo = [w \in Workers |-> {}]
    /\ step = [w \in Workers |-> "fetch"]
    /\ found = [w \in Workers |-> {}]
    /\ stamp = [w \in Workers |-> 0]
    /\ reported = [l \in Links |-> None]
    /\ edits = MaxEdits
    /\ faults = MaxFaults
    /\ handed = {}
    /\ handedTwice = {}
    /\ skipped = {}
    /\ base = [l \in Links |-> 0]
    /\ cut = {}
    /\ contested = {}
    /\ doubtful = {}
    /\ due = [s \in Scans |-> {}]
    /\ told = [l \in Links |-> {}]
    /\ muted = [l \in Links |-> FALSE]

---------------------------------------------------------------------------
(* The sources. *)

FirstFeed(l) == IF Kind[l] = "github" THEN "issues" ELSE "answers"

FeedsOf(l) == IF Kind[l] = "github" THEN {"issues"} ELSE {"answers", "comments"}

\* Links that are contested and still to be checked.
Disputed == {l \in contested : \E w \in Workers : l \in todo[w]}

\* Somebody opens an issue or writes an answer or a comment now.  What is
\* posted where the client gets nothing but errors is of no consequence.
Post(l, f) ==
    /\ l \notin Broken
    /\ f \in FeedsOf(l)
    /\ \E nr \in 1 .. MaxPerTick :
          LET u == [feed |-> f, at |-> clock, nr |-> nr]
          IN  /\ u \notin posted[l]
              /\ posted' = [posted EXCEPT ![l] = @ \cup {u}]
              /\ doubtful' = doubtful \cup (({l} \cap Disputed) \X {u})
    /\ UNCHANGED <<clock, registry, scans, workers, bounds, log, memory, due,
                   contested>>

Tick ==
    /\ clock < MaxClock
    /\ clock' = clock + 1
    /\ UNCHANGED <<posted, registry, scans, workers, bounds, log, overlap,
                   memory, due>>

OfFeed(l, f) == {u \in posted[l] : u.feed = f}

\* The page of a feed: sorted by creation time, newest first, cut at PerPage.
\* Updates of one second come in any order.
Pages(l, f) ==
    {P \in SUBSET OfFeed(l, f) :
        /\ \/ P = OfFeed(l, f) /\ Cardinality(P) <= PerPage
           \/ Cardinality(P) = PerPage
        /\ \A u \in P, v \in OfFeed(l, f) \ P : u.at >= v.at}

\* Mutant: a watermark that is off by one.
NewerThanNext(P, t) == {u \in P : u.at > t + 1}

\* The client drops what is not newer than the watermark it was given; a zero
\* watermark drops nothing.
NewerThan(P, t) == {u \in P : u.at > t}

---------------------------------------------------------------------------
(* The registry. *)

Tracked == {l \in Links : subs[l] # {}}

\* A scan that is under way need not reach a link that lost its last
\* subscriber, nor the links after it, which move up one place.
Excuse(gone) ==
    due' = [s \in Scans |->
              {l \in due[s] : \A g \in gone : l < g}]

\* LinkRepository.Add: the row is inserted, or updated if another chat (or the
\* same one) tracks the link already, with the zero time of the request.
AddLink(c, l) ==
    /\ edits > 0
    /\ edits' = edits - 1
    /\ lastUpdated' = [lastUpdated EXCEPT ![l] = 0]
    /\ subs' = [subs EXCEPT ![l] = @ \cup {c}]
    /\ UNCHANGED <<faults, sources, scans, workers, log, overlap, memory, due>>

\* LinkRepository.Remove: the subscription goes, the row of the link stays.
RemoveLink(c, l) ==
    /\ edits > 0
    /\ c \in subs[l]
    /\ edits' = edits - 1
    /\ subs' = [subs EXCEPT ![l] = @ \ {c}]
    /\ Excuse({g \in {l} : subs[g] = {c}})
    /\ UNCHANGED <<lastUpdated, faults, sources, scans, workers, log, overlap,
                   memory>>

---------------------------------------------------------------------------
(* CheckLinks: the pages. *)

Place(l, S) == Cardinality({k \in S : k < l})

\* Mutant: OFFSET counts from one.
BatchAfter(from) ==
    {l \in Tracked : /\ from < Place(l, Tracked)
                     /\ Place(l, Tracked) <= from + BatchSize}

\* GetTrackedLinksBatch: LIMIT and OFFSET over the tracked links by id.
Batch(from) ==
    {l \in Tracked : /\ from <= Place(l, Tracked)
                     /\ Place(l, Tracked) < from + BatchSize}

\* The part of the page that goroutine i is given.
Chunk(P, i) ==
    LET n == Cardinality(P)
        used == IF WorkerCount > n THEN n ELSE WorkerCount
        size == (n + used - 1) \div used
    IN  {l \in P : i <= used /\ Place(l, P) \div size = i - 1}

StartScan(s) ==
    /\ phase[s] = "idle"
    /\ phase' = [phase EXCEPT ![s] = "page"]
    /\ offset' = [offset EXCEPT ![s] = 0]
    /\ due' = [due EXCEPT ![s] = Tracked]
    /\ UNCHANGED <<page, since, failed, notice, registry, sources, workers,
                   bounds, log, overlap, memory>>

\* Scans overlap: links of the page P that another scan has yet to check, and
\* what is news at them to that scan or to the one that reads the page now.
Shared(s, P) == {l \in P : \E w \in Workers : w[1] # s /\ l \in todo[w]}

NewsOf(l) == {u \in posted[l] : \E w \in Workers :
                                   l \in todo[w] /\ since[w[1]][l] < u.at}

FetchBatch(s) ==
    LET P == Batch(offset[s]) IN
    /\ phase[s] = "page"
    /\ P # {}
    /\ phase' = [phase EXCEPT ![s] = "work"]
    /\ page' = [page EXCEPT ![s] = P]
    /\ since' = [since EXCEPT ![s] =
                   [l \in Links |-> IF l \in P THEN lastUpdated[l] ELSE 0]]
    /\ todo' = [w \in Workers |-> IF w[1] = s THEN Chunk(P, w[2]) ELSE todo[w]]
    /\ UNCHANGED <<offset, failed, notice, step, found, stamp, registry,
                   sources, bounds, log, memory, due>>
    /\ contested' = (contested \ P) \cup Shared(s, P)
    /\ doubtful' = doubtful \cup {d \in Shared(s, P) \X Updates :
                                     d[2] \in NewsOf(d[1])'}

\* No link is left.
EndScan(s) ==
    /\ phase[s] = "page"
    /\ Batch(offset[s]) = {}
    /\ phase' = [phase EXCEPT ![s] = "idle"]
    /\ UNCHANGED <<offset, page, since, failed, notice, registry, sources,
                   workers, bounds, log, overlap, memory, due>>

\* The query fails: the scan gives up.
AbortScan(s) ==
    /\ phase[s] = "page"
    /\ faults > 0
    /\ faults' = faults - 1
    /\ phase' = [phase EXCEPT ![s] = "idle"]
    /\ due' = [due EXCEPT ![s] = {}]
    /\ UNCHANGED <<offset, page, since, failed, notice, registry, sources,
                   workers, edits, log, overlap, memory>>

\* wg.Wait returns.
JoinWorkers(s) ==
    /\ phase[s] = "work"
    /\ \A w \in Workers : w[1] = s => todo[w] = {}
    /\ phase' = [phase EXCEPT ![s] = "report"]
    /\ UNCHANGED <<offset, page, since, failed, notice, registry, sources,
                   workers, bounds, log, overlap, memory, due>>

---------------------------------------------------------------------------
(* processLink: one worker and the link it has in hand. *)

InHand(w) == Min(todo[w])

Working(w, where) ==
    /\ phase[w[1]] = "work"
    /\ todo[w] # {}
    /\ step[w] = where

Watermark(w) == since[w[1]][InHand(w)]

Forget(l) ==
    /\ reported' = [reported EXCEPT ![l] = None]
    /\ told' = [told EXCEPT ![l] = {}]
    /\ muted' = [muted EXCEPT ![l] = FALSE]

\* The worker goes on to the next link of its part.
Release(w) ==
    /\ todo' = [todo EXCEPT ![w] = @ \ {InHand(w)}]
    /\ step' = [step EXCEPT ![w] = "fetch"]
    /\ found' = [found EXCEPT ![w] = {}]
    /\ stamp' = [stamp EXCEPT ![w] = 0]
    /\ due' = [due EXCEPT ![w[1]] = @ \ {InHand(w)}]
    /\ UNCHANGED <<phase, offset, page, since, notice>>

\* processLink returns nil: clearReportedFailure.
Succeed(w) ==
    /\ Release(w)
    /\ Forget(InHand(w))
    /\ UNCHANGED failed

\* processLink returns an error: it is kept until the other workers are done.
Fail(w, e) ==
    /\ Release(w)
    /\ failed' = [failed EXCEPT ![w[1]] = @ \cup {<<InHand(w), e>>}]
    /\ UNCHANGED memory

GoOn(w, where) ==
    /\ step' = [step EXCEPT ![w] = where]
    /\ UNCHANGED <<todo, scans, memory, due>>

\* What processLink makes of the updates ups that the client returned.
Evaluate(w, ups) ==
    LET newest == Max({Watermark(w)} \cup {u.at : u \in ups})
    IN  \/ /\ Watermark(w) = 0
           /\ stamp' = [stamp EXCEPT ![w] = IF newest = 0 THEN clock ELSE newest]
           /\ GoOn(w, "baseline")
           /\ UNCHANGED found
        \/ Watermark(w) # 0 /\ ups = {} /\ Succeed(w)
        \/ /\ Watermark(w) # 0 /\ ups # {}
           /\ found' = [found EXCEPT ![w] = ups]
           /\ stamp' = [stamp EXCEPT ![w] = newest]
           /\ GoOn(w, IF ~OutboxEnabled /\ newest > Watermark(w)
                      THEN "advance" ELSE "subscribers")

\* What a page of the feed f leaves out although it is news.
CutOff(w, f, P) ==
    cut' = cut \cup
             ({InHand(w)} \X {u \in OfFeed(InHand(w), f) \ P :
                                Watermark(w) # 0 /\ Watermark(w) < u.at})

\* The issues of a repository, or the answers to a question.
Fetch(w) ==
    /\ Working(w, "fetch")
    /\ InHand(w) \notin Broken
    /\ \E P \in Pages(InHand(w), FirstFeed(InHand(w))) :
          LET ups == NewerThan(P, Watermark(w))
          IN  /\ \/ Kind[InHand(w)] = "github" /\ Evaluate(w, ups)
                 \/ /\ Kind[InHand(w)] = "stackoverflow"
                    /\ found' = [found EXCEPT ![w] = ups]
                    /\ GoOn(w, "comments")
                    /\ UNCHANGED stamp
              /\ CutOff(w, FirstFeed(InHand(w)), P)
    /\ UNCHANGED <<registry, sources, bounds, handed, handedTwice, skipped,
                   base, overlap>>

\* The comments are a second request.
FetchComments(w) ==
    /\ Working(w, "comments")
    /\ \E P \in Pages(InHand(w), "comments") :
          /\ Evaluate(w, found[w] \cup NewerThan(P, Watermark(w)))
          /\ CutOff(w, "comments", P)
    /\ UNCHANGED <<registry, sources, bounds, handed, handedTwice, skipped,
                   base, overlap>>

FetchBroken(w) ==
    /\ Working(w, "fetch")
    /\ InHand(w) \in Broken
    /\ Fail(w, CHOOSE e \in Errors : TRUE)
    /\ UNCHANGED <<registry, sources, bounds, log, overlap>>

\* Mutant: the time of the check instead of that of the newest update.
UpdateLastUpdatedNow(w) ==
    /\ lastUpdated' = [lastUpdated EXCEPT ![InHand(w)] = clock]
    /\ UNCHANGED subs

UpdateLastUpdated(w) ==
    /\ lastUpdated' = [lastUpdated EXCEPT ![InHand(w)] = stamp[w]]
    /\ UNCHANGED subs

\* First look at a link: only the watermark is set.  If an overlapping scan has
\* set it meanwhile, nothing begins anew, unless there is no update yet to date
\* the link by.
FirstLook(w) ==
    /\ UpdateLastUpdated(w)
    /\ base' = IF \/ lastUpdated[InHand(w)] = 0
                   \/ \A u \in posted[InHand(w)] : u.at # stamp[w]
               THEN [base EXCEPT ![InHand(w)] = stamp[w]]
               ELSE base
    /\ UNCHANGED <<handed, handedTwice, skipped, cut>>

Baseline(w) ==
    /\ Working(w, "baseline")
    /\ FirstLook(w)
    /\ Succeed(w)
    /\ UNCHANGED <<sources, bounds, overlap>>

\* Mutant: the write before the loop over the updates is left out.
AdvanceNot(w) ==
    /\ Working(w, "advance")
    /\ GoOn(w, "subscribers")
    /\ UNCHANGED <<found, stamp, registry, sources, bounds, log, overlap>>

\* Without the outbox the watermark moves before anything is sent.
Advance(w) ==
    /\ Working(w, "advance")
    /\ UpdateLastUpdated(w)
    /\ GoOn(w, "subscribers")
    /\ UNCHANGED <<found, stamp, sources, bounds, log, overlap>>

FindSubscribers(w) ==
    /\ Working(w, "subscribers")
    /\ \/ /\ subs[InHand(w)] = {}
          /\ \/ /\ OutboxEnabled /\ stamp[w] > Watermark(w)
                /\ GoOn(w, "skip")
                /\ UNCHANGED <<found, stamp>>
             \/ /\ ~(OutboxEnabled /\ stamp[w] > Watermark(w))
                /\ Succeed(w)
       \/ /\ subs[InHand(w)] # {}
          /\ GoOn(w, IF OutboxEnabled THEN "save" ELSE "send")
          /\ UNCHANGED <<found, stamp>>
    /\ UNCHANGED <<registry, sources, bounds, log, overlap>>

PassOver(w) ==
    /\ UpdateLastUpdated(w)
    /\ skipped' = skipped \cup ({InHand(w)} \X found[w])
    /\ UNCHANGED <<handed, handedTwice, base, cut>>

Skip(w) ==
    /\ Working(w, "skip")
    /\ PassOver(w)
    /\ Succeed(w)
    /\ UNCHANGED <<sources, bounds, overlap>>

\* The row has its new watermark, but the answer is lost.
UpdateAckLost(w) ==
    /\ \/ Working(w, "baseline") /\ FirstLook(w)
       \/ Working(w, "advance") /\ UpdateLastUpdated(w) /\ UNCHANGED log
       \/ Working(w, "skip") /\ PassOver(w)
    /\ faults > 0
    /\ faults' = faults - 1
    /\ \E e \in Errors : Fail(w, e)
    /\ UNCHANGED <<sources, edits, overlap>>

Hand(l, ups) ==
    /\ handed' = handed \cup ({l} \X ups)
    /\ handedTwice' = handedTwice \cup (handed \cap ({l} \X ups))
    /\ UNCHANGED <<skipped, base, cut>>

\* SaveLinkUpdateOutbox: watermark and messages in one transaction.
SaveOutbox(w) ==
    /\ IF stamp[w] > Watermark(w) THEN UpdateLastUpdated(w)
                                  ELSE UNCHANGED registry
    /\ Hand(InHand(w), found[w])

Save(w) ==
    /\ Working(w, "save")
    /\ SaveOutbox(w)
    /\ Succeed(w)
    /\ UNCHANGED <<sources, bounds, overlap>>

\* The transaction commits, but the answer to COMMIT is lost.
SaveAckLost(w) ==
    /\ Working(w, "save")
    /\ faults > 0
    /\ faults' = faults - 1
    /\ SaveOutbox(w)
    /\ \E e \in Errors : Fail(w, e)
    /\ UNCHANGED <<sources, edits, overlap>>

\* Updates are sent in the order of the pages: the first feed before the
\* comments, the newest first.
IsNext(w, u) ==
    /\ u \in found[w]
    /\ \A v \in found[w] :
          IF v.feed = u.feed THEN v.at <= u.at ELSE v.feed = "comments"

Send(w) ==
    /\ Working(w, "send")
    /\ \E u \in found[w] :
          /\ IsNext(w, u)
          /\ Hand(InHand(w), {u})
          /\ \/ found[w] = {u} /\ Succeed(w)
             \/ /\ found[w] # {u}
                /\ found' = [found EXCEPT ![w] = @ \ {u}]
                /\ GoOn(w, "send")
                /\ UNCHANGED stamp
    /\ UNCHANGED <<registry, sources, bounds, overlap>>

\* The bot got the update, the scheduler an error.
SendAckLost(w) ==
    /\ Working(w, "send")
    /\ faults > 0
    /\ faults' = faults - 1
    /\ \E u \in found[w] : IsNext(w, u) /\ Hand(InHand(w), {u})
    /\ \E e \in Errors : Fail(w, e)
    /\ UNCHANGED <<registry, sources, edits, overlap>>

\* Mutant: the watermark and the messages are two transactions, and the
\* second one fails.
CallFailsHalfway(w) ==
    /\ Working(w, "save")
    /\ faults > 0
    /\ faults' = faults - 1
    /\ UpdateLastUpdated(w)
    /\ \E e \in Errors : Fail(w, e)
    /\ UNCHANGED <<sources, edits, log, overlap>>

\* Any call of processLink can fail without an effect.
CallFails(w) ==
    /\ \E where \in Steps : Working(w, where)
    /\ faults > 0
    /\ faults' = faults - 1
    /\ \E e \in Errors : Fail(w, e)
    /\ UNCHANGED <<registry, sources, edits, log, overlap>>

---------------------------------------------------------------------------
(* reportLinkFailure. *)

\* shouldReportFailure, atomic under failureMu: the entry is made before it
\* is known whether anybody can be told.
ClaimReport(s) ==
    /\ phase[s] = "report"
    /\ \E f \in failed[s] :
          /\ failed' = [failed EXCEPT ![s] = @ \ {f}]
          /\ \/ reported[f[1]] = f[2] /\ UNCHANGED <<phase, notice, memory>>
             \/ /\ reported[f[1]] # f[2]
                /\ reported' = [reported EXCEPT ![f[1]] = f[2]]
                /\ muted' = [muted EXCEPT ![f[1]] = FALSE]
                /\ notice' = [notice EXCEPT ![s] = f]
                /\ phase' = [phase EXCEPT ![s] = "lookup"]
                /\ UNCHANGED told
    /\ UNCHANGED <<offset, page, since, registry, sources, workers, bounds,
                   log, overlap, due>>

EndReport(s) ==
    /\ notice' = [notice EXCEPT ![s] = None]
    /\ phase' = [phase EXCEPT ![s] = "report"]
    /\ UNCHANGED <<offset, page, since, failed>>

LookupForReport(s) ==
    /\ phase[s] = "lookup"
    /\ LET l == notice[s][1] IN
          \/ /\ subs[l] = {}
             /\ EndReport(s)
             /\ muted' = [muted EXCEPT ![l] = @ \/ reported[l] = notice[s][2]]
             /\ UNCHANGED <<reported, told>>
          \/ /\ subs[l] # {}
             /\ phase' = [phase EXCEPT ![s] = "notify"]
             /\ UNCHANGED <<offset, page, since, failed, notice, memory>>
    /\ UNCHANGED <<registry, sources, workers, bounds, log, overlap, due>>

SendReport(s) ==
    /\ phase[s] = "notify"
    /\ told' = [told EXCEPT ![notice[s][1]] = @ \cup {notice[s][2]}]
    /\ EndReport(s)
    /\ UNCHANGED <<reported, muted, registry, sources, workers, bounds, log,
                   overlap, due>>

\* Mutant: the entry of reportedFailures stays when nobody could be told.
ReportFailsSilently(s) ==
    /\ phase[s] \in {"lookup", "notify"}
    /\ faults > 0
    /\ faults' = faults - 1
    /\ EndReport(s)
    /\ UNCHANGED <<registry, sources, workers, edits, log, overlap, memory,
                   due>>

\* The lookup or the send fails: clearReportedFailure, to try again.
ReportFails(s) ==
    /\ phase[s] \in {"lookup", "notify"}
    /\ faults > 0
    /\ faults' = faults - 1
    /\ Forget(notice[s][1])
    /\ EndReport(s)
    /\ UNCHANGED <<registry, sources, workers, edits, log, overlap, due>>

\* Mutant: the offset moves one link too far.
NextBatchSkips(s) ==
    /\ phase[s] = "report"
    /\ failed[s] = {}
    /\ phase' = [phase EXCEPT ![s] = "page"]
    /\ offset' = [offset EXCEPT ![s] = @ + Cardinality(page[s]) + 1]
    /\ page' = [page EXCEPT ![s] = {}]
    /\ since' = [since EXCEPT ![s] = [l \in Links |-> 0]]
    /\ UNCHANGED <<failed, notice, registry, sources, workers, bounds, log,
                   overlap, memory, due>>

\* offset += len(links)
NextBatch(s) ==
    /\ phase[s] = "report"
    /\ failed[s] = {}
    /\ phase' = [phase EXCEPT ![s] = "page"]
    /\ offset' = [offset EXCEPT ![s] = @ + Cardinality(page[s])]
    /\ page' = [page EXCEPT ![s] = {}]
    /\ since' = [since EXCEPT ![s] = [l \in Links |-> 0]]
    /\ UNCHANGED <<failed, notice, registry, sources, workers, bounds, log,
                   overlap, memory, due>>

\* The process stops and starts again; only the tables stay.
Crash ==
    /\ faults > 0
    /\ faults' = faults - 1
    /\ \E s \in Scans : phase[s] # "idle"
    /\ phase' = [s \in Scans |-> "idle"]
    /\ offset' = [s \in Scans |-> 0]
    /\ page' = [s \in Scans |-> {}]
    /\ since' = [s \in Scans |-> [l \in Links |-> 0]]
    /\ failed' = [s \in Scans |-> {}]
    /\ notice' = [s \in Scans |-> None]
    /\ todo' = [w \in Workers |-> {}]
    /\ step' = [w \in Workers |-> "fetch"]
    /\ found' = [w \in Workers |-> {}]
    /\ stamp' = [w \in Workers |-> 0]
    /\ reported' = [l \in Links |-> None]
    /\ told' = [l \in Links |-> {}]
    /\ muted' = [l \in Links |-> FALSE]
    /\ due' = [s \in Scans |-> {}]
    /\ UNCHANGED <<registry, sources, edits, log, overlap>>

---------------------------------------------------------------------------

WorkerStep(w) ==
    \/ Fetch(w) \/ FetchComments(w) \/ FetchBroken(w) \/ Baseline(w)
    \/ Advance(w) \/ FindSubscribers(w) \/ Skip(w) \/ UpdateAckLost(w)
    \/ Save(w) \/ SaveAckLost(w) \/ Send(w) \/ SendAckLost(w) \/ CallFails(w)

ScanStep(s) ==
    \/ FetchBatch(s) \/ EndScan(s) \/ AbortScan(s) \/ JoinWorkers(s)
    \/ ClaimReport(s) \/ LookupForReport(s) \/ SendReport(s)
    \/ ReportFails(s) \/ NextBatch(s)

Environment ==
    \/ Tick
    \/ \E l \in Links, f \in Feeds : Post(l, f)
    \/ \E c \in Chats, l \in Links : AddLink(c, l) \/ RemoveLink(c, l)

Next ==
    \/ Environment
    \/ \E s \in Scans : StartScan(s) \/ ScanStep(s)
    \/ \E w \in Workers : WorkerStep(w)
    \/ Crash

Spec == Init /\ [][Next]_vars

\* gocron ticks for ever; every call returns, with an answer or an error.
Fairness ==
    /\ \A s \in Scans : WF_vars(StartScan(s)) /\ WF_vars(ScanStep(s))
    /\ \A w \in Workers : WF_vars(WorkerStep(w))

FairSpec == Spec /\ Fairness

---------------------------------------------------------------------------
(* Properties. *)

\* What the scan undertakes to report: the issues of a repository, and of a
\* question the comments, which are asked for last.  Answers that are posted
\* between the two requests are lost (GetNewAnswersAndComments).
Promised(l, u) == Kind[l] = "github" \/ u.feed = "comments"

\* Nothing else at the link has the second of u.
Alone(l, u) == \A v \in posted[l] : v.at = u.at => v = u

\* What lies between two watermarks and may not be passed over.  What shares
\* the second of the new watermark may have been posted after the fetch.
Covered(l, u, from, to) ==
    /\ Promised(l, u)
    /\ from < u.at
    /\ u.at < to \/ (u.at = to /\ Alone(l, u))

\* What a check is about to record is complete: whatever lies between the
\* watermark it read and the watermark it will write is among the updates
\* it found, or beyond the page, although the source went on while the
\* subscribers were looked up (processLink).
FetchIsComplete ==
    \A w \in Workers :
        (todo[w] # {} /\ step[w] \in {"advance", "subscribers", "skip", "save"})
            => \A u \in posted[InHand(w)] :
                  Covered(InHand(w), u, Watermark(w), stamp[w])
                      => u \in found[w] \/ <<InHand(w), u>> \in cut

\* A watermark only grows, but for the reset of a link that is added again (Add)
\* and for a link that two scans had in hand at once, where the slower one may
\* write back what it read too early (UpdateLastUpdated has no condition).
WatermarkGrows ==
    [][\A l \in Links :
          \/ lastUpdated'[l] = 0
          \/ lastUpdated[l] <= lastUpdated'[l]
          \/ l \in contested]_vars

\* With the outbox an update is saved while the watermark is behind it, and the
\* watermark is past it at once: what a watermark has passed by is never saved
\* later, unless the link was added again or the update was news to a scan that
\* had to share the link (SaveLinkUpdateOutbox).
OnlyNewsIsSaved ==
    [][\A l \in Links, u \in Updates :
          <<l, u>> \in handed' \ handed =>
              /\ \/ lastUpdated[l] = 0
                 \/ lastUpdated[l] < u.at
                 \/ <<l, u>> \in doubtful
              /\ u.at <= lastUpdated'[l]]_vars

\* Without the outbox the watermark has moved before the updates are sent.
\* Each of them is then sent or kept for the next call, unless a call fails or
\* the process ends, or nobody tracks the link any more (processLink).
SentUnlessFailed ==
    [][\A w \in Workers :
          (todo[w] # {} /\ step[w] \in {"subscribers", "send"} /\ ~OutboxEnabled)
             => \A u \in found[w] :
                   \/ todo'[w] = todo[w] /\ u \in found'[w]
                   \/ <<InHand(w), u>> \in handed'
                   \/ faults' < faults
                   \/ step[w] = "subscribers" /\ subs[InHand(w)] = {}]_vars

\* No update is handed on twice, unless it was news to a scan that had to share
\* the link with another one: with the outbox because the rows and the watermark
\* are one transaction, without it because the watermark moves first.
AtMostOnce == handedTwice \subseteq doubtful

\* An entry of reportedFailures silences a failure only if the subscribers
\* know of it, are about to, or there was none to tell.
SilenceIsDeserved ==
    \A l \in Links :
        reported[l] # None =>
            \/ reported[l] \in told[l]
            \/ \E s \in Scans : notice[s] = <<l, reported[l]>>
            \/ muted[l]

\* A scan that came to its end has checked every link that was tracked all
\* along, unless a link before it lost its last subscriber (paging by OFFSET
\* while subscriptions come and go).
ScanIsComplete == \A s \in Scans : phase[s] = "idle" => due[s] = {}

\* Nothing that was posted since the latest first look and is not newer than
\* t was lost, but beyond a page, in a second it shares or among overlapping
\* scans.
Accounted(l, t) ==
    \A u \in posted[l] :
        (Promised(l, u) /\ Alone(l, u) /\ base[l] < u.at /\ u.at <= t)
            => <<l, u>> \in handed \cup skipped \cup cut \cup doubtful

\* The watermark is an honest account of the past: at any time, after any
\* number of checks, failures and crashes, each update since the first look
\* that is not newer than it is in the outbox or was passed over for want of a
\* subscriber, unless it was beyond the page of a check, shares its second with
\* another one or was news to one of two scans that had the link in hand at
\* once: of two first looks the later one passes over what came after the
\* earlier one (processLink, SaveLinkUpdateOutbox).
NothingIsLost == \A l \in Links : Accounted(l, lastUpdated[l])

---------------------------------------------------------------------------
(* Why they hold: the invariant of the proofs. *)

\* A goroutine has links only while its scan is at work, no two goroutines of
\* a scan have a link in common, and one without links is back at its start.
WorkersAreSound ==
    /\ \A w \in Workers :
          /\ todo[w] # {} => phase[w[1]] = "work"
          /\ todo[w] = {} => step[w] = "fetch"
    /\ \A v, w \in Workers : (v[1] = w[1] /\ v # w) => todo[v] \cap todo[w] = {}

\* A scan holds a failure to report exactly while it reports one.
NoticesAreSound ==
    \A s \in Scans :
        IF phase[s] \in {"lookup", "notify"} THEN notice[s] \in Links \X Errors
                                            ELSE notice[s] = None

\* The entries of reportedFailures, with the scan that is about to tell.
SilencesAreSound ==
    \A l \in Links :
        reported[l] # None =>
            \/ reported[l] \in told[l]
            \/ \E s \in Scans : /\ phase[s] \in {"lookup", "notify"}
                                /\ notice[s] = <<l, reported[l]>>
            \/ muted[l]

\* What a scan still owes is in the hands of its goroutines, or behind the
\* offset it will go on from.
DuesAreSound ==
    \A s \in Scans :
        /\ due[s] \subseteq Tracked
        /\ phase[s] = "idle" => due[s] = {}
        /\ phase[s] = "page" =>
              \A l \in due[s] : offset[s] <= Place(l, Tracked)
        /\ phase[s] \notin {"idle", "page"} =>
              \A l \in due[s] :
                  \/ \E w \in Workers : w[1] = s /\ l \in todo[w]
                  \/ offset[s] + Cardinality(page[s]) <= Place(l, Tracked)

\* Updates are of the feeds of their source and not of the future; what was
\* handed on exists.
SourcesAreSound ==
    /\ \A l \in Links : \A u \in posted[l] : u.at <= clock /\ u.feed \in FeedsOf(l)
    /\ \A l \in Links, u \in Updates : <<l, u>> \in handed => u \in posted[l]

\* What a goroutine knows of the link in its hand: the updates it found are
\* at the source and newer than the watermark, and the stamp is the newest.
CheckIsSound(w) ==
    todo[w] # {} =>
        /\ step[w] = "comments" => Kind[InHand(w)] = "stackoverflow"
        /\ step[w] = "baseline" => Watermark(w) = 0
        /\ step[w] \in {"comments", "advance", "subscribers", "skip", "save",
                        "send"} =>
              /\ found[w] \subseteq posted[InHand(w)]
              /\ \A u \in found[w] : Watermark(w) < u.at
        /\ step[w] \in {"advance", "subscribers", "skip", "save", "send"} =>
              /\ Watermark(w) # 0
              /\ \A u \in found[w] : u.at <= stamp[w]
        /\ step[w] \in {"advance", "subscribers", "skip", "save"} =>
              \E u \in found[w] : u.at = stamp[w]
        /\ step[w] \in {"skip", "save"} => OutboxEnabled
        /\ step[w] \in {"advance", "send"} => ~OutboxEnabled

ChecksAreSound == \A w \in Workers : CheckIsSound(w)

\* Two goroutines that have a link in common know it from the history, and what
\* is news to either of them is in doubt.
OverlapsAreSound ==
    /\ \A v, w \in Workers : v # w => todo[v] \cap todo[w] \subseteq contested
    /\ \A w \in Workers : \A l \in todo[w] \cap contested : \A u \in posted[l] :
          since[w[1]][l] < u.at => <<l, u>> \in doubtful

\* What was handed on is not newer than the watermark.
HandedIsOld ==
    \A l \in Links, u \in Updates :
        (<<l, u>> \in handed \ doubtful /\ lastUpdated[l] # 0)
            => u.at <= lastUpdated[l]

\* The link in hand has its new watermark before the updates are sent.
Advanced(w) == ~OutboxEnabled /\ step[w] \in {"subscribers", "send"}

\* The watermark a goroutine goes by is the one in the table, or the table was
\* reset; what was handed on is not newer.
WatermarkIsKnown(w, l) ==
    /\ lastUpdated[l] \in {0, since[w[1]][l]}
    /\ \A u \in Updates :
          (<<l, u>> \in handed \ doubtful /\ since[w[1]][l] # 0)
              => u.at <= since[w[1]][l]

\* What is left to send was not handed on, and the watermark is past it; the
\* first watermark of a link will be past all that was handed on before.
HandIsSound(w) ==
    (todo[w] # {} /\ InHand(w) \notin contested) =>
        /\ Advanced(w) =>
              /\ lastUpdated[InHand(w)] \in {0, stamp[w]}
              /\ \A u \in found[w] : <<InHand(w), u>> \notin handed \ doubtful
        /\ (step[w] = "comments" /\ Watermark(w) = 0) =>
              \A u \in Updates :
                  (<<InHand(w), u>> \in handed \ doubtful /\ u.feed = "answers")
                      => \E v \in found[w] : u.at <= v.at
        /\ step[w] = "baseline" =>
              \A u \in Updates :
                  <<InHand(w), u>> \in handed \ doubtful => u.at <= stamp[w]

\* Nothing is handed on twice, because what was handed on is older than every
\* watermark, those of contested links left aside.
HandsAreSound ==
    /\ AtMostOnce
    /\ HandedIsOld
    /\ \A w \in Workers : \A l \in todo[w] \ contested :
          (l # InHand(w) \/ ~Advanced(w)) => WatermarkIsKnown(w, l)
    /\ \A w \in Workers : HandIsSound(w)

\* A watermark is of the past, and past the first look it is the time of an
\* update: what still gets that time is not alone with it.
Dated(l, t) ==
    /\ t <= clock
    /\ t <= base[l] \/ \E u \in posted[l] : u.at = t

\* With the outbox nothing is lost: neither by the watermark in the table nor by
\* the one a goroutine goes by, which may be another one after a reset.
AccountIsSound ==
    /\ NothingIsLost
    /\ \A l \in Links : Dated(l, lastUpdated[l])
    /\ \A w \in Workers : \A l \in todo[w] :
          /\ Accounted(l, since[w[1]][l])
          /\ l \notin contested => Dated(l, since[w[1]][l])
    /\ \A w \in Workers :
          (todo[w] # {} /\ step[w] = "baseline") => stamp[w] <= clock

\* The inductive invariant.
IndInv ==
    /\ TypeOK
    /\ WorkersAreSound
    /\ NoticesAreSound
    /\ SilencesAreSound
    /\ DuesAreSound
    /\ SourcesAreSound
    /\ ChecksAreSound
    /\ FetchIsComplete
    /\ OverlapsAreSound
    /\ HandsAreSound
    /\ OutboxEnabled => AccountIsSound

---------------------------------------------------------------------------
(* Liveness. *)

\* A link that stays tracked is checked again and again.
LinksKeepBeingChecked ==
    \A l \in Links :
        []<>(l \notin Tracked \/ \E w \in Workers : todo[w] # {} /\ InHand(w) = l)

Awaited(l, u) ==
    /\ u \in posted[l]
    /\ l \in Tracked
    /\ lastUpdated[l] # 0
    /\ u.at > lastUpdated[l]

\* An update newer than the watermark of a tracked link is handed on, unless
\* the link is dropped or registered anew before, or a page is too small, or
\* another update of its second moves the watermark past it.
UpdatesAreHanded ==
    \A l \in Links \ Broken, u \in Updates :
        Awaited(l, u) ~>
            \/ <<l, u>> \in handed \cup cut
            \/ ~Alone(l, u)
            \/ l \notin Tracked
            \/ lastUpdated[l] = 0

\* The promise of the first line of README.md: the bot "tracks changes on web
\* pages and tells the user about them".  What changes while the link is
\* tracked is handed on, unless the link is dropped.
ChangesAreReported ==
    \A l \in Links \ Broken, u \in Updates :
        Awaited(l, u) ~> (<<l, u>> \in handed \/ l \notin Tracked)
=============================================================================
