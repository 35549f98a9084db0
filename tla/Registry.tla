------------------------------ MODULE Registry ------------------------------
(***************************************************************************)
(* The registry of the scrapper: the tables chats, subscriptions, tags and *)
(* subscription_tags, the services that HTTP and gRPC handlers call on     *)
(* them (chat_service.go, link_service.go, tag_service.go), the column     *)
(* links.last_updated, which the scheduler writes too, and the cache of    *)
(* GET /list in Valkey (valkey_list_cache.go).                             *)
(*                                                                         *)
(* A request is several calls: to the cache, to the table of chats, to the *)
(* tables it is about, and to the cache again.  Nothing holds them         *)
(* together, so the steps of concurrent requests interleave, and a failed  *)
(* call or a crash leaves the rest undone.                                 *)
(***************************************************************************)
EXTENDS Naturals, FiniteSets

CONSTANTS
    Handlers,   \* requests in progress at once
    Chats,
    Links,      \* links.url
    Names,      \* names of tags
    Times,      \* values of links.last_updated
    Never,      \* the zero time a new link is stored with
    Offered,    \* requests the instance lets clients make
    MaxWrites,  \* bound on the requests other than GET /list
    MaxScans,   \* bound on the watermarks the scheduler writes
    MaxFaults,  \* bound on failed calls and crashes
    None        \* no entry in the cache, no request in hand

ASSUME NeverAssumption == Never \in Times
ASSUME BoundsAssumption ==
    MaxWrites \in Nat /\ MaxScans \in Nat /\ MaxFaults \in Nat

\* What GET /list answers: the links of a chat with their last_updated, and
\* their tags.
Lists == [links : SUBSET Links,
          times : SUBSET (Links \X Times),
          tags : SUBSET (Links \X Names)]

ASSUME NoneAssumption == None \notin Lists

ChatRequests == [op : {"registerChat", "deleteChat"}, chat : Chats]

LinkRequests ==
    [op : {"list"}, chat : Chats]
    \cup [op : {"add"}, chat : Chats, link : Links, names : SUBSET Names]
    \cup [op : {"remove"}, chat : Chats, link : Links]
    \cup [op : {"removeByTag"}, chat : Chats, name : Names]

TagRequests ==
    [op : {"createTag", "deleteTag"}, chat : Chats, name : Names]
    \cup [op : {"renameTag"}, chat : Chats, name : Names, new : Names]

Requests == ChatRequests \cup LinkRequests \cup TagRequests

ASSUME OfferedAssumption == Offered \subseteq Requests

VARIABLES
    chats,          \* table chats
    subscriptions,  \* table subscriptions
    tags,           \* table tags; an id is as good as a name within a chat
    tagged,         \* table subscription_tags
    lastUpdated,    \* links.last_updated
    entry,          \* the cached list of each chat
    pc,             \* where each request is
    request,        \* what it asks
    rows,           \* what ListLinks has read
    cause,          \* history: why the entry of a chat may be out of date
    writes,
    scans,
    faults

tables == <<chats, subscriptions, tags, tagged, lastUpdated>>
bounds == <<writes, scans, faults>>
vars == <<tables, entry, pc, request, rows, cause, bounds>>

Causes == {"late", "tag", "scan", "reset", "lost"}

TypeOK ==
    /\ chats \subseteq Chats
    /\ subscriptions \subseteq Chats \X Links
    /\ tags \subseteq Chats \X Names
    /\ tagged \subseteq Chats \X Links \X Names
    /\ lastUpdated \in [Links -> Times]
    /\ entry \in [Chats -> Lists \cup {None}]
    /\ pc \in [Handlers -> {"idle", "get", "exists", "execute", "tags", "set",
                            "invalidate"}]
    /\ request \in [Handlers -> Requests \cup {None}]
    /\ rows \in [Handlers -> Lists]
    /\ cause \in [Chats -> SUBSET Causes]
    /\ writes \in Nat
    /\ scans \in Nat
    /\ faults \in Nat

NoRows == [links |-> {}, times |-> {}, tags |-> {}]

\* Any chats may have been registered before the scrapper starts.
Init ==
    /\ chats \in SUBSET Chats
    /\ subscriptions = {}
    /\ tags = {}
    /\ tagged = {}
    /\ lastUpdated = [l \in Links |-> Never]
    /\ entry = [c \in Chats |-> None]
    /\ pc = [h \in Handlers |-> "idle"]
    /\ request = [h \in Handlers |-> None]
    /\ rows = [h \in Handlers |-> NoRows]
    /\ cause = [c \in Chats |-> {}]
    /\ writes = 0
    /\ scans = 0
    /\ faults = MaxFaults

Fault == faults > 0 /\ faults' = faults - 1 /\ UNCHANGED <<writes, scans>>

\* The links of a chat, their last_updated and their tags, as the tables have
\* them.
LinksOf(c) == {l \in Links : <<c, l>> \in subscriptions}
TimesOf(ls) == {x \in ls \X Times : lastUpdated[x[1]] = x[2]}
TagsOf(c, ls) == {x \in ls \X Names : <<c, x[1], x[2]>> \in tagged}
Content(c) == [links |-> LinksOf(c),
               times |-> TimesOf(LinksOf(c)),
               tags |-> TagsOf(c, LinksOf(c))]

---------------------------------------------------------------------------
(* Statements of the repositories; each is one transaction. *)

\* A link that is stored already gets the zero time of the request, whoever
\* has subscribed to it.
Insert(c, l, names) ==
    /\ lastUpdated' = [lastUpdated EXCEPT ![l] = Never]
    /\ subscriptions' = subscriptions \cup {<<c, l>>}
    /\ tags' = tags \cup ({c} \X names)
    /\ tagged' = tagged \cup ({c} \X {l} \X names)
    /\ UNCHANGED chats

\* Mutant: subscription_tags without ON DELETE CASCADE.
UnsubscribeOnly(gone) ==
    /\ subscriptions' = subscriptions \ gone
    /\ UNCHANGED <<chats, tags, tagged, lastUpdated>>

\* DELETE of subscriptions, with the cascade to their tags.
Unsubscribe(gone) ==
    /\ subscriptions' = subscriptions \ gone
    /\ tagged' = {t \in tagged : <<t[1], t[2]>> \notin gone}
    /\ UNCHANGED <<chats, tags, lastUpdated>>

\* DELETE of a chat cascades to everything but the links.
DropChat(c) ==
    /\ UNCHANGED lastUpdated
    /\ chats' = chats \ {c}
    /\ subscriptions' = {s \in subscriptions : s[1] # c}
    /\ tags' = {t \in tags : t[1] # c}
    /\ tagged' = {t \in tagged : t[1] # c}

Rename(c, old, new) ==
    /\ tags' = (tags \ {<<c, old>>}) \cup {<<c, new>>}
    /\ tagged' = {t \in tagged : t[1] # c \/ t[3] # old}
                 \cup {<<t[1], t[2], new>> :
                         t \in {u \in tagged : u[1] = c /\ u[3] = old}}
    /\ UNCHANGED <<chats, subscriptions, lastUpdated>>

DropTag(c, n) ==
    /\ tags' = tags \ {<<c, n>>}
    /\ tagged' = {t \in tagged : t[1] # c \/ t[3] # n}
    /\ UNCHANGED <<chats, subscriptions, lastUpdated>>

WithTag(c, n) == {<<c, l>> : l \in {k \in Links : <<c, k, n>> \in tagged}}

\* The statement fails: a foreign key, a unique constraint, or no row
\* affected.
Refused(q) ==
    \/ q.op = "add" /\ q.chat \notin chats
    \/ q.op = "remove" /\ <<q.chat, q.link>> \notin subscriptions
    \/ q.op = "deleteChat" /\ q.chat \notin chats
    \/ q.op = "createTag" /\ (q.chat \notin chats \/ <<q.chat, q.name>> \in tags)
    \/ q.op = "deleteTag" /\ <<q.chat, q.name>> \notin tags
    \/ /\ q.op = "renameTag"
       /\ \/ <<q.chat, q.name>> \notin tags
          \/ q.new # q.name /\ <<q.chat, q.new>> \in tags

Effect(q) ==
    \/ q.op = "registerChat" /\ chats' = chats \cup {q.chat}
       /\ UNCHANGED <<subscriptions, tags, tagged, lastUpdated>>
    \/ q.op = "add" /\ Insert(q.chat, q.link, q.names)
    \/ q.op = "remove" /\ Unsubscribe({<<q.chat, q.link>>})
    \/ q.op = "removeByTag" /\ Unsubscribe(WithTag(q.chat, q.name))
    \/ q.op = "deleteChat" /\ DropChat(q.chat)
    \/ q.op = "createTag" /\ tags' = tags \cup {<<q.chat, q.name>>}
       /\ UNCHANGED <<chats, subscriptions, tagged, lastUpdated>>
    \/ q.op = "renameTag" /\ Rename(q.chat, q.name, q.new)
    \/ q.op = "deleteTag" /\ DropTag(q.chat, q.name)

\* Mutant: RemoveLinksByTag forgets the cache.
InvalidatesButTags(q) == q.op \in {"add", "remove", "deleteChat"}

\* RemoveLinksByTag invalidates if it removed something; the tag service
\* knows nothing of the cache.
Invalidates(q) ==
    \/ q.op \in {"add", "remove", "deleteChat"}
    \/ q.op = "removeByTag" /\ WithTag(q.chat, q.name) # {}

---------------------------------------------------------------------------
(* Requests. *)

Go(h, where) == pc' = [pc EXCEPT ![h] = where]

At(h, where) == pc[h] = where

\* The handler answers.
Answer(h) ==
    /\ Go(h, "idle")
    /\ request' = [request EXCEPT ![h] = None]
    /\ rows' = [rows EXCEPT ![h] = NoRows]

\* A request takes a free handler; which one makes no difference.
Begin(h) ==
    /\ At(h, "idle")
    /\ h = CHOOSE g \in Handlers : At(g, "idle")
    /\ \E q \in Offered :
          /\ q.op # "list" => writes < MaxWrites
          /\ writes' = IF q.op = "list" THEN writes ELSE writes + 1
          /\ request' = [request EXCEPT ![h] = q]
          /\ Go(h, CASE q.op = "list" -> "get"
                     [] q.op \in {"registerChat", "deleteChat"} -> "execute"
                     [] OTHER -> "exists")
    /\ UNCHANGED <<tables, entry, rows, cause, scans, faults>>

\* ListLinks: a hit is answered at once, without a look at the tables.
Get(h) ==
    /\ At(h, "get")
    /\ \/ entry[request[h].chat] # None /\ Answer(h)
       \/ /\ entry[request[h].chat] = None
          /\ Go(h, "exists")
          /\ UNCHANGED <<request, rows>>
    /\ UNCHANGED <<tables, entry, cause, bounds>>

\* An error of the cache is taken for a miss.
GetFails(h) ==
    /\ At(h, "get")
    /\ Fault
    /\ Go(h, "exists")
    /\ UNCHANGED <<tables, entry, request, rows, cause>>

Exists(h) ==
    /\ At(h, "exists")
    /\ \/ /\ request[h].chat \in chats
          /\ Go(h, "execute")
          /\ UNCHANGED <<request, rows>>
       \/ request[h].chat \notin chats /\ Answer(h)
    /\ UNCHANGED <<tables, entry, cause, bounds>>

\* List asks for the links with their times first and then for their tags.
ReadLinks(h) ==
    /\ At(h, "execute")
    /\ request[h].op = "list"
    /\ LET ls == LinksOf(request[h].chat) IN
          /\ rows' = [rows EXCEPT ![h] = [links |-> ls, times |-> TimesOf(ls),
                                          tags |-> {}]]
          /\ Go(h, IF ls = {} THEN "set" ELSE "tags")
    /\ UNCHANGED <<tables, entry, request, cause, bounds>>

ReadTags(h) ==
    /\ At(h, "tags")
    /\ rows' = [rows EXCEPT ![h].tags = TagsOf(request[h].chat, rows[h].links)]
    /\ Go(h, "set")
    /\ UNCHANGED <<tables, entry, request, cause, bounds>>

Set(h) ==
    /\ At(h, "set")
    /\ LET c == request[h].chat IN
          /\ entry' = [entry EXCEPT ![c] = rows[h]]
          /\ cause' = [cause EXCEPT
                         ![c] = IF rows[h] = Content(c) THEN {} ELSE {"late"}]
    /\ Answer(h)
    /\ UNCHANGED <<tables, bounds>>

\* An entry that is there may be out of date from now on.
Blame(c, why) == IF entry[c] = None THEN cause[c] ELSE cause[c] \cup why

\* Why a statement of q leaves the entry of c out of date and does not
\* invalidate it: the tags of the chat have changed, or the link, which c has
\* too, has got the zero time.
BehindTheCache(q, c) ==
    IF q.op \in {"renameTag", "deleteTag"} /\ c = q.chat THEN {"tag"}
    ELSE IF q.op = "add" /\ c # q.chat /\ <<c, q.link>> \in subscriptions
         THEN {"reset"}
         ELSE {}

Execute(h) ==
    /\ At(h, "execute")
    /\ LET q == request[h] IN
          /\ ~ Refused(q)
          /\ Effect(q)
          /\ cause' = [c \in Chats |-> Blame(c, BehindTheCache(q, c))]
          /\ \/ /\ Invalidates(q)
                /\ Go(h, "invalidate")
                /\ UNCHANGED <<request, rows>>
             \/ ~ Invalidates(q) /\ Answer(h)
    /\ UNCHANGED <<entry, bounds>>

ExecuteRefused(h) ==
    /\ At(h, "execute")
    /\ Refused(request[h])
    /\ Answer(h)
    /\ UNCHANGED <<tables, entry, cause, bounds>>

\* The statement took effect, but its answer was lost: the service returns
\* the error and leaves the cache alone.
ExecuteAckLost(h) ==
    /\ At(h, "execute")
    /\ Fault
    /\ LET q == request[h] IN
          /\ ~ Refused(q)
          /\ Effect(q)
          /\ cause' = [c \in Chats |->
                         Blame(c, IF c = q.chat THEN {"lost"}
                                  ELSE BehindTheCache(q, c))]
    /\ Answer(h)
    /\ UNCHANGED entry

\* A query or a statement fails without an effect, or SET does (its error is
\* ignored).
CallFails(h) ==
    /\ pc[h] \in {"exists", "execute", "tags", "set"}
    /\ Fault
    /\ Answer(h)
    /\ UNCHANGED <<tables, entry, cause>>

Invalidate(h) ==
    /\ At(h, "invalidate")
    /\ entry' = [entry EXCEPT ![request[h].chat] = None]
    /\ cause' = [cause EXCEPT ![request[h].chat] = {}]
    /\ Answer(h)
    /\ UNCHANGED <<tables, bounds>>

\* The error of DEL is ignored: the request succeeds all the same.
InvalidateFails(h) ==
    /\ At(h, "invalidate")
    /\ Fault
    /\ cause' = [cause EXCEPT
                   ![request[h].chat] = Blame(request[h].chat, {"lost"})]
    /\ Answer(h)
    /\ UNCHANGED <<tables, entry>>

\* Mutant: SET without EX.
ExpireNever(c) ==
    /\ entry[c] # entry[c]
    /\ UNCHANGED vars

\* The TTL of the entry (VALKEY_TTL) has passed.
Expire(c) ==
    /\ entry[c] # None
    /\ entry' = [entry EXCEPT ![c] = None]
    /\ cause' = [cause EXCEPT ![c] = {}]
    /\ UNCHANGED <<tables, pc, request, rows, bounds>>

\* A scan moves the watermark of a link somebody has; the scheduler knows
\* nothing of the cache.  It may do so after the last chat has left the link,
\* but then no list shows it, and the next AddLink resets it.
UpdateLastUpdated(l) ==
    /\ scans < MaxScans
    /\ \E c \in Chats : <<c, l>> \in subscriptions
    /\ \E t \in Times \ {Never} : lastUpdated' = [lastUpdated EXCEPT ![l] = t]
    /\ scans' = scans + 1
    /\ cause' = [c \in Chats |->
                   IF <<c, l>> \in subscriptions THEN Blame(c, {"scan"})
                   ELSE cause[c]]
    /\ UNCHANGED <<chats, subscriptions, tags, tagged, entry, pc, request, rows,
                   writes, faults>>

\* The scrapper stops and starts again; PostgreSQL and Valkey stay.
Crash ==
    /\ Fault
    /\ \E h \in Handlers : ~ At(h, "idle")
    /\ pc' = [h \in Handlers |-> "idle"]
    /\ request' = [h \in Handlers |-> None]
    /\ rows' = [h \in Handlers |-> NoRows]
    /\ cause' = [c \in Chats |->
                   IF \E h \in Handlers :
                         At(h, "invalidate") /\ request[h].chat = c
                   THEN Blame(c, {"lost"}) ELSE cause[c]]
    /\ UNCHANGED <<tables, entry>>

---------------------------------------------------------------------------

Work(h) ==
    \/ Get(h) \/ GetFails(h) \/ Exists(h) \/ ReadLinks(h) \/ ReadTags(h)
    \/ Set(h) \/ Execute(h) \/ ExecuteRefused(h) \/ ExecuteAckLost(h)
    \/ CallFails(h) \/ Invalidate(h) \/ InvalidateFails(h)

Next ==
    \/ \E h \in Handlers : Begin(h) \/ Work(h)
    \/ \E c \in Chats : Expire(c)
    \/ \E l \in Links : UpdateLastUpdated(l)
    \/ Crash

Spec == Init /\ [][Next]_vars

\* Every call returns, and Valkey drops an entry when its TTL has passed.
FairSpec ==
    /\ Spec
    /\ \A h \in Handlers : WF_vars(Work(h))
    /\ \A c \in Chats : WF_vars(Expire(c))

---------------------------------------------------------------------------
(* Properties. *)

\* No row outlives what it belongs to, although AddLink looks for the chat in
\* one statement and inserts in another, and DeleteChat may come between.
RowsHaveOwners ==
    /\ \A s \in subscriptions : s[1] \in chats
    /\ \A t \in tags : t[1] \in chats
    /\ \A t \in tagged : /\ <<t[1], t[2]>> \in subscriptions
                         /\ <<t[1], t[3]>> \in tags

\* A request that has changed the tables is about to invalidate the entry.
Awaited(c) == \E h \in Handlers : At(h, "invalidate") /\ request[h].chat = c

\* The entry of a chat is what the tables say, field by field, but for these
\* cases.  A request that changed them is about to invalidate it (Awaited);
\* ListLinks filled it with what it had read before a change (late); an answer
\* of the database, the invalidation, or the process was lost (lost).  Else it
\* has the links of the chat, and is out of date at most in their tags, because
\* one was renamed or dropped (tag), and in their times, because a scan moved
\* the watermark (scan) or another chat added the link again (reset).
StalenessHasACause ==
    \A c \in Chats :
        \/ entry[c] = None
        \/ Awaited(c)
        \/ cause[c] \cap {"late", "lost"} # {}
        \/ /\ entry[c].links = LinksOf(c)
           /\ entry[c].tags = TagsOf(c, LinksOf(c)) \/ "tag" \in cause[c]
           /\ \/ entry[c].times = TimesOf(LinksOf(c))
              \/ cause[c] \cap {"scan", "reset"} # {}

\* A handler at work has a request in hand.
HandlersAreSound ==
    \A h \in Handlers : ~ At(h, "idle") => request[h] \in Requests

\* The inductive invariant.
IndInv == TypeOK /\ HandlersAreSound /\ RowsHaveOwners /\ StalenessHasACause

\* When the writes and the scans have come to an end, the cache gets current in
\* the end and stays so, whatever was lost on the way.
StalenessEnds ==
    \A c \in Chats : <>[](entry[c] \in {None, Content(c)})

\* README.md on the cache: after a successful POST /links it is invalidated,
\* so that the next GET /list returns the current data.  Once no request is
\* about to invalidate, and no answer of the tables or the cache was lost, the
\* entry that the next list is answered from has every link that was added.
AddedIsListed ==
    \A s \in subscriptions :
        \/ entry[s[1]] = None
        \/ s[2] \in entry[s[1]].links
        \/ Awaited(s[1])
        \/ "lost" \in cause[s[1]]

=============================================================================
