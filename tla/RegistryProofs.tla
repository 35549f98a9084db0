-------------------------- MODULE RegistryProofs --------------------------
(***************************************************************************)
(* Proofs about Registry, for every set of chats, links, names of tags and *)
(* times, every number of concurrent requests and every bound.             *)
(***************************************************************************)
EXTENDS Registry, TLAPS

---------------------------------------------------------------------------
(* Requests. *)

\* What a request is about.
LEMMA RequestFields ==
    ASSUME NEW q \in Requests
    PROVE  /\ q.chat \in Chats
           /\ q.op \in {"add", "remove"} => q.link \in Links
           /\ q.op = "add" => q.names \subseteq Names
           /\ q.op \in {"createTag", "renameTag", "deleteTag", "removeByTag"} =>
                 q.name \in Names
           /\ q.op = "renameTag" => q.new \in Names
<1>1. CASE q \in ChatRequests
  BY <1>1 DEF ChatRequests
<1>2. CASE q \in LinkRequests
  BY <1>2 DEF LinkRequests
<1>3. CASE q \in TagRequests
  BY <1>3 DEF TagRequests
<1> QED
  BY <1>1, <1>2, <1>3 DEF Requests

\* A statement keeps the types of the tables.
LEMMA EffectType ==
    ASSUME TypeOK, NEW q \in Requests, Effect(q)
    PROVE  /\ chats' \subseteq Chats
           /\ subscriptions' \subseteq Chats \X Links
           /\ tags' \subseteq Chats \X Names
           /\ tagged' \subseteq Chats \X Links \X Names
           /\ lastUpdated' \in [Links -> Times]
<1>1. /\ chats \subseteq Chats /\ subscriptions \subseteq Chats \X Links
      /\ tags \subseteq Chats \X Names
      /\ tagged \subseteq Chats \X Links \X Names
      /\ lastUpdated \in [Links -> Times]
  BY DEF TypeOK
<1>2. CASE q.op = "registerChat" /\ chats' = chats \cup {q.chat}
           /\ UNCHANGED <<subscriptions, tags, tagged, lastUpdated>>
  BY <1>1, <1>2, RequestFields
<1>3. CASE q.op = "add" /\ Insert(q.chat, q.link, q.names)
  BY <1>1, <1>3, RequestFields, NeverAssumption DEF Insert
<1>4. ASSUME NEW gone, Unsubscribe(gone)
      PROVE  /\ chats' \subseteq Chats
             /\ subscriptions' \subseteq Chats \X Links
             /\ tags' \subseteq Chats \X Names
             /\ tagged' \subseteq Chats \X Links \X Names
             /\ lastUpdated' \in [Links -> Times]
  BY <1>1, <1>4 DEF Unsubscribe
<1>5. CASE q.op = "deleteChat" /\ DropChat(q.chat)
  BY <1>1, <1>5 DEF DropChat
<1>6. CASE q.op = "createTag" /\ tags' = tags \cup {<<q.chat, q.name>>}
           /\ UNCHANGED <<chats, subscriptions, tagged, lastUpdated>>
  BY <1>1, <1>6, RequestFields
<1>7. CASE q.op = "renameTag" /\ Rename(q.chat, q.name, q.new)
  <2>1. q.chat \in Chats /\ q.new \in Names
    BY <1>7, RequestFields
  <2>2. \A t \in tagged : <<t[1], t[2], q.new>> \in Chats \X Links \X Names
    BY <1>1, <2>1
  <2> QED
    BY <1>1, <1>7, <2>1, <2>2 DEF Rename
<1>8. CASE q.op = "deleteTag" /\ DropTag(q.chat, q.name)
  BY <1>1, <1>8 DEF DropTag
<1> QED
  BY <1>2, <1>3, <1>4, <1>5, <1>6, <1>7, <1>8 DEF Effect

\* A statement that is not refused leaves every row with its owner.
LEMMA EffectOwners ==
    ASSUME TypeOK, RowsHaveOwners, NEW q \in Requests, ~ Refused(q), Effect(q)
    PROVE  RowsHaveOwners'
<1>1. /\ \A s \in subscriptions : s[1] \in chats
      /\ \A t \in tags : t[1] \in chats
      /\ \A t \in tagged : <<t[1], t[2]>> \in subscriptions /\ <<t[1], t[3]>> \in tags
  BY DEF RowsHaveOwners
<1>2. CASE q.op = "registerChat" /\ chats' = chats \cup {q.chat}
           /\ UNCHANGED <<subscriptions, tags, tagged, lastUpdated>>
  BY <1>1, <1>2 DEF RowsHaveOwners
<1>3. CASE q.op = "add" /\ Insert(q.chat, q.link, q.names)
  <2>1. q.chat \in chats
    BY <1>3 DEF Refused
  <2>2. \A t \in {q.chat} \X {q.link} \X q.names :
           <<t[1], t[2]>> = <<q.chat, q.link>> /\ <<t[1], t[3]>> \in {q.chat} \X q.names
    OBVIOUS
  <2> QED
    BY <1>1, <1>3, <2>1, <2>2 DEF Insert, RowsHaveOwners
<1>4. ASSUME NEW gone, Unsubscribe(gone) PROVE RowsHaveOwners'
  BY <1>1, <1>4 DEF Unsubscribe, RowsHaveOwners
<1>5. CASE q.op = "deleteChat" /\ DropChat(q.chat)
  BY <1>1, <1>5 DEF DropChat, RowsHaveOwners
<1>6. CASE q.op = "createTag" /\ tags' = tags \cup {<<q.chat, q.name>>}
           /\ UNCHANGED <<chats, subscriptions, tagged, lastUpdated>>
  <2>1. q.chat \in chats
    BY <1>6 DEF Refused
  <2> QED
    BY <1>1, <1>6, <2>1 DEF RowsHaveOwners
<1>7. CASE q.op = "renameTag" /\ Rename(q.chat, q.name, q.new)
  <2>1. <<q.chat, q.name>> \in tags
    BY <1>7 DEF Refused
  <2>2. q.chat \in chats
    BY <1>1, <2>1
  <2>3. \A t \in tags' : t[1] \in chats
    BY <1>1, <1>7, <2>2 DEF Rename
  <2>4. \A t \in tagged : t[1] # q.chat \/ t[3] # q.name => <<t[1], t[3]>> \in tags'
    BY <1>1, <1>7 DEF Rename
  <2>5. \A t \in tagged' : <<t[1], t[2]>> \in subscriptions /\ <<t[1], t[3]>> \in tags'
    <3> SUFFICES ASSUME NEW t \in tagged'
                 PROVE  <<t[1], t[2]>> \in subscriptions /\ <<t[1], t[3]>> \in tags'
      OBVIOUS
    <3>1. CASE t \in tagged /\ (t[1] # q.chat \/ t[3] # q.name)
      BY <1>1, <2>4, <3>1
    <3>2. CASE \E u \in tagged : u[1] = q.chat /\ t = <<u[1], u[2], q.new>>
      <4>1. PICK u \in tagged : u[1] = q.chat /\ t = <<u[1], u[2], q.new>>
        BY <3>2
      <4>2. t[1] = u[1] /\ t[2] = u[2] /\ t[3] = q.new
        BY <4>1
      <4>3. <<q.chat, q.new>> \in tags'
        BY <1>7 DEF Rename
      <4> QED
        BY <1>1, <4>1, <4>2, <4>3
    <3> QED
      BY <1>7, <3>1, <3>2 DEF Rename
  <2> QED
    BY <1>1, <1>7, <2>3, <2>5 DEF Rename, RowsHaveOwners
<1>8. CASE q.op = "deleteTag" /\ DropTag(q.chat, q.name)
  BY <1>1, <1>8 DEF DropTag, RowsHaveOwners
<1> QED
  BY <1>2, <1>3, <1>4, <1>5, <1>6, <1>7, <1>8 DEF Effect

---------------------------------------------------------------------------
(* The lists. *)

\* The links of a list depend on the subscriptions of its chat alone.
LEMMA LinksStay ==
    ASSUME NEW c \in Chats,
           \A l \in Links : <<c, l>> \in subscriptions' <=> <<c, l>> \in subscriptions
    PROVE  LinksOf(c)' = LinksOf(c)
BY DEF LinksOf

\* Its tags depend on the tags of its links alone, as this chat has them.
LEMMA TagsStay ==
    ASSUME NEW c \in Chats, LinksOf(c)' = LinksOf(c),
           \A l \in Links, n \in Names :
              <<c, l, n>> \in tagged' <=> <<c, l, n>> \in tagged
    PROVE  TagsOf(c, LinksOf(c))' = TagsOf(c, LinksOf(c))
<1>1. LinksOf(c) \subseteq Links
  BY DEF LinksOf
<1> DEFINE ls == LinksOf(c)
<1>2. {x \in ls \X Names : <<c, x[1], x[2]>> \in tagged'}
         = {x \in ls \X Names : <<c, x[1], x[2]>> \in tagged}
  BY <1>1
<1> QED
  BY <1>2 DEF TagsOf

\* Its times are those of its links.
LEMMA TimesStay ==
    ASSUME NEW c \in Chats, LinksOf(c)' = LinksOf(c),
           \A l \in LinksOf(c) : lastUpdated'[l] = lastUpdated[l]
    PROVE  TimesOf(LinksOf(c))' = TimesOf(LinksOf(c))
<1> DEFINE ls == LinksOf(c)
<1>1. {x \in ls \X Times : lastUpdated'[x[1]] = x[2]}
         = {x \in ls \X Times : lastUpdated[x[1]] = x[2]}
  OBVIOUS
<1> QED
  BY <1>1 DEF TimesOf

\* What the tables say of a chat depends on them alone.
LEMMA TablesStay ==
    ASSUME UNCHANGED tables, NEW c \in Chats
    PROVE  /\ LinksOf(c)' = LinksOf(c)
           /\ TagsOf(c, LinksOf(c))' = TagsOf(c, LinksOf(c))
           /\ TimesOf(LinksOf(c))' = TimesOf(LinksOf(c))
BY LinksStay, TagsStay, TimesStay DEF tables

\* The list of a chat has links, times and names as Lists has them.
LEMMA ContentType ==
    ASSUME NEW c \in Chats, NEW ls \in SUBSET Links
    PROVE  /\ LinksOf(c) \subseteq Links
           /\ TimesOf(ls) \subseteq Links \X Times
           /\ TagsOf(c, ls) \subseteq Links \X Names
BY DEF LinksOf, TimesOf, TagsOf

\* A statement after which the service does not invalidate the entry of c
\* leaves c its links.
LEMMA EffectLinks ==
    ASSUME TypeOK, NEW q \in Requests, Effect(q), NEW c \in Chats,
           c # q.chat \/ ~ Invalidates(q)
    PROVE  LinksOf(c)' = LinksOf(c)
<1>1. CASE subscriptions' = subscriptions
  BY <1>1, LinksStay
<1>2. CASE q.op = "add" /\ Insert(q.chat, q.link, q.names)
  BY <1>2, LinksStay DEF Insert, Invalidates
<1>3. CASE q.op = "remove" /\ Unsubscribe({<<q.chat, q.link>>})
  BY <1>3, LinksStay DEF Unsubscribe, Invalidates
<1>4. CASE q.op = "removeByTag" /\ Unsubscribe(WithTag(q.chat, q.name))
  <2>1. \A l : <<c, l>> \notin WithTag(q.chat, q.name)
    BY <1>4 DEF WithTag, Invalidates
  <2> QED
    BY <1>4, <2>1, LinksStay DEF Unsubscribe
<1>5. CASE q.op = "deleteChat" /\ DropChat(q.chat)
  BY <1>5, LinksStay DEF DropChat, Invalidates
<1> QED
  BY <1>1, <1>2, <1>3, <1>4, <1>5 DEF Effect, Rename, DropTag

\* Such a statement leaves c its tags, too, but when it renames or drops one.
LEMMA EffectTags ==
    ASSUME TypeOK, NEW q \in Requests, Effect(q), NEW c \in Chats,
           c # q.chat \/ ~ Invalidates(q)
    PROVE  \/ TagsOf(c, LinksOf(c))' = TagsOf(c, LinksOf(c))
           \/ BehindTheCache(q, c) = {"tag"}
<1>0. LinksOf(c)' = LinksOf(c)
  BY EffectLinks
<1> DEFINE Same == \A l \in Links, n \in Names :
                      <<c, l, n>> \in tagged' <=> <<c, l, n>> \in tagged
<1>1. CASE tagged' = tagged
  BY <1>0, <1>1, TagsStay
<1>2. CASE q.op = "add" /\ Insert(q.chat, q.link, q.names)
  <2>1. Same
    BY <1>2 DEF Insert, Invalidates
  <2> QED
    BY <1>0, <2>1, TagsStay
<1>3. CASE q.op = "remove" /\ Unsubscribe({<<q.chat, q.link>>})
  <2>1. Same
    BY <1>3 DEF Unsubscribe, Invalidates
  <2> QED
    BY <1>0, <2>1, TagsStay
<1>4. CASE q.op = "removeByTag" /\ Unsubscribe(WithTag(q.chat, q.name))
  <2>1. \A l : <<c, l>> \notin WithTag(q.chat, q.name)
    BY <1>4 DEF WithTag, Invalidates
  <2>2. Same
    BY <1>4, <2>1 DEF Unsubscribe
  <2> QED
    BY <1>0, <2>2, TagsStay
<1>5. CASE q.op = "deleteChat" /\ DropChat(q.chat)
  <2>1. Same
    BY <1>5 DEF DropChat, Invalidates
  <2> QED
    BY <1>0, <2>1, TagsStay
<1>6. CASE q.op = "renameTag" /\ Rename(q.chat, q.name, q.new)
  <2>1. CASE c = q.chat
    BY <1>6, <2>1 DEF BehindTheCache
  <2>2. CASE c # q.chat
    <3>1. Same
      BY <1>6, <2>2 DEF Rename
    <3> QED
      BY <1>0, <3>1, TagsStay
  <2> QED
    BY <2>1, <2>2
<1>7. CASE q.op = "deleteTag" /\ DropTag(q.chat, q.name)
  <2>1. CASE c = q.chat
    BY <1>7, <2>1 DEF BehindTheCache
  <2>2. CASE c # q.chat
    <3>1. Same
      BY <1>7, <2>2 DEF DropTag
    <3> QED
      BY <1>0, <3>1, TagsStay
  <2> QED
    BY <2>1, <2>2
<1> QED
  BY <1>1, <1>2, <1>3, <1>4, <1>5, <1>6, <1>7 DEF Effect

\* And it leaves c its times, but when another chat adds one of its links.
LEMMA EffectTimes ==
    ASSUME TypeOK, NEW q \in Requests, Effect(q), NEW c \in Chats,
           c # q.chat \/ ~ Invalidates(q)
    PROVE  \/ TimesOf(LinksOf(c))' = TimesOf(LinksOf(c))
           \/ BehindTheCache(q, c) = {"reset"}
<1>0. LinksOf(c)' = LinksOf(c)
  BY EffectLinks
<1>1. CASE lastUpdated' = lastUpdated
  BY <1>0, <1>1, TimesStay
<1>2. CASE q.op = "add" /\ Insert(q.chat, q.link, q.names)
  <2>1. c # q.chat
    BY <1>2 DEF Invalidates
  <2>2. CASE <<c, q.link>> \in subscriptions
    BY <1>2, <2>1, <2>2 DEF BehindTheCache
  <2>3. CASE <<c, q.link>> \notin subscriptions
    <3>1. \A l \in LinksOf(c) : l # q.link
      BY <2>3 DEF LinksOf
    <3>2. \A l \in LinksOf(c) : lastUpdated'[l] = lastUpdated[l]
      BY <1>2, <3>1 DEF Insert, TypeOK, LinksOf
    <3> QED
      BY <1>0, <3>2, TimesStay
  <2> QED
    BY <2>2, <2>3
<1> QED
  BY <1>1, <1>2 DEF Effect, Unsubscribe, DropChat, Rename, DropTag

---------------------------------------------------------------------------
(* Types. *)

\* A handler that answers or goes on keeps the types.
LEMMA AnswerType ==
    ASSUME TypeOK, NEW h \in Handlers, Answer(h)
    PROVE  /\ pc' \in [Handlers -> {"idle", "get", "exists", "execute", "tags",
                                   "set", "invalidate"}]
           /\ request' \in [Handlers -> Requests \cup {None}]
           /\ rows' \in [Handlers -> Lists]
           /\ pc'[h] = "idle"
           /\ \A k \in Handlers \ {h} : pc'[k] = pc[k] /\ request'[k] = request[k]
<1>1. NoRows \in Lists
  BY DEF NoRows, Lists
<1> QED
  BY <1>1 DEF Answer, Go, TypeOK

LEMMA GoType ==
    ASSUME TypeOK, NEW h \in Handlers,
           NEW w \in {"idle", "get", "exists", "execute", "tags", "set", "invalidate"},
           Go(h, w)
    PROVE  /\ pc' \in [Handlers -> {"idle", "get", "exists", "execute", "tags",
                                   "set", "invalidate"}]
           /\ pc'[h] = w
           /\ \A k \in Handlers \ {h} : pc'[k] = pc[k]
BY DEF Go, TypeOK

\* Blaming keeps the type of the causes.
LEMMA BlameType ==
    ASSUME TypeOK, NEW c \in Chats, NEW why \in SUBSET Causes
    PROVE  Blame(c, why) \in SUBSET Causes
BY DEF Blame, TypeOK

\* What BehindTheCache names are causes.
LEMMA BehindType ==
    ASSUME NEW q, NEW c PROVE BehindTheCache(q, c) \in SUBSET Causes
BY DEF BehindTheCache, Causes

\* Every variable keeps its type, and handlers at work their request.
LEMMA NextType ==
    ASSUME TypeOK, HandlersAreSound, [Next]_vars
    PROVE  TypeOK' /\ HandlersAreSound'
<1>0. /\ \A h \in Handlers : ~ At(h, "idle") => request[h] \in Requests
      /\ {"late"} \subseteq Causes /\ {"scan"} \subseteq Causes
      /\ {"lost"} \subseteq Causes /\ {} \subseteq Causes
  BY DEF HandlersAreSound, Causes
<1>a. ASSUME NEW h \in Handlers, Fault \/ UNCHANGED bounds
      PROVE  writes' \in Nat /\ scans' \in Nat /\ faults' \in Nat
  BY <1>a DEF Fault, bounds, TypeOK
<1>b. cause \in [Chats -> SUBSET Causes]
  BY DEF TypeOK
<1>1. ASSUME NEW h \in Handlers, Begin(h) PROVE TypeOK' /\ HandlersAreSound'
  <2>1. PICK q \in Requests :
          /\ writes' = IF q.op = "list" THEN writes ELSE writes + 1
          /\ request' = [request EXCEPT ![h] = q]
          /\ Go(h, CASE q.op = "list" -> "get"
                     [] q.op \in {"registerChat", "deleteChat"} -> "execute"
                     [] OTHER -> "exists")
    BY <1>1, OfferedAssumption DEF Begin
  <2>2. PICK w \in {"get", "execute", "exists"} : Go(h, w)
    BY <2>1
  <2>3. /\ pc' \in [Handlers -> {"idle", "get", "exists", "execute", "tags",
                                  "set", "invalidate"}]
        /\ \A k \in Handlers \ {h} : pc'[k] = pc[k]
    BY <2>2, GoType
  <2>4. request' \in [Handlers -> Requests \cup {None}] /\ writes' \in Nat
    BY <2>1 DEF TypeOK
  <2>5. request'[h] = q /\ \A k \in Handlers \ {h} : request'[k] = request[k]
    BY <2>1 DEF TypeOK
  <2>6. HandlersAreSound'
    BY <1>0, <2>3, <2>5 DEF HandlersAreSound, At
  <2>7. TypeOK'
    BY <1>1, <2>3, <2>4 DEF Begin, TypeOK, tables
  <2> QED
    BY <2>6, <2>7
<1>2. ASSUME NEW h \in Handlers, Answer(h), UNCHANGED tables,
             entry' \in [Chats -> Lists \cup {None}],
             cause' \in [Chats -> SUBSET Causes], Fault \/ UNCHANGED bounds
      PROVE  TypeOK' /\ HandlersAreSound'
  <2>1. TypeOK'
    BY <1>2, <1>a, AnswerType DEF TypeOK, tables
  <2>2. HandlersAreSound'
    BY <1>0, <1>2, AnswerType DEF HandlersAreSound, At
  <2> QED
    BY <2>1, <2>2
<1>3. ASSUME NEW h \in Handlers, ~ At(h, "idle"), UNCHANGED request,
             NEW w \in {"exists", "execute", "tags", "set", "invalidate"}, Go(h, w),
             UNCHANGED <<tables, entry, cause>>,
             rows' \in [Handlers -> Lists], Fault \/ UNCHANGED bounds
      PROVE  TypeOK' /\ HandlersAreSound'
  <2>1. TypeOK'
    BY <1>3, <1>a, GoType DEF TypeOK, tables
  <2>2. HandlersAreSound'
    BY <1>0, <1>3, GoType DEF HandlersAreSound, At
  <2> QED
    BY <2>1, <2>2
<1>4. ASSUME NEW h \in Handlers, Get(h) PROVE TypeOK' /\ HandlersAreSound'
  <2>1. CASE Answer(h)
    BY <1>2, <1>4, <2>1 DEF Get, TypeOK
  <2>2. CASE Go(h, "exists") /\ UNCHANGED <<request, rows>>
    BY <1>3, <1>4, <2>2 DEF Get, TypeOK, At
  <2> QED
    BY <1>4, <2>1, <2>2 DEF Get
<1>5. ASSUME NEW h \in Handlers, GetFails(h) PROVE TypeOK' /\ HandlersAreSound'
  BY <1>3, <1>5 DEF GetFails, TypeOK, At
<1>6. ASSUME NEW h \in Handlers, Exists(h) PROVE TypeOK' /\ HandlersAreSound'
  <2>1. CASE Answer(h)
    BY <1>2, <1>6, <2>1 DEF Exists, TypeOK
  <2>2. CASE Go(h, "execute") /\ UNCHANGED <<request, rows>>
    BY <1>3, <1>6, <2>2 DEF Exists, TypeOK, At
  <2> QED
    BY <1>6, <2>1, <2>2 DEF Exists
<1>7. ASSUME NEW h \in Handlers, ReadLinks(h) PROVE TypeOK' /\ HandlersAreSound'
  <2>1. ~ At(h, "idle") /\ request[h].chat \in Chats
    BY <1>0, <1>7, RequestFields DEF ReadLinks, At
  <2>2. rows' \in [Handlers -> Lists]
    <3> DEFINE ls == LinksOf(request[h].chat)
    <3>1. ls \subseteq Links /\ TimesOf(ls) \subseteq Links \X Times
      BY <2>1, ContentType
    <3>2. [links |-> ls, times |-> TimesOf(ls), tags |-> {}] \in Lists
      BY <3>1 DEF Lists
    <3>3. rows' = [rows EXCEPT ![h] = [links |-> ls, times |-> TimesOf(ls),
                                       tags |-> {}]]
      BY <1>7 DEF ReadLinks
    <3> QED
      BY <3>2, <3>3 DEF TypeOK
  <2>3. \E w \in {"set", "tags"} : Go(h, w)
    BY <1>7 DEF ReadLinks
  <2> QED
    BY <1>3, <1>7, <2>1, <2>2, <2>3 DEF ReadLinks
<1>8. ASSUME NEW h \in Handlers, ReadTags(h) PROVE TypeOK' /\ HandlersAreSound'
  <2>1. ~ At(h, "idle") /\ request[h].chat \in Chats
    BY <1>0, <1>8, RequestFields DEF ReadTags, At
  <2>2. rows' \in [Handlers -> Lists]
    <3>1. rows[h] \in Lists
      BY DEF TypeOK
    <3>2. rows[h].links \subseteq Links
      BY <3>1 DEF Lists
    <3>3. TagsOf(request[h].chat, rows[h].links) \subseteq Links \X Names
      BY <2>1, <3>2, ContentType
    <3>4. [rows[h] EXCEPT !.tags = TagsOf(request[h].chat, rows[h].links)] \in Lists
      BY <3>1, <3>3 DEF Lists
    <3> QED
      BY <1>8, <3>4 DEF ReadTags, TypeOK
  <2> QED
    BY <1>3, <1>8, <2>1, <2>2 DEF ReadTags
<1>9. ASSUME NEW h \in Handlers, Set(h) PROVE TypeOK' /\ HandlersAreSound'
  <2>1. request[h].chat \in Chats
    BY <1>0, <1>9, RequestFields DEF Set, At
  <2>2. entry' \in [Chats -> Lists \cup {None}]
    BY <1>9 DEF Set, TypeOK
  <2>3. cause' \in [Chats -> SUBSET Causes]
    BY <1>0, <1>b, <1>9, <2>1 DEF Set
  <2> QED
    BY <1>2, <1>9, <2>2, <2>3 DEF Set
<1>10. ASSUME NEW h \in Handlers, ~ At(h, "idle"), Effect(request[h]),
              UNCHANGED entry,
              cause' \in [Chats -> SUBSET Causes], Fault \/ UNCHANGED bounds,
              \/ Answer(h)
              \/ Go(h, "invalidate") /\ UNCHANGED <<request, rows>>
       PROVE  TypeOK' /\ HandlersAreSound'
  <2>1. /\ chats' \subseteq Chats
        /\ subscriptions' \subseteq Chats \X Links
        /\ tags' \subseteq Chats \X Names
        /\ tagged' \subseteq Chats \X Links \X Names
        /\ lastUpdated' \in [Links -> Times]
    BY <1>0, <1>10, EffectType
  <2>3. /\ pc' \in [Handlers -> {"idle", "get", "exists", "execute", "tags",
                                  "set", "invalidate"}]
        /\ request' \in [Handlers -> Requests \cup {None}]
        /\ rows' \in [Handlers -> Lists]
    BY <1>10, AnswerType, GoType DEF TypeOK
  <2>4. TypeOK'
    BY <1>10, <1>a, <2>1, <2>3 DEF TypeOK
  <2>5. HandlersAreSound'
    BY <1>0, <1>10, AnswerType, GoType DEF HandlersAreSound, At
  <2> QED
    BY <2>4, <2>5
<1>11. ASSUME NEW h \in Handlers, Execute(h) PROVE TypeOK' /\ HandlersAreSound'
  <2>1. ~ At(h, "idle") /\ request[h].chat \in Chats
    BY <1>0, <1>11, RequestFields DEF Execute, At
  <2>3. cause' \in [Chats -> SUBSET Causes]
    BY <1>11, BlameType, BehindType DEF Execute
  <2>4. \/ Answer(h)
        \/ Go(h, "invalidate") /\ UNCHANGED <<request, rows>>
    BY <1>11 DEF Execute
  <2> QED
    BY <1>10, <1>11, <2>1, <2>3, <2>4 DEF Execute
<1>12. ASSUME NEW h \in Handlers, ExecuteAckLost(h)
       PROVE  TypeOK' /\ HandlersAreSound'
  <2>1. ~ At(h, "idle") /\ request[h].chat \in Chats
    BY <1>0, <1>12, RequestFields DEF ExecuteAckLost, At
  <2>2. cause' \in [Chats -> SUBSET Causes]
    BY <1>0, <1>12, BlameType, BehindType DEF ExecuteAckLost
  <2> QED
    BY <1>10, <1>12, <2>1, <2>2 DEF ExecuteAckLost
<1>13. ASSUME NEW h \in Handlers, ExecuteRefused(h) \/ CallFails(h)
       PROVE  TypeOK' /\ HandlersAreSound'
  BY <1>2, <1>13 DEF ExecuteRefused, CallFails, TypeOK
<1>14. ASSUME NEW h \in Handlers, Invalidate(h) \/ InvalidateFails(h)
       PROVE  TypeOK' /\ HandlersAreSound'
  <2>1. request[h] \in Requests /\ request[h].chat \in Chats
    BY <1>0, <1>14, RequestFields DEF Invalidate, InvalidateFails, At
  <2>2. cause' \in [Chats -> SUBSET Causes]
    BY <1>0, <1>b, <1>14, <2>1, BlameType DEF Invalidate, InvalidateFails
  <2>4. entry' \in [Chats -> Lists \cup {None}]
    BY <1>14 DEF Invalidate, InvalidateFails, TypeOK
  <2>5. Answer(h) /\ UNCHANGED tables /\ (Fault \/ UNCHANGED bounds)
    BY <1>14 DEF Invalidate, InvalidateFails
  <2>6. TypeOK'
    BY <1>a, <2>2, <2>4, <2>5, AnswerType DEF TypeOK, tables
  <2>7. HandlersAreSound'
    BY <1>0, <2>5, AnswerType DEF HandlersAreSound, At
  <2> QED
    BY <2>6, <2>7
<1>15. ASSUME NEW c \in Chats, Expire(c) PROVE TypeOK' /\ HandlersAreSound'
  <2>1. entry' \in [Chats -> Lists \cup {None}]
    BY <1>15 DEF Expire, TypeOK
  <2>2. cause' \in [Chats -> SUBSET Causes]
    BY <1>0, <1>b, <1>15 DEF Expire
  <2>3. TypeOK'
    BY <1>15, <2>1, <2>2 DEF Expire, TypeOK, tables, bounds
  <2>4. HandlersAreSound'
    BY <1>0, <1>15 DEF Expire, HandlersAreSound, At
  <2> QED
    BY <2>3, <2>4
<1>16. CASE Crash
  <2>1. NoRows \in Lists
    BY DEF NoRows, Lists
  <2>2. cause' \in [Chats -> SUBSET Causes]
    BY <1>0, <1>b, <1>16, BlameType DEF Crash
  <2>3. faults' \in Nat /\ writes' \in Nat /\ scans' \in Nat
    BY <1>16 DEF Crash, Fault, TypeOK
  <2>4. TypeOK'
    BY <1>16, <2>1, <2>2, <2>3 DEF Crash, TypeOK, tables
  <2>5. HandlersAreSound'
    BY <1>16 DEF Crash, HandlersAreSound, At
  <2> QED
    BY <2>4, <2>5
<1>17. ASSUME NEW l \in Links, UpdateLastUpdated(l)
       PROVE  TypeOK' /\ HandlersAreSound'
  <2>1. lastUpdated' \in [Links -> Times] /\ scans' \in Nat
    BY <1>17 DEF UpdateLastUpdated, TypeOK
  <2>2. cause' \in [Chats -> SUBSET Causes]
    BY <1>0, <1>b, <1>17, BlameType DEF UpdateLastUpdated
  <2>3. TypeOK'
    BY <1>17, <2>1, <2>2 DEF UpdateLastUpdated, TypeOK
  <2>4. HandlersAreSound'
    BY <1>0, <1>17 DEF UpdateLastUpdated, HandlersAreSound, At
  <2> QED
    BY <2>3, <2>4
<1>18. CASE UNCHANGED vars
  <2>1. TypeOK'
    BY <1>18 DEF vars, TypeOK, tables, bounds
  <2>2. HandlersAreSound'
    BY <1>0, <1>18 DEF vars, HandlersAreSound, At
  <2> QED
    BY <2>1, <2>2
<1> QED
  BY <1>1, <1>4, <1>5, <1>6, <1>7, <1>8, <1>9, <1>11, <1>12, <1>13, <1>14,
     <1>15, <1>16, <1>18, <1>17
     DEF Next, Work

---------------------------------------------------------------------------
(* Rows and entries. *)

\* A step leaves the rows alone, or executes a statement that is not refused.
LEMMA TableSteps ==
    ASSUME HandlersAreSound, [Next]_vars
    PROVE  \/ UNCHANGED <<chats, subscriptions, tags, tagged>>
           \/ \E h \in Handlers : /\ request[h] \in Requests
                                 /\ ~ Refused(request[h])
                                 /\ Effect(request[h])
<1>1. ASSUME NEW h \in Handlers, Begin(h) PROVE UNCHANGED <<chats, subscriptions, tags, tagged>>
  BY <1>1 DEF Begin, tables
<1>2. ASSUME NEW h \in Handlers, Execute(h) \/ ExecuteAckLost(h)
      PROVE  /\ request[h] \in Requests
             /\ ~ Refused(request[h])
             /\ Effect(request[h])
  BY <1>2 DEF Execute, ExecuteAckLost, HandlersAreSound, At
<1>3. ASSUME NEW h \in Handlers, Work(h), ~ Execute(h), ~ ExecuteAckLost(h)
      PROVE  UNCHANGED <<chats, subscriptions, tags, tagged>>
  BY <1>3 DEF Work, Get, GetFails, Exists, ReadLinks, ReadTags, Set,
              ExecuteRefused, CallFails, Invalidate, InvalidateFails, tables
<1>4. ASSUME NEW c \in Chats, Expire(c) PROVE UNCHANGED <<chats, subscriptions, tags, tagged>>
  BY <1>4 DEF Expire, tables
<1>5. CASE Crash BY <1>5 DEF Crash, tables
<1>6. CASE UNCHANGED vars BY <1>6 DEF vars, tables
<1>7. ASSUME NEW l \in Links, UpdateLastUpdated(l)
      PROVE  UNCHANGED <<chats, subscriptions, tags, tagged>>
  BY <1>7 DEF UpdateLastUpdated
<1> QED
  BY <1>1, <1>2, <1>3, <1>4, <1>5, <1>6, <1>7 DEF Next

\* Every row keeps its owner.
LEMMA NextOwners ==
    ASSUME TypeOK, HandlersAreSound, RowsHaveOwners, [Next]_vars
    PROVE  RowsHaveOwners'
<1>1. CASE UNCHANGED <<chats, subscriptions, tags, tagged>>
  BY <1>1 DEF RowsHaveOwners
<1> QED
  BY <1>1, TableSteps, EffectOwners

\* Every stale entry keeps a cause, or gets one.
LEMMA NextStaleness ==
    ASSUME TypeOK, HandlersAreSound, StalenessHasACause, [Next]_vars
    PROVE  StalenessHasACause'
<1> DEFINE Explained(c) ==
              \/ entry[c] = None
              \/ Awaited(c)
              \/ cause[c] \cap {"late", "lost"} # {}
              \/ /\ entry[c].links = LinksOf(c)
                 /\ entry[c].tags = TagsOf(c, LinksOf(c)) \/ "tag" \in cause[c]
                 /\ \/ entry[c].times = TimesOf(LinksOf(c))
                    \/ cause[c] \cap {"scan", "reset"} # {}
<1> SUFFICES ASSUME NEW c \in Chats PROVE Explained(c)'
  BY DEF StalenessHasACause
<1> DEFINE Pending(h) == At(h, "invalidate") /\ request[h].chat = c
<1>0. Explained(c) /\ DOMAIN entry = Chats /\ DOMAIN cause = Chats
  BY DEF StalenessHasACause, TypeOK
<1>b. ASSUME NEW h \in Handlers, Answer(h) \/ (Go(h, "invalidate") /\ UNCHANGED request)
      PROVE  \A k \in Handlers \ {h} :
                Pending(k) => At(k, "invalidate")' /\ request'[k].chat = c
  BY <1>b DEF Answer, Go, At, TypeOK
\* An entry stays explained when its causes and the pending invalidations stay
\* and the tables change only in what is blamed.
<1>c. ASSUME entry'[c] = entry[c], cause[c] \subseteq cause'[c],
             \A k \in Handlers : Pending(k) => At(k, "invalidate")' /\ request'[k].chat = c,
             LinksOf(c)' = LinksOf(c),
             \/ entry[c] = None
             \/ TagsOf(c, LinksOf(c))' = TagsOf(c, LinksOf(c))
             \/ "tag" \in cause'[c],
             \/ entry[c] = None
             \/ TimesOf(LinksOf(c))' = TimesOf(LinksOf(c))
             \/ cause'[c] \cap {"scan", "reset"} # {}
      PROVE  Explained(c)'
  <2>1. CASE entry[c] = None
    BY <1>c, <2>1
  <2>2. CASE Awaited(c)
    BY <1>c, <2>2 DEF Awaited
  <2>3. CASE cause[c] \cap {"late", "lost"} # {}
    BY <1>c, <2>3
  <2>4. ASSUME entry[c] # None,
               entry[c].links = LinksOf(c),
               entry[c].tags = TagsOf(c, LinksOf(c)) \/ "tag" \in cause[c],
               \/ entry[c].times = TimesOf(LinksOf(c))
               \/ cause[c] \cap {"scan", "reset"} # {}
        PROVE  Explained(c)'
    <3>1. entry'[c].tags = TagsOf(c, LinksOf(c))' \/ "tag" \in cause'[c]
      BY <1>c, <2>4
    <3>2. \/ entry'[c].times = TimesOf(LinksOf(c))'
          \/ cause'[c] \cap {"scan", "reset"} # {}
      BY <1>c, <2>4
    <3> QED
      BY <1>c, <2>4, <3>1, <3>2
  <2> QED
    BY <1>0, <2>1, <2>2, <2>3, <2>4
<1>d. ASSUME UNCHANGED tables, entry'[c] = entry[c], cause[c] \subseteq cause'[c],
             \A k \in Handlers : Pending(k) => At(k, "invalidate")' /\ request'[k].chat = c
      PROVE  Explained(c)'
  BY <1>c, <1>d, TablesStay
<1>e. \A why : cause[c] \subseteq Blame(c, why)
  BY DEF Blame
<1>1. ASSUME NEW h \in Handlers, Begin(h) PROVE Explained(c)'
  <2>1. \A k \in Handlers : Pending(k) => At(k, "invalidate")' /\ request'[k].chat = c
    BY <1>1 DEF Begin, At, Go, TypeOK
  <2>2. UNCHANGED <<tables, entry, cause>>
    BY <1>1 DEF Begin
  <2> QED
    BY <1>d, <2>1, <2>2
<1>2. ASSUME NEW h \in Handlers, ~ At(h, "invalidate"), UNCHANGED <<tables, entry, cause>>,
             Answer(h) \/ \E w : Go(h, w) /\ UNCHANGED request
      PROVE  Explained(c)'
  <2>1. \A k \in Handlers : Pending(k) => At(k, "invalidate")' /\ request'[k].chat = c
    BY <1>2 DEF Answer, Go, At, TypeOK
  <2> QED
    BY <1>2, <1>d, <2>1
<1>3. ASSUME NEW h \in Handlers, Get(h) \/ GetFails(h) \/ Exists(h) PROVE Explained(c)'
  <2>1. ~ At(h, "invalidate") /\ UNCHANGED <<tables, entry, cause>>
    BY <1>3 DEF Get, GetFails, Exists, At
  <2>2. Answer(h) \/ \E w : Go(h, w) /\ UNCHANGED request
    BY <1>3 DEF Get, GetFails, Exists
  <2> QED
    BY <1>2, <2>1, <2>2
<1>4. ASSUME NEW h \in Handlers, ReadLinks(h) \/ ReadTags(h) PROVE Explained(c)'
  <2>1. ~ At(h, "invalidate") /\ UNCHANGED <<tables, entry, cause>>
    BY <1>4 DEF ReadLinks, ReadTags, At
  <2>2. \E w : Go(h, w) /\ UNCHANGED request
    BY <1>4 DEF ReadLinks, ReadTags
  <2> QED
    BY <1>2, <2>1, <2>2
<1>5. ASSUME NEW h \in Handlers, ExecuteRefused(h) \/ CallFails(h) PROVE Explained(c)'
  BY <1>2, <1>5 DEF ExecuteRefused, CallFails, At
<1>6. ASSUME NEW h \in Handlers, Set(h) PROVE Explained(c)'
  <2>1. CASE request[h].chat = c
    <3>1. entry'[c] = rows[h] /\ UNCHANGED tables
          /\ cause'[c] = IF rows[h] = Content(c) THEN {} ELSE {"late"}
      BY <1>0, <1>6, <2>1 DEF Set
    <3>2. CASE rows[h] = Content(c)
      <4>1. /\ entry'[c].links = LinksOf(c)
            /\ entry'[c].tags = TagsOf(c, LinksOf(c))
            /\ entry'[c].times = TimesOf(LinksOf(c))
        BY <3>1, <3>2 DEF Content
      <4> QED
        BY <3>1, <4>1, TablesStay
    <3>3. CASE rows[h] # Content(c)
      BY <3>1, <3>3
    <3> QED
      BY <3>2, <3>3
  <2>2. CASE request[h].chat # c
    <3>1. entry'[c] = entry[c] /\ cause'[c] = cause[c] /\ UNCHANGED tables
      BY <1>0, <1>6, <2>2 DEF Set
    <3>2. \A k \in Handlers : Pending(k) => At(k, "invalidate")' /\ request'[k].chat = c
      BY <1>6, <1>b, <2>2 DEF Set
    <3> QED
      BY <1>d, <3>1, <3>2
  <2> QED
    BY <2>1, <2>2
\* A statement after which the entry of c is not invalidated.
<1>7. ASSUME NEW q \in Requests, Effect(q), entry' = entry,
             c # q.chat \/ ~ Invalidates(q),
             cause'[c] = Blame(c, BehindTheCache(q, c)),
             \A k \in Handlers : Pending(k) => At(k, "invalidate")' /\ request'[k].chat = c
      PROVE  Explained(c)'
  <2>1. LinksOf(c)' = LinksOf(c)
    BY <1>7, EffectLinks
  <2>2. \/ entry[c] = None
        \/ TagsOf(c, LinksOf(c))' = TagsOf(c, LinksOf(c))
        \/ "tag" \in cause'[c]
    BY <1>7, EffectTags DEF Blame
  <2>3. \/ entry[c] = None
        \/ TimesOf(LinksOf(c))' = TimesOf(LinksOf(c))
        \/ cause'[c] \cap {"scan", "reset"} # {}
    <3>1. CASE BehindTheCache(q, c) = {"reset"} /\ entry[c] # None
      BY <1>7, <3>1 DEF Blame
    <3> QED
      BY <1>7, <3>1, EffectTimes
  <2> QED
    BY <1>7, <1>c, <1>e, <2>1, <2>2, <2>3
<1>8. ASSUME NEW h \in Handlers, Execute(h) PROVE Explained(c)'
  <2> PICK q : q = request[h]
    OBVIOUS
  <2>1. /\ q \in Requests /\ At(h, "execute") /\ Effect(q) /\ entry' = entry
        /\ cause' = [d \in Chats |-> Blame(d, BehindTheCache(q, d))]
    BY <1>8 DEF Execute, HandlersAreSound, At
  <2>2. \A k \in Handlers : Pending(k) => At(k, "invalidate")' /\ request'[k].chat = c
    <3>1. ~ Pending(h)
      BY <2>1 DEF At
    <3>2. Answer(h) \/ (Go(h, "invalidate") /\ UNCHANGED request)
      BY <1>8 DEF Execute
    <3> QED
      BY <1>b, <3>1, <3>2
  <2>3. CASE q.chat # c \/ ~ Invalidates(q)
    BY <1>7, <2>1, <2>2, <2>3
  <2>4. CASE q.chat = c /\ Invalidates(q)
    <3>1. Go(h, "invalidate") /\ request' = request
      BY <1>8, <2>4 DEF Execute
    <3>2. At(h, "invalidate")' /\ request'[h].chat = c
      BY <2>4, <3>1 DEF Go, At, TypeOK
    <3> QED
      BY <3>2 DEF Awaited
  <2> QED
    BY <2>3, <2>4
<1>9. ASSUME NEW h \in Handlers, ExecuteAckLost(h) PROVE Explained(c)'
  <2> PICK q : q = request[h]
    OBVIOUS
  <2>1. /\ q \in Requests /\ At(h, "execute") /\ Effect(q) /\ entry' = entry
        /\ Answer(h)
        /\ cause'[c] = Blame(c, IF c = q.chat THEN {"lost"} ELSE BehindTheCache(q, c))
    BY <1>9 DEF ExecuteAckLost, HandlersAreSound, At
  <2>2. \A k \in Handlers : Pending(k) => At(k, "invalidate")' /\ request'[k].chat = c
    <3>1. ~ Pending(h)
      BY <2>1 DEF At
    <3> QED
      BY <1>b, <2>1, <3>1
  <2>3. CASE q.chat = c
    <3>1. entry'[c] = None \/ "lost" \in cause'[c]
      BY <2>1, <2>3 DEF Blame
    <3> QED
      BY <3>1
  <2>4. CASE q.chat # c
    BY <1>7, <2>1, <2>2, <2>4
  <2> QED
    BY <2>3, <2>4
<1>10. ASSUME NEW h \in Handlers, Invalidate(h) \/ InvalidateFails(h) PROVE Explained(c)'
  <2>1. CASE request[h].chat = c
    <3>1. entry'[c] = None \/ "lost" \in cause'[c]
      BY <1>0, <1>10, <2>1 DEF Invalidate, InvalidateFails, Blame
    <3> QED
      BY <3>1
  <2>2. CASE request[h].chat # c
    <3>1. entry'[c] = entry[c] /\ cause'[c] = cause[c] /\ UNCHANGED tables /\ Answer(h)
      BY <1>0, <1>10, <2>2 DEF Invalidate, InvalidateFails
    <3>2. \A k \in Handlers : Pending(k) => At(k, "invalidate")' /\ request'[k].chat = c
      BY <1>b, <2>2, <3>1
    <3> QED
      BY <1>d, <3>1, <3>2
  <2> QED
    BY <2>1, <2>2
<1>11. ASSUME NEW d \in Chats, Expire(d) PROVE Explained(c)'
  <2>1. CASE d = c
    BY <1>0, <1>11, <2>1 DEF Expire
  <2>2. CASE d # c
    <3>1. entry'[c] = entry[c] /\ cause'[c] = cause[c] /\ UNCHANGED tables
          /\ pc' = pc /\ request' = request
      BY <1>0, <1>11, <2>2 DEF Expire
    <3> QED
      BY <1>d, <3>1 DEF At
  <2> QED
    BY <2>1, <2>2
<1>12. CASE Crash
  <2>1. entry' = entry /\ UNCHANGED tables
    BY <1>12 DEF Crash
  <2>2. cause'[c] = IF \E h \in Handlers : Pending(h)
                    THEN Blame(c, {"lost"}) ELSE cause[c]
    BY <1>12 DEF Crash
  <2>3. CASE \E h \in Handlers : Pending(h)
    <3>1. entry'[c] = None \/ "lost" \in cause'[c]
      BY <2>1, <2>2, <2>3 DEF Blame
    <3> QED
      BY <3>1
  <2>4. CASE ~ \E h \in Handlers : Pending(h)
    BY <1>d, <2>1, <2>2, <2>4
  <2> QED
    BY <2>3, <2>4
<1>13. ASSUME NEW l \in Links, UpdateLastUpdated(l) PROVE Explained(c)'
  <2>1. /\ entry' = entry /\ pc' = pc /\ request' = request
        /\ UNCHANGED <<subscriptions, tagged>>
        /\ \A k \in Links \ {l} : lastUpdated'[k] = lastUpdated[k]
        /\ cause'[c] = IF <<c, l>> \in subscriptions THEN Blame(c, {"scan"})
                       ELSE cause[c]
    BY <1>13 DEF UpdateLastUpdated, TypeOK
  <2>2. LinksOf(c)' = LinksOf(c)
    BY <2>1, LinksStay
  <2>3. TagsOf(c, LinksOf(c))' = TagsOf(c, LinksOf(c))
    BY <2>1, <2>2, TagsStay
  <2>4. \/ entry[c] = None
        \/ TimesOf(LinksOf(c))' = TimesOf(LinksOf(c))
        \/ cause'[c] \cap {"scan", "reset"} # {}
    <3>1. CASE <<c, l>> \in subscriptions
      BY <2>1, <3>1 DEF Blame
    <3>2. CASE <<c, l>> \notin subscriptions
      <4>1. \A k \in LinksOf(c) : k \in Links \ {l}
        BY <3>2 DEF LinksOf
      <4> QED
        BY <2>1, <2>2, <4>1, TimesStay
    <3> QED
      BY <3>1, <3>2
  <2>5. cause[c] \subseteq cause'[c]
    BY <1>e, <2>1
  <2>6. \A k \in Handlers : Pending(k) => At(k, "invalidate")' /\ request'[k].chat = c
    BY <2>1 DEF At
  <2> QED
    BY <1>c, <2>1, <2>2, <2>3, <2>4, <2>5, <2>6
<1>14. CASE UNCHANGED vars
  <2>1. UNCHANGED <<tables, entry, cause, pc, request>>
    BY <1>14 DEF vars
  <2> QED
    BY <1>d, <2>1 DEF At
<1> QED
  BY <1>1, <1>3, <1>4, <1>5, <1>6, <1>8, <1>9, <1>10, <1>11, <1>12, <1>13, <1>14
     DEF Next, Work

---------------------------------------------------------------------------
(* Theorems. *)

\* The cache starts empty.
LEMMA InitIndInv == Init => IndInv
<1> SUFFICES ASSUME Init PROVE IndInv
  OBVIOUS
<1>1. TypeOK
  BY BoundsAssumption, NeverAssumption DEF Init, TypeOK, NoRows, Lists
<1>2. HandlersAreSound /\ RowsHaveOwners /\ StalenessHasACause
  BY DEF Init, HandlersAreSound, At, RowsHaveOwners, StalenessHasACause
<1> QED
  BY <1>1, <1>2 DEF IndInv

\* Every step of every request keeps the invariant.
LEMMA NextIndInv == IndInv /\ [Next]_vars => IndInv'
BY NextType, NextOwners, NextStaleness DEF IndInv

\* chat_service.go, link_service.go, tag_service.go: IndInv holds however the
\* requests interleave and whatever fails.
THEOREM RegistryInvariant == Spec => []IndInv
BY InitIndInv, NextIndInv, PTL DEF Spec

\* No subscription, tag or tag of a subscription outlives its owner.
THEOREM RowsKeepTheirOwners == Spec => []RowsHaveOwners
<1>1. IndInv => RowsHaveOwners
  BY DEF IndInv
<1> QED
  BY <1>1, RegistryInvariant, PTL

\* GET /list is answered from an entry that is current, or out of date for one
\* of the named causes.
THEOREM StaleEntriesAreExplained == Spec => []StalenessHasACause
<1>1. IndInv => StalenessHasACause
  BY DEF IndInv
<1> QED
  BY <1>1, RegistryInvariant, PTL
============================================================================
