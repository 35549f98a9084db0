------------------------ MODULE TrackDialogueProofs ------------------------
(***************************************************************************)
(* What the user may rely on in the dialogue of /track, for any number of  *)
(* URLs, tags, messages, attempts and faults.                              *)
(***************************************************************************)
EXTENDS TrackDialogue, TLAPS

\* What a message carries, whatever it is.
LEMMA MessageFields ==
    ASSUME NEW m \in Messages
    PROVE  /\ m.url \in Urls \cup {None}
           /\ m.tags \in SUBSET TagNames
           /\ m.kind \in {"text", "/start", "/help", "/track", "/cancel", "/list",
                          "/untrack", "/untrack tag", "/other"}
           /\ m.kind = "/untrack tag" => m.tags = {} \/ \E t \in Tags : m.tags = {t}
<1>1. PICK k, u, ts : m = Message(k, u, ts) /\
         \/ /\ k \in {"/start", "/help", "/track", "/cancel", "/list", "/untrack",
                      "/untrack tag", "/other"}
            /\ u = None
            /\ ts = {}
         \/ k = "/untrack" /\ u \in Urls /\ ts = {}
         \/ k = "/untrack tag" /\ u = None /\ \E t \in Tags : ts = {t}
         \/ k = "/list" /\ u = None /\ \E t \in Tags : ts = {t}
         \/ k = "text" /\ u \in Urls /\ ts = {UrlAsTag}
         \/ k = "text" /\ u = None /\ ts \in SUBSET Tags
  BY Zenon DEF Messages, Commands, Texts
<1>2. m.kind = k /\ m.url = u /\ m.tags = ts
  BY <1>1 DEF Message
<1>3. ts \in SUBSET TagNames
  BY <1>1 DEF TagNames
<1>4. QED
  BY <1>1, <1>2, <1>3

\* The requests that commands make are requests of the scrapper's API.
LEMMA RequestTypes ==
    /\ Request("RegisterChat", None, {}) \in Requests
    /\ Request("ListLinks", None, {}) \in Requests
    /\ \A u \in Urls, ts \in SUBSET TagNames : Request("AddLink", u, ts) \in Requests
    /\ \A u \in Urls : Request("RemoveLink", u, {}) \in Requests
    /\ \A t \in Tags : Request("RemoveLinksByTag", None, {t}) \in Requests
<1>1. ASSUME NEW u \in Urls, NEW ts \in SUBSET TagNames
      PROVE  Request("AddLink", u, ts) \in Requests
  BY DEF Requests
<1>2. ASSUME NEW u \in Urls PROVE Request("RemoveLink", u, {}) \in Requests
  BY DEF Requests
<1>3. ASSUME NEW t \in Tags
      PROVE  Request("RemoveLinksByTag", None, {t}) \in Requests
  BY DEF Requests
<1>4. /\ Request("RegisterChat", None, {}) \in Requests
      /\ Request("ListLinks", None, {}) \in Requests
  BY DEF Requests
<1>5. QED
  BY <1>1, <1>2, <1>3, <1>4

\* What a request carries.
LEMMA RequestFields ==
    ASSUME NEW r \in Requests
    PROVE  /\ r.op \in {"RegisterChat", "ListLinks", "AddLink", "RemoveLink",
                        "RemoveLinksByTag"}
           /\ r.op \in {"AddLink", "RemoveLink"} => r.url \in Urls
           /\ r.tags \in SUBSET TagNames
BY DEF Requests, Request, TagNames

\* Names are not confused.
LEMMA NoneIsNoUrl == None \notin Urls
BY UrlsAssumption DEF None

\* What a session holds.
LEMMA SessionFields ==
    ASSUME NEW s \in Sessions
    PROVE  /\ s.state \in {None, "waiting_for_url", "waiting_for_tags"}
           /\ s.url \in Urls \cup {None}
           /\ s.state = "waiting_for_tags" => s.url \in Urls
BY DEF Sessions, None

\* The places of a handling.
LEMMA PlacesListed ==
    Places = {"idle", "calling", "replying", "received", "cancelling", "opening",
              "parsing", "saving", "tagging", "closing"}
BY DEF Places, FailureAnswer

\* What is written to track_sessions is a session.
LEMMA WrittenType == ASSUME TypeOK, HandlingFits PROVE Written \in Sessions
<1>1. CASE pc = "saving"
  <2>1. message.url \in Urls
    BY <1>1, MessageFields DEF HandlingFits
  <2>2. QED
    BY <1>1, <2>1 DEF Written, Sessions
<1>2. CASE pc # "saving"
  BY <1>2 DEF Written, Sessions, NoSession, TypeOK
<1>3. QED
  BY <1>1, <1>2

\* A new call of the scrapper is a call.
LEMMA CallType ==
    ASSUME NEW r \in Requests
    PROVE  [request |-> r, via |-> "http", attempt |-> 1] \in Calls
<1>1. 1 \in 1..MaxAttempts
  BY DialogueBounds
<1>2. QED
  BY <1>1 DEF Calls

\* A fault uses up one of those that are left.
LEMMA FaultType == ASSUME faults \in Nat, Fault PROVE faults' \in Nat
BY DEF Fault

\* At the start nothing is tracked and nothing has been said.
LEMMA InitInv == Init => IndInv
<1> SUFFICES ASSUME Init PROVE IndInv
  OBVIOUS
<1>1. TypeOK
  <2>1. session \in Sessions
    BY DEF Init, Sessions, NoSession
  <2>2. call \in Calls
    <3>1. 1 \in 1..MaxAttempts
      BY DialogueBounds
    <3>2. QED
      BY <3>1, RequestTypes, Zenon DEF Init, Calls
  <2>3. QED
    BY <2>1, <2>2, DialogueBounds DEF Init, TypeOK, NoMessage, Places
<1>2. HandlingFits /\ ChangesComeLast /\ SessionEndsWithLink
  BY DEF Init, HandlingFits, Asking, ChangesComeLast, SessionEndsWithLink
<1>3. ClaimsHold /\ FailureHasACause
  BY DEF Init, ClaimsHold, FailureHasACause, None
<1>4. QED
  BY <1>1, <1>2, <1>3 DEF IndInv

\* The next message.
LEMMA ReceiveInv == ASSUME IndInv, NEW m \in Messages, Receive(m) PROVE IndInv'
<1> USE DEF IndInv, registry, story, input
<1>1. TypeOK'
  <2>1. messages' \in Nat
    <3>1. messages \in Nat
      BY DEF TypeOK
    <3>2. messages' = messages \/ (messages > 0 /\ messages' = messages - 1)
      BY Zenon DEF Receive
    <3>3. QED
      BY <3>1, <3>2
  <2>2. again' \in Messages \cup {Message(None, None, {})}
    BY DEF TypeOK, Receive, NoMessage
  <2>3. "received" \in Places
    BY PlacesListed
  <2>4. QED
    BY <2>1, <2>2, <2>3 DEF TypeOK, Receive
<1>2. HandlingFits'
  BY DEF TypeOK, HandlingFits, Asking, Asks, Receive
<1>3. ChangesComeLast'
  BY DEF TypeOK, ChangesComeLast, Receive
<1>4. SessionEndsWithLink'
  BY DEF TypeOK, SessionEndsWithLink, Receive
<1>5. ClaimsHold'
  BY DEF TypeOK, ClaimsHold, Receive
<1>6. FailureHasACause'
  BY DEF TypeOK, FailureHasACause, Receive
<1>7. QED
  BY <1>1, <1>2, <1>3, <1>4, <1>5, <1>6

\* The answer is sent, or lost.
LEMMA ReplyInv == ASSUME IndInv, Reply PROVE IndInv'
<1> USE DEF IndInv, registry, story, input
<1>1. TypeOK'
  BY PlacesListed DEF TypeOK, Reply
<1>2. HandlingFits'
  BY DEF TypeOK, HandlingFits, Asking, Asks, Reply
<1>3. ChangesComeLast'
  BY DEF TypeOK, ChangesComeLast, Reply
<1>4. SessionEndsWithLink'
  BY DEF TypeOK, SessionEndsWithLink, Reply
<1>5. ClaimsHold'
  BY DEF TypeOK, ClaimsHold, Reply
<1>6. FailureHasACause'
  BY DEF TypeOK, FailureHasACause, Reply
<1>7. QED
  BY <1>1, <1>2, <1>3, <1>4, <1>5, <1>6

\* The dispatcher chooses a handler.
LEMMA DispatchInv == ASSUME IndInv, Dispatch PROVE IndInv'
<1> USE DEF IndInv, registry, story, input
<1>1. TypeOK'
  BY PlacesListed, CallType, RequestTypes DEF TypeOK, Dispatch, Answer, Ask, Command
<1>2. HandlingFits'
  <2>1. CASE pc' = "calling"
    <3>1. /\ message.kind # "text" /\ Asks(message)
          /\ call'.request = Request("RegisterChat", None, {})
      BY <2>1 DEF Dispatch, Answer, Ask, Command
    <3>2. call'.request.op # "AddLink"
      BY <3>1 DEF Request
    <3>3. QED
      BY <2>1, <3>1, <3>2 DEF Dispatch, HandlingFits, Asking, Asks
  <2>2. CASE pc' # "calling"
    BY <2>2 DEF HandlingFits, Asking, Dispatch, Answer, Ask, Command
  <2>3. QED
    BY <2>1, <2>2
<1>3. ChangesComeLast'
  BY DEF TypeOK, ChangesComeLast, Dispatch, Answer, Ask, Command, Request
<1>4. SessionEndsWithLink'
  BY DEF TypeOK, SessionEndsWithLink, Dispatch, Answer, Ask, Command, Request
<1>5. ClaimsHold'
  BY DEF TypeOK, ClaimsHold, Dispatch, Answer, Ask, Command, Request
<1>6. FailureHasACause'
  BY DEF TypeOK, FailureHasACause, Dispatch, Answer, Ask, Command, Request
<1>7. QED
  BY <1>1, <1>2, <1>3, <1>4, <1>5, <1>6

\* A session is opened or cancelled.
LEMMA OpenedInv == ASSUME IndInv, Opened PROVE IndInv'
<1> USE DEF IndInv, registry, story, input
<1>1. TypeOK'
  BY PlacesListed, WrittenType DEF TypeOK, Opened, Write, Answer
<1>2. HandlingFits'
  BY DEF TypeOK, HandlingFits, Asking, Asks, Opened, Write, Answer, Written, NoSession, None
<1>3. ChangesComeLast'
  BY DEF TypeOK, ChangesComeLast, Opened, Write, Answer, Written, NoSession, None
<1>4. SessionEndsWithLink'
  BY DEF TypeOK, SessionEndsWithLink, Opened, Write, Answer, Written, NoSession, None
<1>5. ClaimsHold'
  BY DEF TypeOK, ClaimsHold, Opened, Write, Answer, Written, NoSession, None
<1>6. FailureHasACause'
  BY DEF TypeOK, FailureHasACause, Opened, Write, Answer, Written, NoSession, None
<1>7. QED
  BY <1>1, <1>2, <1>3, <1>4, <1>5, <1>6

\* The URL is parsed.
LEMMA HandleURLInv == ASSUME IndInv, HandleURL PROVE IndInv'
<1> USE DEF IndInv, registry, story, input
<1>1. TypeOK'
  BY PlacesListed DEF TypeOK, HandleURL, Answer
<1>2. HandlingFits'
  BY DEF TypeOK, HandlingFits, Asking, Asks, HandleURL, Answer, None
<1>3. ChangesComeLast'
  BY DEF TypeOK, ChangesComeLast, HandleURL, Answer
<1>4. SessionEndsWithLink'
  BY DEF TypeOK, SessionEndsWithLink, HandleURL, Answer
<1>5. ClaimsHold'
  BY DEF TypeOK, ClaimsHold, HandleURL, Answer
<1>6. FailureHasACause'
  BY DEF TypeOK, FailureHasACause, HandleURL, Answer
<1>7. QED
  BY <1>1, <1>2, <1>3, <1>4, <1>5, <1>6

\* The URL is saved in the session.
LEMMA SaveURLInv == ASSUME IndInv, SaveURL PROVE IndInv'
<1> USE DEF IndInv, registry, story, input
<1>1. TypeOK'
  BY PlacesListed, WrittenType DEF TypeOK, SaveURL, Write, Answer
<1>2. HandlingFits'
  BY DEF TypeOK, HandlingFits, Asking, Asks, SaveURL, Write, Answer, Written, NoSession, None
<1>3. ChangesComeLast'
  BY DEF TypeOK, ChangesComeLast, SaveURL, Write, Answer, Written, NoSession, None
<1>4. SessionEndsWithLink'
  BY DEF TypeOK, SessionEndsWithLink, SaveURL, Write, Answer, Written, NoSession, None
<1>5. ClaimsHold'
  BY DEF TypeOK, ClaimsHold, SaveURL, Write, Answer, Written, NoSession, None
<1>6. FailureHasACause'
  BY DEF TypeOK, FailureHasACause, SaveURL, Write, Answer, Written, NoSession, None
<1>7. QED
  BY <1>1, <1>2, <1>3, <1>4, <1>5, <1>6

\* The tags are read.
LEMMA HandleTagsInv == ASSUME IndInv, HandleTags PROVE IndInv'
<1> USE DEF IndInv, registry, story, input
<1>1. TypeOK'
  BY PlacesListed, CallType, RequestTypes DEF TypeOK, HandleTags, Ask
<1>2. HandlingFits'
  BY DEF TypeOK, HandlingFits, Asking, Asks, HandleTags, Ask, Request
<1>3. ChangesComeLast'
  BY DEF TypeOK, ChangesComeLast, HandleTags, Ask, Request
<1>4. SessionEndsWithLink'
  BY DEF TypeOK, SessionEndsWithLink, HandleTags, Ask, Request
<1>5. ClaimsHold'
  BY DEF TypeOK, ClaimsHold, HandleTags, Ask, Request
<1>6. FailureHasACause'
  BY DEF TypeOK, FailureHasACause, HandleTags, Ask, Request
<1>7. QED
  BY <1>1, <1>2, <1>3, <1>4, <1>5, <1>6

\* The session is cleared.
LEMMA CloseInv == ASSUME IndInv, Close PROVE IndInv'
<1> USE DEF IndInv, registry, story, input
<1>1. TypeOK'
  BY PlacesListed, WrittenType, SessionFields DEF TypeOK, Close, Write, Answer, HandlingFits
<1>2. HandlingFits'
  BY DEF TypeOK, HandlingFits, Asking, Asks, Close, Write, Answer, Written, NoSession, None
<1>3. ChangesComeLast'
  BY DEF TypeOK, ChangesComeLast, Close, Write, Answer, Written, NoSession, None
<1>4. SessionEndsWithLink'
  BY DEF TypeOK, SessionEndsWithLink, Close, Write, Answer, Written, NoSession, None
<1>5. ClaimsHold'
  <2>1. session.url \in Urls /\ session.url \in tracked \cup surprised
    BY SessionFields DEF TypeOK, HandlingFits, Close
  <2>2. QED
    BY <2>1 DEF TypeOK, ClaimsHold, Close, Write, Answer, None
<1>6. FailureHasACause'
  BY DEF TypeOK, FailureHasACause, Close, Write, Answer, Written, NoSession, None
<1>7. QED
  BY <1>1, <1>2, <1>3, <1>4, <1>5, <1>6

\* A statement fails.
LEMMA DatabaseFailsInv == ASSUME IndInv, DatabaseFails PROVE IndInv'
<1> USE DEF IndInv, registry, story, input
<1>1. /\ pc \in {"received", "cancelling", "opening", "parsing", "saving", "tagging",
                 "closing"}
      /\ pc' = "replying"
      /\ answer' \notin {"not added", "not removed"}
  <2>1. pc \in {"received", "cancelling", "opening", "parsing", "saving", "tagging",
                "closing"}
    BY DEF DatabaseFails, FailureAnswer
  <2>2. pc' = "replying" /\ answer' = FailureAnswer[pc]
    BY DEF DatabaseFails, Answer
  <2>3. FailureAnswer[pc] \notin {"not added", "not removed"}
    <3>1. /\ FailureAnswer["received"] = "no state"
          /\ FailureAnswer["cancelling"] = "not cancelled"
          /\ FailureAnswer["opening"] = "not saved"
          /\ FailureAnswer["parsing"] = ""
          /\ FailureAnswer["saving"] = "not saved"
          /\ FailureAnswer["tagging"] = "no state"
          /\ FailureAnswer["closing"] = "not cleared"
      BY DEF FailureAnswer
    <3>2. QED
      BY <2>1, <3>1
  <2>4. QED
    BY <2>1, <2>2, <2>3
<1>2. pc = "closing" => session.url \in Urls /\ session.url \in tracked \cup surprised
  BY SessionFields DEF TypeOK, HandlingFits
<1>3. /\ claim' \in [Urls -> {None, "tracked", "not tracked"}]
      /\ \A u \in Urls : \/ claim'[u] = claim[u]
                         \/ u \in tracked \cup surprised /\ claim'[u] = "tracked"
  BY <1>2 DEF DatabaseFails, TypeOK
<1>4. \/ UNCHANGED <<session, added>> /\ troubles' = troubles \cup {"database"}
      \/ Write
  BY DEF DatabaseFails
<1>5. session' \in Sessions /\ added' \in BOOLEAN
      /\ troubles' \subseteq {"database", "scrapper", "crash"}
  BY <1>4, WrittenType DEF Write, TypeOK
<1>6. TypeOK'
  <2>1. faults' \in Nat
    BY FaultType DEF DatabaseFails, TypeOK
  <2>2. "replying" \in Places
    BY PlacesListed
  <2>3. QED
    BY <1>1, <1>3, <1>5, <2>1, <2>2 DEF TypeOK, DatabaseFails
<1>7. HandlingFits'
  BY <1>1 DEF HandlingFits, Asking, DatabaseFails
<1>8. ChangesComeLast' /\ FailureHasACause'
  BY <1>1 DEF ChangesComeLast, FailureHasACause
<1>9. SessionEndsWithLink'
  <2>1. CASE UNCHANGED <<session, added>> /\ troubles' = troubles \cup {"database"}
    BY <2>1 DEF SessionEndsWithLink
  <2>2. CASE Write
    BY <1>1, <2>2 DEF SessionEndsWithLink, Write, Written, NoSession, None
  <2>3. QED
    BY <1>4, <2>1, <2>2
<1>10. ClaimsHold'
  BY <1>3 DEF ClaimsHold, DatabaseFails, None
<1>11. QED
  BY <1>6, <1>7, <1>8, <1>9, <1>10
\* A call that fails goes on, over the other transport perhaps, or the command
\* says so.
LEMMA CallFailsEffect ==
    ASSUME TypeOK, pc = "calling", CallFails
    PROVE  \/ /\ pc' = "calling" /\ UNCHANGED answer
              /\ call' \in Calls /\ call'.request = call.request
           \/ pc' = "replying" /\ UNCHANGED call /\ answer' = CallFailure[call.request.op]
<1>1. CASE call.via = "http" /\ grpc
  <2>1. call \in Calls /\ call' = [call EXCEPT !.via = "grpc"] /\ UNCHANGED <<pc, answer>>
    BY <1>1 DEF CallFails, TypeOK
  <2>2. call' \in Calls /\ call'.request = call.request
    BY <2>1 DEF Calls
  <2>3. QED
    BY <2>1, <2>2
<1>2. CASE ~(call.via = "http" /\ grpc)
  BY <1>2 DEF CallFails, Answer
<1>3. QED
  BY <1>1, <1>2

\* What the requests say when they fail.
LEMMA FailureNamesRequest ==
    ASSUME NEW r \in Requests
    PROVE  /\ CallFailure[r.op] = "not added" => r.op = "AddLink"
           /\ CallFailure[r.op] = "not removed" => r.op = "RemoveLink"
<1>1. /\ CallFailure["RegisterChat"] = "not registered"
      /\ CallFailure["AddLink"] = "not added"
      /\ CallFailure["RemoveLink"] = "not removed"
      /\ CallFailure["RemoveLinksByTag"] = "tag not removed"
      /\ CallFailure["ListLinks"] = "not listed"
  BY DEF CallFailure
<1>2. QED
  BY <1>1, RequestFields

\* An attempt that leaves the scrapper as it is, and does not end in success.
LEMMA AttemptInv ==
    ASSUME IndInv, pc = "calling",
           UNCHANGED <<grpc, session, message, registry, input, claim, surprised,
                       before, added>>,
           faults' \in Nat, abandoned' \subseteq Requests \X Nat,
           troubles' \in {troubles, troubles \cup {"scrapper"}},
           missed' \in {missed, TRUE},
           \/ /\ pc' = "calling" /\ UNCHANGED answer
              /\ call' \in Calls /\ call'.request = call.request
           \/ pc' = "replying" /\ UNCHANGED call /\ answer' = CallFailure[call.request.op]
    PROVE  IndInv'
<1> USE DEF IndInv, registry, input
<1>1. TypeOK'
  BY PlacesListed DEF TypeOK
<1>2. HandlingFits'
  BY DEF HandlingFits, Asking, Asks
<1>3. ChangesComeLast'
  BY DEF ChangesComeLast
<1>4. SessionEndsWithLink'
  BY DEF SessionEndsWithLink
<1>5. ClaimsHold'
  BY DEF ClaimsHold
<1>6. FailureHasACause'
  <2> SUFFICES ASSUME pc' = "replying", ~missed', surprised' = {}
               PROVE  (/\ answer = "not added" => session.url \notin tracked \ before
                       /\ answer = "not removed" => message.url \notin before \ tracked)'
    BY DEF FailureHasACause
  <2>1. tracked \ before = {} /\ before \ tracked = {}
    BY DEF ChangesComeLast, TypeOK
  <2>2. QED
    BY <2>1
<1>7. QED
  BY <1>1, <1>2, <1>3, <1>4, <1>5, <1>6

\* The scrapper declines.
LEMMA DeclinedInv == ASSUME IndInv, Declined PROVE IndInv'
<1>1. /\ TypeOK /\ pc = "calling" /\ CallFails
      /\ UNCHANGED <<grpc, session, message, registry, input, claim, surprised,
                     before, added, abandoned, faults, troubles, missed>>
  BY DEF IndInv, Declined, story
<1>2. faults' \in Nat /\ abandoned' \subseteq Requests \X Nat
  BY <1>1 DEF TypeOK
<1>3. QED
  BY <1>1, <1>2, CallFailsEffect, AttemptInv

\* The scrapper is not reached.
LEMMA NotServedInv == ASSUME IndInv, NotServed PROVE IndInv'
<1>1. /\ TypeOK /\ pc = "calling"
      /\ UNCHANGED <<grpc, session, message, registry, input, claim, surprised,
                     before, added, abandoned, missed>>
      /\ troubles' = troubles \cup {"scrapper"}
  BY DEF IndInv, NotServed
<1>2. faults' \in Nat /\ abandoned' \subseteq Requests \X Nat
  BY <1>1, FaultType DEF NotServed, TypeOK
<1>3. CASE /\ call.via = "http" /\ call.attempt < MaxAttempts
           /\ call' = [call EXCEPT !.attempt = @ + 1]
           /\ UNCHANGED <<pc, answer>>
  <2>1. call \in Calls
    BY <1>1 DEF TypeOK
  <2>2. call.attempt + 1 \in 1..MaxAttempts
    BY <1>3, <2>1, DialogueBounds DEF Calls
  <2>3. call' \in Calls /\ call'.request = call.request
    BY <1>3, <2>1, <2>2 DEF Calls
  <2>4. QED
    BY <1>1, <1>2, <1>3, <2>3, AttemptInv
<1>4. CASE CallFails
  BY <1>1, <1>2, <1>4, CallFailsEffect, AttemptInv
<1>5. QED
  BY <1>3, <1>4 DEF NotServed

\* The requests that nobody waits for any more.
LEMMA AbandonType ==
    ASSUME TypeOK, Abandon PROVE abandoned' \subseteq Requests \X Nat
<1>1. call.request \in Requests /\ faults \in Nat
  BY DEF TypeOK, Calls
<1>2. <<call.request, faults>> \in Requests \X Nat
  BY <1>1
<1>3. QED
  BY <1>2 DEF TypeOK, Abandon

\* The answer is lost.
LEMMA NotAnsweredInv == ASSUME IndInv, NotAnswered PROVE IndInv'
<1>1. /\ TypeOK /\ pc = "calling" /\ CallFails
      /\ UNCHANGED <<grpc, session, message, registry, input, claim, surprised,
                     before, added>>
      /\ troubles' = troubles \cup {"scrapper"} /\ missed' = TRUE
  BY DEF IndInv, NotAnswered
<1>2. faults' \in Nat /\ abandoned' \subseteq Requests \X Nat
  BY <1>1, FaultType, AbandonType DEF NotAnswered, TypeOK
<1>3. QED
  BY <1>1, <1>2, CallFailsEffect, AttemptInv

\* What serving a request does to the registry.
LEMMA ServeEffect ==
    ASSUME TypeOK, NEW r \in Requests, CanServe(r), Serve(r)
    PROVE  /\ registered' \in BOOLEAN
           /\ tracked' \subseteq Urls
           /\ tags' \in [Urls -> SUBSET TagNames]
           /\ \A u \in Urls \ Concerned(r) : u \in tracked' <=> u \in tracked
           /\ r.op = "AddLink" => r.url \in tracked'
           /\ r.op \in {"RemoveLink", "RemoveLinksByTag"} =>
                \A u \in Concerned(r) : u \notin tracked'
           /\ r.op \in {"RegisterChat", "ListLinks"} =>
                tracked' = tracked /\ Concerned(r) = {}
<1>1. /\ r.op \in {"AddLink", "RemoveLink"} => r.url \in Urls
      /\ r.tags \in SUBSET TagNames
      /\ r.op \in {"RegisterChat", "ListLinks", "AddLink", "RemoveLink", "RemoveLinksByTag"}
  BY RequestFields
<1>2. registered' \in BOOLEAN
  BY Zenon DEF TypeOK, Serve
<1>3. tracked' \subseteq Urls
  BY <1>1 DEF TypeOK, Serve
<1>4. tags' \in [Urls -> SUBSET TagNames]
  <2>1. \A u \in Urls : tags[u] \in SUBSET TagNames
    BY DEF TypeOK
  <2>2. QED
    BY <1>1, <2>1 DEF Serve
<1>5. QED
  BY <1>1, <1>2, <1>3, <1>4 DEF Serve, Concerned

\* Once the chat is registered the command answers, opens a session or asks for
\* what it is about.
LEMMA RegisteredEffect ==
    ASSUME TypeOK, HandlingFits, pc = "calling", Registered
    PROVE  \/ pc' = "replying" /\ UNCHANGED call /\ answer' \in {"welcome", "help"}
           \/ pc' = "opening" /\ UNCHANGED <<call, answer>>
           \/ /\ pc' = "calling" /\ UNCHANGED answer
              /\ call' \in Calls
              /\ call'.request.op = "AddLink" =>
                   message.kind = "text" /\ call'.request.url = session.url
<1>1. message \in Messages
  BY DEF HandlingFits
<1>2. CASE message.kind = "/start"
  BY <1>2 DEF Registered, Answer
<1>3. CASE message.kind = "/track"
  BY <1>3 DEF Registered
<1>4. CASE message.kind = "/list"
  <2>1. Ask(Request("ListLinks", None, {}))
    BY <1>4 DEF Registered
  <2>2. QED
    BY <2>1, CallType, RequestTypes DEF Ask, Request
<1>5. CASE message.kind = "/untrack"
  <2>1. Ask(Request("RemoveLink", message.url, {}))
    BY <1>5 DEF Registered
  <2>2. message.url \in Urls
    BY <1>1, <1>5, MessageFields DEF HandlingFits, Asks
  <2>3. QED
    BY <2>1, <2>2, CallType, RequestTypes DEF Ask, Request
<1>6. CASE message.kind = "/untrack tag"
  <2>1. CASE message.tags = {}
    BY <1>6, <2>1 DEF Registered, Answer
  <2>2. CASE message.tags # {}
    <3>1. Ask(Request("RemoveLinksByTag", None, message.tags))
      BY <1>6, <2>2 DEF Registered
    <3>2. PICK t \in Tags : message.tags = {t}
      BY <1>1, <1>6, <2>2, MessageFields
    <3>3. QED
      BY <3>1, <3>2, CallType, RequestTypes DEF Ask, Request
  <2>3. QED
    BY <2>1, <2>2
<1>7. CASE message.kind = "text"
  <2>1. Ask(Request("AddLink", session.url, message.tags))
    BY <1>7 DEF Registered
  <2>2. session.url \in Urls
    BY <1>7, SessionFields DEF HandlingFits, TypeOK
  <2>3. message.tags \in SUBSET TagNames
    BY <1>1, MessageFields
  <2>4. QED
    BY <1>7, <2>1, <2>2, <2>3, CallType, RequestTypes DEF Ask, Request
<1>8. QED
  BY <1>2, <1>3, <1>4, <1>5, <1>6, <1>7 DEF HandlingFits, Asks

\* An answered request takes the command on.
LEMMA GoOnEffect ==
    ASSUME TypeOK, HandlingFits, pc = "calling", GoOn(call.request)
    PROVE  \/ /\ pc' = "replying" /\ UNCHANGED call
              /\ answer' \notin {"not added", "not removed"}
              /\ call.request.op # "AddLink"
           \/ /\ pc' = "opening" /\ UNCHANGED <<call, answer>>
              /\ call.request.op = "RegisterChat"
           \/ /\ pc' = "calling" /\ UNCHANGED answer
              /\ call' \in Calls
              /\ call'.request.op = "AddLink" =>
                   message.kind = "text" /\ call'.request.url = session.url
              /\ call.request.op = "RegisterChat"
           \/ /\ pc' = "closing" /\ UNCHANGED <<call, answer>>
              /\ call.request.op = "AddLink"
<1> DEFINE r == call.request
<1>1. r.op \in {"RegisterChat", "ListLinks", "AddLink", "RemoveLink", "RemoveLinksByTag"}
  BY RequestFields DEF TypeOK, Calls
<1>2. CASE r.op = "RegisterChat"
  <2>1. Registered
    BY <1>2 DEF GoOn
  <2>2. QED
    BY <1>2, <2>1, RegisteredEffect
<1>3. CASE r.op = "AddLink"
  BY <1>3 DEF GoOn
<1>4. CASE r.op = "RemoveLink"
  BY <1>4 DEF GoOn, Answer
<1>5. CASE r.op = "RemoveLinksByTag"
  BY <1>5 DEF GoOn, Answer
<1>6. CASE r.op = "ListLinks"
  BY <1>6 DEF GoOn, Answer
<1>7. QED
  BY <1>1, <1>2, <1>3, <1>4, <1>5, <1>6

\* The scrapper serves the request and the bot hears of it.
LEMMA ServedInv == ASSUME IndInv, Served PROVE IndInv'
<1> USE DEF IndInv, input
<1> DEFINE r == call.request
<1>1. /\ pc = "calling" /\ CanServe(r) /\ Serve(r) /\ GoOn(r)
      /\ claim' = [u \in Urls |-> IF u \notin Concerned(r) THEN claim[u]
                                  ELSE IF r.op = "AddLink" THEN None
                                  ELSE "not tracked"]
      /\ surprised' = surprised \ Concerned(r)
      /\ added' = (added \/ r.op = "AddLink")
      /\ UNCHANGED <<grpc, session, message, abandoned, input, faults, before,
                     missed, troubles>>
  BY DEF Served
<1>2. r \in Requests
  BY DEF TypeOK, Calls
<1>3. /\ registered' \in BOOLEAN
      /\ tracked' \subseteq Urls
      /\ tags' \in [Urls -> SUBSET TagNames]
      /\ \A u \in Urls \ Concerned(r) : u \in tracked' <=> u \in tracked
      /\ r.op = "AddLink" => r.url \in tracked'
      /\ r.op \in {"RemoveLink", "RemoveLinksByTag"} =>
           \A u \in Concerned(r) : u \notin tracked'
      /\ r.op \in {"RegisterChat", "ListLinks"} => tracked' = tracked /\ Concerned(r) = {}
  BY <1>1, <1>2, ServeEffect
<1>4. \/ /\ pc' = "replying" /\ UNCHANGED call
         /\ answer' \notin {"not added", "not removed"}
         /\ r.op # "AddLink"
      \/ pc' = "opening" /\ UNCHANGED <<call, answer>> /\ r.op = "RegisterChat"
      \/ /\ pc' = "calling" /\ UNCHANGED answer
         /\ call' \in Calls
         /\ call'.request.op = "AddLink" =>
              message.kind = "text" /\ call'.request.url = session.url
         /\ r.op = "RegisterChat"
      \/ pc' = "closing" /\ UNCHANGED <<call, answer>> /\ r.op = "AddLink"
  BY <1>1, GoOnEffect
<1>5. TypeOK'
  <2>1. pc' \in Places /\ call' \in Calls
    BY <1>4, PlacesListed DEF TypeOK
  <2>2. claim' \in [Urls -> {None, "tracked", "not tracked"}]
    BY <1>1 DEF TypeOK
  <2>3. added' \in BOOLEAN
    BY Zenon, <1>1 DEF TypeOK
  <2>4. QED
    BY <1>1, <1>3, <2>1, <2>2, <2>3 DEF TypeOK
<1>6. HandlingFits'
  BY <1>1, <1>3, <1>4 DEF HandlingFits, Asking, Asks
<1>7. ChangesComeLast'
  <2>1. CASE r.op = "RegisterChat"
    <3>1. tracked' = tracked /\ surprised' = surprised /\ before' = before /\ missed' = missed
      BY <1>1, <1>3, <2>1
    <3>2. ~missed => (tracked \ before) \cup (before \ tracked) \subseteq surprised
      BY <1>1 DEF ChangesComeLast
    <3>3. QED
      BY <3>1, <3>2 DEF ChangesComeLast
  <2>2. CASE r.op # "RegisterChat"
    BY <1>4, <2>2 DEF ChangesComeLast
  <2>3. QED
    BY <2>1, <2>2
<1>8. SessionEndsWithLink'
  BY <1>1, <1>4 DEF SessionEndsWithLink
<1>9. ClaimsHold'
  <2> SUFFICES ASSUME NEW u \in Urls, u \notin surprised'
               PROVE  /\ claim'[u] = "tracked" => u \in tracked'
                      /\ claim'[u] = "not tracked" => u \notin tracked'
    BY DEF ClaimsHold
  <2>1. CASE u \notin Concerned(r)
    BY <1>1, <1>3, <2>1 DEF ClaimsHold
  <2>2. CASE u \in Concerned(r)
    <3>1. r.op \in {"AddLink", "RemoveLink", "RemoveLinksByTag"}
      BY <1>2, <1>3, <2>2, RequestFields
    <3>2. claim'[u] = IF r.op = "AddLink" THEN None ELSE "not tracked"
      BY <1>1, <2>2
    <3>3. QED
      BY <1>3, <2>2, <3>1, <3>2 DEF None
  <2>3. QED
    BY <2>1, <2>2
<1>10. FailureHasACause'
  BY <1>4 DEF FailureHasACause
<1>11. QED
  BY <1>5, <1>6, <1>7, <1>8, <1>9, <1>10

\* An abandoned request takes effect after all.
LEMMA LateEffectInv ==
    ASSUME IndInv, NEW a \in abandoned, LateEffect(a) PROVE IndInv'
<1> USE DEF IndInv, input
<1> DEFINE r == a[1]
           Changed == (tracked \cup tracked') \ (tracked \cap tracked')
<1>1. /\ CanServe(r) /\ Serve(r)
      /\ abandoned' = abandoned \ {a}
      /\ surprised' = surprised \cup Changed
      /\ UNCHANGED <<grpc, session, pc, message, call, answer, input, faults,
                     claim, before, missed, added, troubles>>
  BY DEF LateEffect
<1>2. r \in Requests
  BY DEF TypeOK
<1>3. registered' \in BOOLEAN /\ tracked' \subseteq Urls /\ tags' \in [Urls -> SUBSET TagNames]
  BY <1>1, <1>2, ServeEffect
<1>4. TypeOK'
  <2>1. abandoned' \subseteq Requests \X Nat
    BY <1>1 DEF TypeOK
  <2>2. surprised' \subseteq Urls
    BY <1>1, <1>3 DEF TypeOK
  <2>3. QED
    BY <1>1, <1>3, <2>1, <2>2 DEF TypeOK
<1>5. \A u \in Urls \ surprised' : u \notin surprised /\ (u \in tracked' <=> u \in tracked)
  BY <1>1
<1>6. HandlingFits'
  <2>1. pc = "closing" => session.url \in Urls /\ session.url \in tracked \cup surprised
    BY SessionFields DEF TypeOK, HandlingFits
  <2>2. pc' = "closing" => session'.url \in tracked' \cup surprised'
    BY <1>1, <1>5, <2>1
  <2>3. QED
    BY <1>1, <2>2 DEF HandlingFits, Asking, Asks
<1>7. ChangesComeLast'
  <2>1. (tracked' \ before) \cup (before \ tracked') \subseteq
          (tracked \ before) \cup (before \ tracked) \cup Changed
    OBVIOUS
  <2>2. QED
    BY <1>1, <2>1 DEF ChangesComeLast
<1>8. SessionEndsWithLink'
  BY <1>1 DEF SessionEndsWithLink
<1>9. ClaimsHold'
  BY <1>1, <1>5 DEF ClaimsHold
<1>10. FailureHasACause'
  <2>1. surprised' = {} => UNCHANGED <<tracked, surprised>>
    BY <1>1
  <2>2. QED
    BY <1>1, <2>1 DEF FailureHasACause
<1>11. QED
  BY <1>4, <1>6, <1>7, <1>8, <1>9, <1>10

\* The bot dies.
LEMMA CrashInv == ASSUME IndInv, Crash PROVE IndInv'
<1> USE DEF IndInv, registry, input
<1>1. /\ pc # "idle" /\ pc' = "idle" /\ again' \in {NoMessage, message}
      /\ troubles' = troubles \cup {"crash"}
      /\ UNCHANGED <<grpc, session, message, call, answer, registry, messages,
                     claim, surprised, before, missed, added>>
  BY DEF Crash
<1>2. TypeOK'
  <2>1. faults' \in Nat
    BY FaultType DEF Crash, TypeOK
  <2>2. abandoned' \subseteq Requests \X Nat
    BY AbandonType DEF Crash, TypeOK
  <2>3. again' \in Messages \cup {Message(None, None, {})}
    BY <1>1 DEF TypeOK, NoMessage
  <2>4. QED
    BY <1>1, <2>1, <2>2, <2>3, PlacesListed DEF TypeOK
<1>3. HandlingFits'
  BY <1>1 DEF HandlingFits, Asking
<1>4. ChangesComeLast' /\ SessionEndsWithLink' /\ ClaimsHold' /\ FailureHasACause'
  BY <1>1 DEF ChangesComeLast, SessionEndsWithLink, ClaimsHold, FailureHasACause
<1>5. QED
  BY <1>2, <1>3, <1>4

\* Nothing happens.
LEMMA StutterInv == ASSUME IndInv, UNCHANGED vars PROVE IndInv'
<1> USE DEF IndInv, vars, registry, input, story
<1>1. TypeOK'
  BY DEF TypeOK
<1>2. HandlingFits'
  BY DEF HandlingFits, Asking, Asks
<1>3. ChangesComeLast' /\ SessionEndsWithLink' /\ ClaimsHold' /\ FailureHasACause'
  BY DEF ChangesComeLast, SessionEndsWithLink, ClaimsHold, FailureHasACause
<1>4. QED
  BY <1>1, <1>2, <1>3

\* The invariant of the dialogue: what each step of a handling relies on has
\* been established by the steps before it, whatever fails in between.
THEOREM DialogueInvariant == Spec => []IndInv
<1>1. Init => IndInv
  BY InitInv
<1>2. IndInv /\ [Next]_vars => IndInv'
  <2> SUFFICES ASSUME IndInv, [Next]_vars PROVE IndInv'
    OBVIOUS
  <2>1. CASE BotStep
    BY <2>1, ReplyInv, DispatchInv, OpenedInv, HandleURLInv, SaveURLInv,
       HandleTagsInv, CloseInv, DatabaseFailsInv, ServedInv, DeclinedInv,
       NotServedInv, NotAnsweredInv DEF BotStep
  <2>2. CASE \E m \in Messages : Receive(m)
    BY <2>2, ReceiveInv
  <2>3. CASE \E a \in abandoned : LateEffect(a)
    BY <2>3, LateEffectInv
  <2>4. CASE Crash
    BY <2>4, CrashInv
  <2>5. CASE UNCHANGED vars
    BY <2>5, StutterInv
  <2>6. QED
    BY <2>1, <2>2, <2>3, <2>4, <2>5 DEF Next
<1>3. QED
  BY <1>1, <1>2, PTL DEF Spec

\* "Added" links are tracked and "removed" ones are not, unless a request that
\* the bot had given up changed them afterwards.
THEOREM ClaimsAreTrue == Spec => []ClaimsHold
<1>1. IndInv => ClaimsHold
  BY DEF IndInv
<1>2. QED
  BY <1>1, DialogueInvariant, PTL

\* A failed command has left its link as it was, unless a request of it was left
\* without an answer.
THEOREM FailuresAreExplained == Spec => []FailureHasACause
<1>1. IndInv => FailureHasACause
  BY DEF IndInv
<1>2. QED
  BY <1>1, DialogueInvariant, PTL

\* The bot waits for tags of a link that it has added only if its database, the
\* scrapper or the bot itself failed in that dialogue.
THEOREM OpenSessionsExplained == Spec => []OpenSessionsHaveACause
<1>1. IndInv => OpenSessionsHaveACause
  BY DEF IndInv, SessionEndsWithLink, OpenSessionsHaveACause
<1>2. QED
  BY <1>1, DialogueInvariant, PTL
---------------------------------------------------------------------------
(* What the bot tracks, the scrapper can check, unless the host only looks *)
(* like a supported site's.                                                *)

\* The names that a host can hold, and which of them is which site.
LEMMA NamesListed ==
    /\ Names = {"github.com", "GitHub.com", "stackoverflow.com",
                "StackOverflow.com", "example.com"}
    /\ \A n \in DOMAIN Lower, s \in Sites : Spelled(n) = s => Lower[n] = s
    /\ \A s \in Sites : \E n \in DOMAIN Lower : Spelled(n) = s
    /\ \A n \in DOMAIN Lower : Spelled(n) \notin Subdomains
<1>1. DOMAIN Lower = {"github", "GitHub", "overflow", "Overflow", "other"}
  BY DEF Lower
<1>2. /\ Spelled("github") = "github.com" /\ Spelled("GitHub") = "GitHub.com"
      /\ Spelled("overflow") = "stackoverflow.com"
      /\ Spelled("Overflow") = "StackOverflow.com"
      /\ Spelled("other") = "example.com"
      /\ Lower["github"] = "github.com" /\ Lower["overflow"] = "stackoverflow.com"
  BY DEF Spelled, Lower
<1>3. Names = {"github.com", "GitHub.com", "stackoverflow.com",
               "StackOverflow.com", "example.com"}
  BY <1>1, <1>2 DEF Names
<1>4. \A n \in DOMAIN Lower : Spelled(n) \notin Subdomains
  BY <1>1, <1>2 DEF Subdomains
<1>5. \A n \in DOMAIN Lower, s \in Sites : Spelled(n) = s => Lower[n] = s
  BY <1>1, <1>2 DEF Sites
<1>6. \A s \in Sites : \E n \in DOMAIN Lower : Spelled(n) = s
  BY <1>1, <1>2 DEF Sites
<1> QED
  BY <1>3, <1>4, <1>5, <1>6

\* strings.ToLower leaves the name of a site as it is.
LEMMA SitesAreLower ==
    ASSUME NEW s \in Sites
    PROVE  /\ ToLower(<<s>>) = <<s>>
           /\ \A d \in Subdomains : ToLower(<<d, s>>) = <<d, s>>
<1>1. /\ \E n \in DOMAIN Lower : Spelled(n) = s
      /\ Lower[CHOOSE n \in DOMAIN Lower : Spelled(n) = s] = s
  BY NamesListed
<1>2. \A d \in Subdomains : ~ \E n \in DOMAIN Lower : Spelled(n) = d
  BY NamesListed
<1> HIDE DEF Lower, Spelled
<1>3. ToLower(<<s>>) = <<s>>
  <2>1. DOMAIN <<s>> = {1} /\ <<s>>[1] = s
    OBVIOUS
  <2>2. ToLower(<<s>>) = [i \in {1} |-> s]
    BY <1>1, <2>1 DEF ToLower
  <2>3. <<s>> = [i \in {1} |-> s]
    OBVIOUS
  <2> QED
    BY <2>2, <2>3
<1>4. ASSUME NEW d \in Subdomains PROVE ToLower(<<d, s>>) = <<d, s>>
  <2>1. /\ DOMAIN <<d, s>> = {1, 2}
        /\ <<d, s>>[1] = d /\ <<d, s>>[2] = s
    OBVIOUS
  <2>2. ToLower(<<d, s>>) = [i \in {1, 2} |-> IF i = 1 THEN d ELSE s]
    BY <1>1, <1>2, <2>1 DEF ToLower
  <2>3. <<d, s>> = [i \in {1, 2} |-> IF i = 1 THEN d ELSE s]
    OBVIOUS
  <2> QED
    BY <2>2, <2>3
<1> QED
  BY <1>3, <1>4

\* A host that the bot takes for a site's is the site's for the scrapper as
\* well, or one that looks like it.
LEMMA HostsOfSites ==
    ASSUME NEW host \in Hosts, NEW s \in Sites, Holds(host, s),
           host \notin {<<"my", s>>, <<s, ".org">>}
    PROVE  IsHost(ToLower(Hostname(host)), s)
<1>0. /\ s \in {"github.com", "stackoverflow.com"}
      /\ s \notin {"www.", "gist.", "my", ".org", ":443"}
  BY DEF Sites
<1>1. CASE \E n \in Names : host = <<n>>
  <2>1. host = <<s>>
    BY <1>1 DEF Holds
  <2>2. Hostname(host) = <<s>>
    <3>1. DOMAIN host = {1} /\ host[1] = s
      BY <2>1
    <3>2. {i \in DOMAIN host : host[i] # ":443"} = {1}
      BY <1>0, <3>1
    <3>3. Hostname(host) = [i \in {1} |-> s]
      BY <3>1, <3>2 DEF Hostname
    <3>4. <<s>> = [i \in {1} |-> s]
      OBVIOUS
    <3> QED
      BY <3>3, <3>4
  <2> QED
    BY <2>2, SitesAreLower DEF IsHost
<1>2. CASE \E p \in Prefixes, n \in Names : host = <<p, n>>
  <2>1. PICK d \in Subdomains : host = <<d, s>>
    BY <1>0, <1>2 DEF Holds, Prefixes, Subdomains
  <2>2. Hostname(host) = <<d, s>>
    <3>1. DOMAIN host = {1, 2} /\ host[1] = d /\ host[2] = s
      BY <2>1
    <3>2. {i \in DOMAIN host : host[i] # ":443"} = {1, 2}
      BY <1>0, <3>1 DEF Subdomains
    <3>3. Hostname(host) = [i \in {1, 2} |-> IF i = 1 THEN d ELSE s]
      BY <3>1, <3>2 DEF Hostname
    <3>4. <<d, s>> = [i \in {1, 2} |-> IF i = 1 THEN d ELSE s]
      OBVIOUS
    <3> QED
      BY <3>3, <3>4
  <2>3. ToLower(<<d, s>>) = <<d, s>>
    BY SitesAreLower
  <2> QED
    BY <2>2, <2>3 DEF IsHost
<1>3. CASE \E n \in Names, t \in Tails : host = <<n, t>>
  <2>1. host = <<s, ":443">>
    BY <1>0, <1>3 DEF Holds, Tails
  <2>2. Hostname(host) = <<s>>
    <3>1. DOMAIN host = {1, 2} /\ host[1] = s /\ host[2] = ":443"
      BY <2>1
    <3>2. {i \in DOMAIN host : host[i] # ":443"} = {1}
      BY <1>0, <3>1
    <3>3. Hostname(host) = [i \in {1} |-> s]
      BY <3>1, <3>2 DEF Hostname
    <3>4. <<s>> = [i \in {1} |-> s]
      OBVIOUS
    <3> QED
      BY <3>3, <3>4
  <2> QED
    BY <2>2, SitesAreLower DEF IsHost
<1> QED
  BY <1>1, <1>2, <1>3 DEF Hosts

\* The two parsers part on hosts that look alike only.
LEMMA ParsersAgree ==
    ASSUME NEW u \in URLs, BotParseLink(u) # "unsupported",
           ScrapperParseLink(u) = "unsupported"
    PROVE  LooksAlike(u)
<1> SUFFICES ASSUME ~ LooksAlike(u) PROVE FALSE
  OBVIOUS
<1>0. u.host \in Hosts
  BY DEF URLs
<1>1. \A s \in Sites : u.host \notin {<<"my", s>>, <<s, ".org">>}
  BY DEF LooksAlike
<1>2. \A s \in Sites : Holds(u.host, s) => IsHost(ToLower(Hostname(u.host)), s)
  BY <1>0, <1>1, HostsOfSites
<1>3. "github.com" \in Sites /\ "stackoverflow.com" \in Sites
  BY DEF Sites
<1>4. /\ Supported(u)
      /\ \/ Holds(u.host, "github.com")
         \/ Holds(u.host, "stackoverflow.com") /\ Question(u)
  BY DEF BotParseLink, Parsed
<1> QED
  BY <1>2, <1>3, <1>4 DEF ScrapperParseLink, Parsed

\* A link that the bot's parser takes.
Acceptable(u) == BotParseLink(Shape[u]) # "unsupported"

\* What the bot has saved, asks for or has asked for, and what the scrapper
\* tracks, passed the bot's parser.
OnlyAcceptable ==
    /\ session.state = "waiting_for_tags" => Acceptable(session.url)
    /\ pc = "saving" => Acceptable(message.url)
    /\ call.request.op = "AddLink" => Acceptable(call.request.url)
    /\ \A a \in abandoned : a[1].op = "AddLink" => Acceptable(a[1].url)
    /\ \A u \in tracked : Acceptable(u)

\* A served request adds no link but its own.
LEMMA ServeAddsItsLink ==
    ASSUME NEW r \in Requests, Serve(r), \A u \in tracked : Acceptable(u),
           r.op = "AddLink" => Acceptable(r.url)
    PROVE  \A u \in tracked' : Acceptable(u)
<1>1. r.op \in {"RegisterChat", "ListLinks", "AddLink", "RemoveLink",
                "RemoveLinksByTag"}
  BY RequestFields
<1>2. \A u \in tracked' : u \in tracked \/ (r.op = "AddLink" /\ u = r.url)
  BY <1>1 DEF Serve
<1> QED
  BY <1>2

\* Every step preserves it: HandleURL asks the parser before the link is
\* saved, and the link is read from the session when its tags come.
LEMMA NextOnlyAcceptable ==
    ASSUME IndInv, OnlyAcceptable, [Next]_vars
    PROVE  OnlyAcceptable'
<1>0. /\ TypeOK /\ HandlingFits
      /\ call \in Calls /\ call.request \in Requests
      /\ \A a \in abandoned : a[1] \in Requests
  BY DEF IndInv, TypeOK, Calls
<1> USE DEF OnlyAcceptable
<1>1. CASE Reply \/ \E m \in Messages : Receive(m)
  BY <1>1 DEF Reply, Receive, registry
<1>2. CASE Dispatch
  <2>1. /\ UNCHANGED <<session, message, registry, abandoned>>
        /\ pc' # "saving"
        /\ \/ UNCHANGED call
           \/ call'.request = Request("RegisterChat", None, {})
    <3>1. UNCHANGED <<session, message, registry, abandoned>>
      BY <1>2 DEF Dispatch
    <3>2. CASE Command
      <4>1. CASE session.state # None /\ message.kind # "/cancel"
        BY <1>2, <3>1, <3>2, <4>1 DEF Dispatch, Answer
      <4>2. CASE ~ (session.state # None /\ message.kind # "/cancel")
        <5>1. CASE message.kind = "/cancel"
          BY <1>2, <3>1, <3>2, <4>2, <5>1 DEF Dispatch, Asks
        <5>2. CASE message.kind # "/cancel" /\ Asks(message)
          <6>1. Ask(Request("RegisterChat", None, {}))
            BY <1>2, <3>2, <4>2, <5>2 DEF Dispatch
          <6> QED
            BY <3>1, <6>1 DEF Ask
        <5>3. CASE message.kind # "/cancel" /\ ~ Asks(message)
          BY <1>2, <3>1, <3>2, <4>2, <5>3 DEF Dispatch, Answer
        <5> QED
          BY <5>1, <5>2, <5>3
      <4> QED
        BY <4>1, <4>2
    <3>3. CASE ~ Command
      <4>1. CASE session.state = "waiting_for_url"
        BY <1>2, <3>1, <3>3, <4>1 DEF Dispatch
      <4>2. CASE session.state = "waiting_for_tags"
        BY <1>2, <3>1, <3>3, <4>2 DEF Dispatch
      <4>3. CASE session.state \notin {"waiting_for_url", "waiting_for_tags"}
        BY <1>2, <3>1, <3>3, <4>3 DEF Dispatch, Answer
      <4> QED
        BY <4>1, <4>2, <4>3
    <3> QED
      BY <3>2, <3>3
  <2>2. call'.request.op = "AddLink" => UNCHANGED call
    BY <2>1 DEF Request
  <2> QED
    BY <2>1, <2>2 DEF registry
<1>3. CASE Opened
  BY <1>3 DEF Opened, Write, Written, Answer, NoSession, None, registry
<1>4. CASE HandleURL
  BY <1>4 DEF HandleURL, Answer, Acceptable, registry
<1>5. CASE SaveURL
  BY <1>5 DEF SaveURL, Write, Written, Answer, registry
<1>6. CASE HandleTags
  BY <1>6 DEF HandleTags, Ask, Request, registry
<1>7. CASE Close
  BY <1>7 DEF Close, Write, Written, Answer, NoSession, None, registry
<1>8. CASE DatabaseFails
  <2>1. /\ pc' = "replying" /\ UNCHANGED <<message, call, registry, abandoned>>
        /\ session' = session \/ session' = Written
    BY <1>8 DEF DatabaseFails, Answer, Write
  <2>2. session'.state = "waiting_for_tags" => Acceptable(session'.url)
    BY <2>1 DEF Written, NoSession, None
  <2> QED
    BY <2>1, <2>2 DEF registry
<1>9. CASE Served
  <2>1. /\ pc = "calling" /\ Serve(call.request) /\ GoOn(call.request)
        /\ UNCHANGED <<session, message, abandoned>>
    BY <1>9 DEF Served
  <2>2. \A u \in tracked' : Acceptable(u)
    BY <1>0, <2>1, ServeAddsItsLink
  <2>3. pc' # "saving"
    BY <1>0, <2>1, GoOnEffect
  <2>4. call'.request.op = "AddLink" => Acceptable(call'.request.url)
    <3>1. CASE UNCHANGED call
      BY <3>1
    <3>2. CASE /\ call'.request.op = "AddLink" =>
                    message.kind = "text" /\ call'.request.url = session.url
      BY <1>0, <2>1, <3>2 DEF HandlingFits
    <3> QED
      BY <1>0, <2>1, <3>1, <3>2, GoOnEffect
  <2> QED
    BY <2>1, <2>2, <2>3, <2>4
<1>10. CASE Declined \/ NotServed \/ NotAnswered
  <2>1. /\ pc = "calling" /\ UNCHANGED <<session, message, registry>>
        /\ abandoned' = abandoned \/ Abandon
    BY <1>10 DEF Declined, NotServed, NotAnswered
  <2>2. /\ pc' \in {"calling", "replying"}
        /\ call'.request = call.request
    <3>1. CASE CallFails
      BY <1>0, <2>1, <3>1, CallFailsEffect
    <3>2. CASE call' = [call EXCEPT !.attempt = @ + 1] /\ UNCHANGED <<pc, answer>>
      BY <1>0, <2>1, <3>2 DEF Calls
    <3> QED
      BY <1>10, <3>1, <3>2 DEF Declined, NotServed, NotAnswered
  <2>3. \A a \in abandoned' : a[1].op = "AddLink" => Acceptable(a[1].url)
    BY <2>1 DEF Abandon
  <2> QED
    BY <2>1, <2>2, <2>3 DEF registry
<1>11. CASE \E a \in abandoned : LateEffect(a)
  <2> PICK a \in abandoned : LateEffect(a)
    BY <1>11
  <2>1. /\ Serve(a[1]) /\ UNCHANGED <<session, pc, message, call>>
        /\ abandoned' \subseteq abandoned
    BY DEF LateEffect
  <2>2. \A u \in tracked' : Acceptable(u)
    BY <1>0, <2>1, ServeAddsItsLink
  <2> QED
    BY <2>1, <2>2
<1>12. CASE Crash
  <2>1. /\ pc' = "idle" /\ UNCHANGED <<session, message, call, registry>>
        /\ abandoned' = abandoned \/ Abandon
    BY <1>12 DEF Crash
  <2>2. \A a \in abandoned' : a[1].op = "AddLink" => Acceptable(a[1].url)
    BY <2>1 DEF Abandon
  <2> QED
    BY <2>1, <2>2 DEF registry
<1>13. CASE UNCHANGED vars
  BY <1>13 DEF vars, registry
<1> QED
  BY <1>1, <1>2, <1>3, <1>4, <1>5, <1>6, <1>7, <1>8, <1>9, <1>10, <1>11,
     <1>12, <1>13 DEF Next, BotStep

\* The links that the bot tracks and the scrapper can never check are those of
\* hosts that only look like a supported site's, whatever the user writes, and
\* whatever fails or takes effect late: a link reaches AddLink only through the
\* parser of HandleURL, and the parsers differ in nothing else.
THEOREM UncheckableLinksOnlyLookAlike == Spec => []UncheckableLinksLookAlike
<1>1. Init => OnlyAcceptable
  <2> SUFFICES ASSUME Init PROVE OnlyAcceptable
    OBVIOUS
  <2>1. session.state # "waiting_for_tags" /\ pc = "idle"
    BY DEF Init, NoSession, None
  <2>2. call.request.op # "AddLink"
    BY DEF Init, Request
  <2>3. abandoned = {} /\ tracked = {}
    BY DEF Init
  <2> QED
    BY <2>1, <2>2, <2>3 DEF OnlyAcceptable
<1>2. IndInv /\ OnlyAcceptable /\ [Next]_vars => OnlyAcceptable'
  BY NextOnlyAcceptable
<1>3. IndInv /\ OnlyAcceptable => UncheckableLinksLookAlike
  <2> SUFFICES ASSUME IndInv, OnlyAcceptable, NEW u \in tracked,
                      ScrapperParseLink(Shape[u]) = "unsupported"
               PROVE  LooksAlike(Shape[u])
    BY DEF UncheckableLinksLookAlike
  <2>1. Shape[u] \in URLs
    BY UrlsAssumption DEF IndInv, TypeOK
  <2> QED
    BY <2>1, ParsersAgree DEF OnlyAcceptable, Acceptable
<1> QED
  BY <1>1, <1>2, <1>3, DialogueInvariant, PTL DEF Spec
===========================================================================
