--------------------------- MODULE TrackDialogue ---------------------------
(***************************************************************************)
(* What one chat says to the bot and what the bot does with it: the loop   *)
(* of Bot.Run, the dispatcher, the commands, the dialogue of /track whose  *)
(* state is a row of track_sessions, and the calls to the scrapper, over   *)
(* HTTP first and over gRPC after any error.                               *)
(*                                                                         *)
(* A call can fail although the scrapper has served it or will: the        *)
(* client's deadline passes, the connection breaks, the bot dies.  Such a  *)
(* request is abandoned; it takes effect later, or never.                  *)
(*                                                                         *)
(* The loop handles one message at a time.  Messages of other chats only   *)
(* delay this one; their sessions and subscriptions are rows of their own. *)
(***************************************************************************)
EXTENDS Naturals, FiniteSets, LinkParsers

CONSTANTS
    Urls,         \* the URLs the user writes, by name
    Shape,        \* ... and what url.Parse makes of them
    Tags,         \* the tags the user writes
    MaxAttempts,  \* SCRAPPER_HTTP_RETRY_MAX_ATTEMPTS
    Wirings,      \* whether main could make a gRPC client: subset of BOOLEAN
    MaxMessages,  \* bound on the messages of the user
    MaxFaults     \* bound on failures, lost answers and crashes

ASSUME UrlsAssumption == Shape \in [Urls -> URLs] /\ "none" \notin Urls
ASSUME WiringsAssumption == Wirings \subseteq BOOLEAN
ASSUME DialogueBounds == /\ MaxAttempts \in Nat \ {0}
                         /\ MaxMessages \in Nat
                         /\ MaxFaults \in Nat

None == "none"
UrlAsTag == "a URL"             \* what a URL is when it is read as tags
TagNames == Tags \cup {UrlAsTag}

\* The messages: commands with their argument, and plain texts.
Message(kind, url, tags) == [kind |-> kind, url |-> url, tags |-> tags]
Commands ==
    {Message(k, None, {}) :
        k \in {"/start", "/help", "/track", "/cancel", "/list", "/untrack",
               "/untrack tag", "/other"}}
    \cup {Message("/untrack", u, {}) : u \in Urls}
    \cup {Message("/untrack tag", None, {t}) : t \in Tags}
    \cup {Message("/list", None, {t}) : t \in Tags}
Texts == {Message("text", u, {UrlAsTag}) : u \in Urls}
            \cup {Message("text", None, ts) : ts \in SUBSET Tags}
Messages == Commands \cup Texts

\* The requests to the scrapper.
Request(op, url, tags) == [op |-> op, url |-> url, tags |-> tags]
Requests ==
    {Request("RegisterChat", None, {}), Request("ListLinks", None, {})}
    \cup {Request("AddLink", u, ts) : u \in Urls, ts \in SUBSET TagNames}
    \cup {Request("RemoveLink", u, {}) : u \in Urls}
    \cup {Request("RemoveLinksByTag", None, {t}) : t \in Tags}

VARIABLES
    grpc,       \* is there a client over gRPC behind the one over HTTP
    session,    \* the row of track_sessions: its state and its url
    pc,         \* where the handling of the message in hand is
    message,    \* the message in hand
    call,       \* the request, the transport and the number of the attempt
    answer,     \* the answer to the message in hand
    registered, \* does the scrapper know the chat
    tracked,    \* the links it tracks for the chat
    tags,       \* ... with their tags
    abandoned,  \* requests that nobody waits for any more
    again,      \* a message that Telegram delivers again
    messages,   \* messages the user still writes
    faults,     \* what can still go wrong
    claim,      \* what the last answer about a link said of it
    surprised,  \* links changed by an abandoned request since then
    before,     \* the tracked links when the message in hand came
    missed,     \* was a request of the message in hand abandoned
    added,      \* was the link of the session added
    troubles    \* what went wrong in this session

registry == <<registered, tracked, tags>>
story == <<claim, surprised, before, missed, added, troubles>>
input == <<messages, again>>
vars == <<grpc, session, pc, message, call, answer, registry, abandoned, input,
          faults, story>>

Sessions == [state : {None, "waiting_for_url"}, url : {None}]
               \cup [state : {"waiting_for_tags"}, url : Urls]

\* Mutant: a session that is not cleared counts as a link not added.
FailureAnswerOfAddLink ==
    [received |-> "no state", cancelling |-> "not cancelled",
     opening |-> "not saved", parsing |-> "", saving |-> "not saved",
     tagging |-> "no state", closing |-> "not added"]

\* The steps that use the bot's database, and what they answer if it fails.
FailureAnswer ==
    [received |-> "no state", cancelling |-> "not cancelled",
     opening |-> "not saved", parsing |-> "", saving |-> "not saved",
     tagging |-> "no state", closing |-> "not cleared"]

CallFailure ==
    [RegisterChat |-> "not registered", AddLink |-> "not added",
     RemoveLink |-> "not removed", RemoveLinksByTag |-> "tag not removed",
     ListLinks |-> "not listed"]

Places == {"idle", "calling", "replying"} \cup DOMAIN FailureAnswer
Calls == [request : Requests, via : {"http", "grpc"}, attempt : 1..MaxAttempts]

TypeOK ==
    /\ grpc \in Wirings
    /\ session \in Sessions
    /\ pc \in Places
    /\ message \in Messages \cup {Message(None, None, {})}
    /\ call \in Calls
    /\ registered \in BOOLEAN
    /\ tracked \subseteq Urls
    /\ tags \in [Urls -> SUBSET TagNames]
    /\ abandoned \subseteq Requests \X Nat
    /\ again \in Messages \cup {Message(None, None, {})}
    /\ messages \in Nat /\ faults \in Nat
    /\ claim \in [Urls -> {None, "tracked", "not tracked"}]
    /\ surprised \subseteq Urls /\ before \subseteq Urls
    /\ missed \in BOOLEAN /\ added \in BOOLEAN
    /\ troubles \subseteq {"database", "scrapper", "crash"}

NoSession == [state |-> None, url |-> None]
NoMessage == Message(None, None, {})

Init ==
    /\ grpc \in Wirings
    /\ session = NoSession
    /\ pc = "idle"
    /\ message = NoMessage
    /\ call = [request |-> Request("RegisterChat", None, {}), via |-> "http",
               attempt |-> 1]
    /\ answer = ""
    /\ registered = FALSE
    /\ tracked = {}
    /\ tags = [u \in Urls |-> {}]
    /\ abandoned = {}
    /\ again = NoMessage
    /\ messages = MaxMessages
    /\ faults = MaxFaults
    /\ claim = [u \in Urls |-> None]
    /\ surprised = {} /\ before = {}
    /\ missed = FALSE /\ added = FALSE /\ troubles = {}

Fault == faults > 0 /\ faults' = faults - 1

---------------------------------------------------------------------------
(* The loop of Bot.Run. *)

\* The user's next message, or the one that Telegram repeats.
Receive(m) ==
    /\ pc = "idle"
    /\ IF again = NoMessage
       THEN messages > 0 /\ messages' = messages - 1 /\ UNCHANGED again
       ELSE m = again /\ again' = NoMessage /\ UNCHANGED messages
    /\ message' = m
    /\ pc' = "received"
    /\ before' = tracked
    /\ missed' = FALSE
    /\ UNCHANGED <<grpc, session, call, answer, registry, abandoned, faults,
                   claim, surprised, added, troubles>>

Answer(a) == pc' = "replying" /\ answer' = a

\* SendMessage, whose failure is only logged.
Reply ==
    /\ pc = "replying"
    /\ pc' = "idle"
    /\ UNCHANGED <<grpc, session, message, call, answer, registry, abandoned,
                   input, faults, story>>

Ask(request) ==
    /\ call' = [request |-> request, via |-> "http", attempt |-> 1]
    /\ pc' = "calling"
    /\ UNCHANGED answer

---------------------------------------------------------------------------
(* Dispatcher.Dispatch, once it has read the session. *)

Command == message.kind # "text"

\* The commands that talk to the scrapper.
Asks(m) == \/ m.kind \in {"/start", "/track", "/list", "/untrack tag"}
           \/ m.kind = "/untrack" /\ m.url # None

\* Every command waits for the end of the dialogue but /cancel.
Dispatch ==
    /\ pc = "received"
    /\ IF Command
       THEN IF session.state # None /\ message.kind # "/cancel"
            THEN Answer("finish first") /\ UNCHANGED call
            ELSE CASE message.kind = "/cancel" ->
                        pc' = "cancelling" /\ UNCHANGED <<call, answer>>
                   [] Asks(message) -> Ask(Request("RegisterChat", None, {}))
                   [] OTHER -> Answer("help") /\ UNCHANGED call
       ELSE CASE session.state = "waiting_for_url" ->
                   pc' = "parsing" /\ UNCHANGED <<call, answer>>
              [] session.state = "waiting_for_tags" ->
                   pc' = "tagging" /\ UNCHANGED <<call, answer>>
              [] OTHER -> Answer("unknown") /\ UNCHANGED call
    /\ UNCHANGED <<grpc, session, message, registry, abandoned, input, faults,
                   story>>

\* Mutant: HandleTags leaves the session as it is.
WrittenButNotOnClose ==
    CASE pc = "opening" -> [state |-> "waiting_for_url", url |-> None]
      [] pc = "saving" -> [state |-> "waiting_for_tags", url |-> message.url]
      [] pc = "cancelling" -> NoSession
      [] OTHER -> session

\* What a step writes to track_sessions.
Written == CASE pc = "opening" -> [state |-> "waiting_for_url", url |-> None]
             [] pc = "saving" -> [state |-> "waiting_for_tags", url |-> message.url]
             [] pc \in {"cancelling", "closing"} -> NoSession
             [] OTHER -> session

\* A session that asks for tags starts its story.
Write ==
    /\ session' = Written
    /\ IF pc = "saving"
       THEN added' = FALSE /\ troubles' = {}
       ELSE UNCHANGED <<added, troubles>>

\* TrackService.Start and the dispatcher's /cancel.
Opened ==
    /\ pc \in {"opening", "cancelling"}
    /\ Write
    /\ Answer(IF pc = "opening" THEN "send a link" ELSE "cancelled")
    /\ UNCHANGED <<grpc, message, call, registry, abandoned, input, faults,
                   claim, surprised, before, missed>>

\* TrackService.HandleURL: its own read of the session, and the parser.
HandleURL ==
    /\ pc = "parsing"
    /\ IF message.url # None /\ BotParseLink(Shape[message.url]) # "unsupported"
       THEN pc' = "saving" /\ UNCHANGED answer
       ELSE Answer("bad link")
    /\ UNCHANGED <<grpc, session, message, call, registry, abandoned, input,
                   faults, story>>

SaveURL ==
    /\ pc = "saving"
    /\ Write
    /\ Answer("send tags")
    /\ UNCHANGED <<grpc, message, call, registry, abandoned, input, faults,
                   claim, surprised, before, missed>>

\* TrackService.HandleTags: whatever the text is, it names tags.
HandleTags ==
    /\ pc = "tagging"
    /\ Ask(Request("RegisterChat", None, {}))
    /\ UNCHANGED <<grpc, session, message, registry, abandoned, input, faults,
                   story>>

\* The link is added and the session is over.
Close ==
    /\ pc = "closing"
    /\ Write
    /\ Answer("added")
    /\ claim' = [claim EXCEPT ![session.url] = "tracked"]
    /\ UNCHANGED <<grpc, message, call, registry, abandoned, input, faults,
                   surprised, before, missed>>

\* The database fails, before the statement or between it and its answer.
DatabaseFails ==
    /\ Fault
    /\ pc \in DOMAIN FailureAnswer
    /\ Answer(FailureAnswer[pc])
    /\ claim' = IF pc = "closing"
                THEN [claim EXCEPT ![session.url] = "tracked"]
                ELSE claim
    /\ \/ UNCHANGED <<session, added>> /\ troubles' = troubles \cup {"database"}
       \/ Write
    /\ UNCHANGED <<grpc, message, call, registry, abandoned, input, surprised,
                   before, missed>>

---------------------------------------------------------------------------
(* The scrapper, see Registry for its side. *)

CanServe(r) ==
    /\ r.op # "RegisterChat" => registered
    /\ r.op = "RemoveLink" => r.url \in tracked

WithTags(ts) == {u \in tracked : ts \subseteq tags[u]}

\* AddLink of a tracked link adds the tags.
Serve(r) ==
    /\ registered' = (registered \/ r.op = "RegisterChat")
    /\ tracked' = CASE r.op = "AddLink" -> tracked \cup {r.url}
                    [] r.op = "RemoveLink" -> tracked \ {r.url}
                    [] r.op = "RemoveLinksByTag" -> tracked \ WithTags(r.tags)
                    [] OTHER -> tracked
    /\ tags' = [u \in Urls |->
                  IF u \notin tracked' THEN {}
                  ELSE IF r.op = "AddLink" /\ u = r.url THEN tags[u] \cup r.tags
                  ELSE tags[u]]

\* The links whose answer is on its way.
Concerned(r) == CASE r.op \in {"AddLink", "RemoveLink"} -> {r.url}
                  [] r.op = "RemoveLinksByTag" -> WithTags(r.tags)
                  [] OTHER -> {}

\* The chat is registered: what the message is about comes next.
Registered ==
    CASE message.kind = "/start" -> Answer("welcome") /\ UNCHANGED call
      [] message.kind = "/track" -> pc' = "opening" /\ UNCHANGED <<call, answer>>
      [] message.kind = "/list" -> Ask(Request("ListLinks", None, {}))
      [] message.kind = "/untrack" -> Ask(Request("RemoveLink", message.url, {}))
      [] message.kind = "/untrack tag" ->
           IF message.tags = {}
           THEN Answer("help") /\ UNCHANGED call
           ELSE Ask(Request("RemoveLinksByTag", None, message.tags))
      [] message.kind = "text" -> Ask(Request("AddLink", session.url, message.tags))

\* The command goes on with the answer of the scrapper.
GoOn(r) ==
    CASE r.op = "RegisterChat" -> Registered
      [] r.op = "AddLink" -> pc' = "closing" /\ UNCHANGED <<call, answer>>
      [] r.op = "RemoveLink" -> Answer("removed") /\ UNCHANGED call
      [] r.op = "RemoveLinksByTag" ->
           /\ Answer(IF WithTags(r.tags) = {} THEN "tag not found" ELSE "tag removed")
           /\ UNCHANGED call
      [] r.op = "ListLinks" ->
           /\ Answer(CASE tracked = {} -> "empty"
                       [] tracked # {} /\ WithTags(message.tags) = {} -> "tag not found"
                       [] OTHER -> "list")
           /\ UNCHANGED call

\* The request takes effect and the answer arrives.
Served ==
    /\ pc = "calling"
    /\ LET r == call.request
       IN /\ CanServe(r)
          /\ Serve(r)
          /\ GoOn(r)
          /\ claim' = [u \in Urls |->
                         IF u \notin Concerned(r) THEN claim[u]
                         ELSE IF r.op = "AddLink" THEN None
                         ELSE "not tracked"]
          /\ surprised' = surprised \ Concerned(r)
          /\ added' = (added \/ r.op = "AddLink")
    /\ UNCHANGED <<grpc, session, message, abandoned, input, faults, before,
                   missed, troubles>>

\* Mutant: the error of the last transport is forgotten.
CallFailsUnnoticed ==
    IF call.via = "http" /\ grpc
    THEN call' = [call EXCEPT !.via = "grpc"] /\ UNCHANGED <<pc, answer>>
    ELSE GoOn(call.request)

\* Mutant: the transports take turns for ever.
CallFailsAndTurns ==
    IF grpc
    THEN /\ call' = [call EXCEPT !.via = IF @ = "http" THEN "grpc" ELSE "http"]
         /\ UNCHANGED <<pc, answer>>
    ELSE Answer(CallFailure[call.request.op]) /\ UNCHANGED call

\* FallbackScrapperClient: any error of HTTP leads to gRPC, if there is one.
CallFails ==
    IF call.via = "http" /\ grpc
    THEN call' = [call EXCEPT !.via = "grpc"] /\ UNCHANGED <<pc, answer>>
    ELSE Answer(CallFailure[call.request.op]) /\ UNCHANGED call

\* The scrapper says no: the link is not tracked.  No status in the list.
Declined ==
    /\ pc = "calling"
    /\ ~CanServe(call.request)
    /\ CallFails
    /\ UNCHANGED <<grpc, session, message, registry, abandoned, input, faults,
                   story>>

\* The scrapper cannot be reached, fails, or the circuit breaker is open; the
\* retrier repeats a request over HTTP if the status is in its list.
NotServed ==
    /\ Fault
    /\ pc = "calling"
    /\ \/ /\ call.via = "http" /\ call.attempt < MaxAttempts
          /\ call' = [call EXCEPT !.attempt = @ + 1]
          /\ UNCHANGED <<pc, answer>>
       \/ CallFails
    /\ troubles' = troubles \cup {"scrapper"}
    /\ UNCHANGED <<grpc, session, message, registry, abandoned, input, claim,
                   surprised, before, missed, added>>

\* Nobody waits for the request any more.  Its number tells it from others.
Abandon == abandoned' = abandoned \cup {<<call.request, faults>>}

\* The deadline of the request passes, or its connection breaks.
NotAnswered ==
    /\ Fault
    /\ pc = "calling"
    /\ Abandon
    /\ CallFails
    /\ missed' = TRUE
    /\ troubles' = troubles \cup {"scrapper"}
    /\ UNCHANGED <<grpc, session, message, registry, input, claim, surprised,
                   before, added>>

\* An abandoned request takes effect.
LateEffect(a) ==
    /\ a \in abandoned
    /\ CanServe(a[1])
    /\ Serve(a[1])
    /\ abandoned' = abandoned \ {a}
    /\ surprised' = surprised \cup ((tracked \cup tracked') \ (tracked \cap tracked'))
    /\ UNCHANGED <<grpc, session, pc, message, call, answer, input, faults,
                   claim, before, missed, added, troubles>>

\* The bot dies and is started again.  Telegram delivers the message once more
\* unless it has been told that the bot has it.
Crash ==
    /\ Fault
    /\ pc # "idle"
    /\ pc' = "idle"
    /\ again' \in {NoMessage, message}
    /\ IF pc = "calling" THEN Abandon ELSE UNCHANGED abandoned
    /\ troubles' = troubles \cup {"crash"}
    /\ UNCHANGED <<grpc, session, message, call, answer, registry, messages,
                   claim, surprised, before, missed, added>>

---------------------------------------------------------------------------
BotStep == \/ Reply \/ Dispatch \/ Opened \/ HandleURL \/ SaveURL \/ HandleTags
           \/ Close \/ DatabaseFails
           \/ Served \/ Declined \/ NotServed \/ NotAnswered

Next == \/ BotStep
        \/ \E m \in Messages : Receive(m)
        \/ \E a \in abandoned : LateEffect(a)
        \/ Crash

Spec == Init /\ [][Next]_vars

\* The loop runs on: a statement of the database returns, a request over HTTP
\* ends at its deadline at the latest, and over gRPC, where there is none, the
\* scrapper answers because its own statements return.  A message that Telegram
\* repeats arrives.
Fairness == WF_vars(BotStep) /\ WF_vars(again # NoMessage /\ Receive(again))

FairSpec == Spec /\ Fairness

---------------------------------------------------------------------------
(* What the user may rely on. *)

\* What the last answer said of a link is so: "added" links are tracked,
\* "removed" ones are not, unless an abandoned request changed it afterwards.
ClaimsHold ==
    \A u \in Urls \ surprised :
        /\ claim[u] = "tracked" => u \in tracked
        /\ claim[u] = "not tracked" => u \notin tracked

\* A command that reports failure has changed nothing about its link, unless
\* one of its requests was left without an answer.
FailureHasACause ==
    pc = "replying" /\ ~missed /\ surprised = {} =>
        /\ answer = "not added" => session.url \notin tracked \ before
        /\ answer = "not removed" => message.url \notin before \ tracked

\* The bot goes on to take texts for tags of a link that it has added only if
\* something went wrong in this dialogue: otherwise the session is closed.
OpenSessionsHaveACause ==
    pc = "idle" /\ session.state = "waiting_for_tags" /\ added => troubles # {}

\* The links that the bot tracks and the scrapper can never check are those
\* of hosts that only look like a supported site's.
UncheckableLinksLookAlike ==
    \A u \in tracked : ScrapperParseLink(Shape[u]) = "unsupported" => LooksAlike(Shape[u])

\* Every message is dealt with, and a repeated one is received.
MessagesAreAnswered == []<>(pc = "idle" /\ again = NoMessage)

---------------------------------------------------------------------------
(* The inductive invariant behind them. *)

Asking(op) == pc = "calling" /\ call.request.op = op

\* What the handling has found out on its way to where it is.
HandlingFits ==
    /\ pc # "idle" => message \in Messages
    /\ pc \in {"parsing", "saving", "tagging"} => message.kind = "text"
    /\ pc = "saving" => message.url # None
    /\ pc \in {"tagging", "closing"} => session.state = "waiting_for_tags"
    /\ pc = "calling" => IF message.kind = "text"
                         THEN session.state = "waiting_for_tags"
                         ELSE Asks(message)
    /\ Asking("AddLink") => message.kind = "text" /\ call.request.url = session.url
    /\ pc = "closing" => session.url \in tracked \cup surprised

\* A command changes nothing before the answer to its last request.
ChangesComeLast ==
    ~missed /\ pc \notin {"idle", "closing", "replying"} =>
        (tracked \ before) \cup (before \ tracked) \subseteq surprised

\* A link is added by the last call of its session.
SessionEndsWithLink ==
    added /\ session.state = "waiting_for_tags" => troubles # {} \/ pc = "closing"

\* Type correctness, the safety properties and the facts they rest on, see
\* TrackDialogueProofs.
IndInv == /\ TypeOK
          /\ HandlingFits
          /\ ChangesComeLast
          /\ SessionEndsWithLink
          /\ ClaimsHold
          /\ FailureHasACause
===========================================================================
