---------------------------- MODULE LinkParsers ----------------------------
(***************************************************************************)
(* Which links the bot takes for tracking (parsers/parser.go of the bot)   *)
(* and which the scrapper can check (parsers/link_parser.go): two parsers  *)
(* of one name that look at the host in different ways.                    *)
(*                                                                         *)
(* A URL is what url.Parse returns, with the host cut into the pieces that *)
(* the parsers tell apart, such as <<"www.", "github.com">> or             *)
(* <<"github.com", ":443">>, and the path cut at its slashes.              *)
(***************************************************************************)
EXTENDS Naturals, Sequences

Sites == {"github.com", "stackoverflow.com"}

\* The names, and what strings.ToLower makes of them.
Lower == [github |-> "github.com", GitHub |-> "github.com",
          overflow |-> "stackoverflow.com", Overflow |-> "stackoverflow.com",
          other |-> "example.com"]
Spelled(name) == CASE name = "GitHub" -> "GitHub.com"
                   [] name = "Overflow" -> "StackOverflow.com"
                   [] OTHER -> Lower[name]

Names == {Spelled(name) : name \in DOMAIN Lower}
Subdomains == {"www.", "gist."}
Prefixes == Subdomains \cup {"my"}  \* with and without a dot before the name
Tails == {".org", ":443"}

Hosts == {<<n>> : n \in Names}
            \cup {<<p, n>> : p \in Prefixes, n \in Names}
            \cup {<<n, t>> : n \in Names, t \in Tails}

Paths == {<<"owner">>, <<"owner", "repo">>, <<"questions", "42">>,
          <<"questions", "tagged">>}

URLs == [scheme : {"https", "ftp"}, host : Hosts, path : Paths]

---------------------------------------------------------------------------
(* What both parsers ask for once they have recognised the host. *)

Supported(u) == u.scheme \in {"http", "https"} /\ Len(u.path) >= 2

\* The path of a question, whose number strconv.ParseInt has to read.
Question(u) == u.path[1] = "questions" /\ u.path[2] = "42"

Parsed(u, onGitHub, onStackOverflow) ==
    IF Supported(u) /\ onGitHub THEN "github"
    ELSE IF Supported(u) /\ onStackOverflow /\ Question(u) THEN "stackoverflow"
    ELSE "unsupported"

\* The bot: strings.Contains(u.Host, site), port and capitals included.
Holds(host, site) == \E i \in DOMAIN host : host[i] = site

\* Mutant: a question is taken whatever its number is.
BotParseLinkAnyQuestion(u) ==
    IF Supported(u) /\ Holds(u.host, "stackoverflow.com") /\ u.path[1] = "questions"
    THEN "stackoverflow"
    ELSE Parsed(u, Holds(u.host, "github.com"), FALSE)

BotParseLink(u) ==
    Parsed(u, Holds(u.host, "github.com"), Holds(u.host, "stackoverflow.com"))

\* The scrapper: the host name, without the port that comes last and in lower
\* case, is the site or any subdomain of it.
Hostname(host) == [i \in {j \in DOMAIN host : host[j] # ":443"} |-> host[i]]

ToLower(host) ==
    [i \in DOMAIN host |->
        IF \E n \in DOMAIN Lower : Spelled(n) = host[i]
        THEN Lower[CHOOSE n \in DOMAIN Lower : Spelled(n) = host[i]]
        ELSE host[i]]

IsHost(actual, expected) ==
    \/ actual = <<expected>>
    \/ \E d \in Subdomains : actual = <<d, expected>>

ScrapperParseLink(u) ==
    LET host == ToLower(Hostname(u.host))
    IN Parsed(u, IsHost(host, "github.com"), IsHost(host, "stackoverflow.com"))

---------------------------------------------------------------------------
\* A host that contains the name of a site and is somebody else's.
LooksAlike(u) == \E s \in Sites : u.host \in {<<"my", s>>, <<s, ".org">>}
===========================================================================
