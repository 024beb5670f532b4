----------------------------- MODULE WhoisQuery -----------------------------
(***************************************************************************)
(* Query of internal/whois/client.go for one TLD: the server is discovered *)
(* from IANA (discover.go) or the embedded seed, and referrals are         *)
(* followed to the most specific answer (transport.go makes each exchange).*)
(*                                                                         *)
(* A name is how a response or IANA spells a server: bare, or with its     *)
(* port, which sanitizeHost lets through; hostOnly strips the port.        *)
(***************************************************************************)
EXTENDS Naturals, FiniteSets, Upstream, WhoisClassify

CONSTANTS
    Names,              \* spellings of servers
    hostOnly,           \* hostOnly[n] \in Hosts: the server n spells
    NoName,             \* the empty string
    Bodies,             \* what a server may answer
    MaxReferralHops,
    HostFor,            \* the TLD's Quirk.Host; NoName in every row of the table
    ReferralsAllowed,   \* FALSE for a TLD whose quirk is NoReferral
    SeedHost            \* the embedded host of the TLD, or NoName

ASSUME WhoisConstants ==
    /\ Hosts \subseteq Names /\ NoName \notin Names
    /\ hostOnly \in [Names -> Hosts] /\ \A h \in Hosts : hostOnly[h] = h
    /\ MaxReferralHops \in Nat \ {0}
    /\ {HostFor, SeedHost} \subseteq Names \cup {NoName}
    /\ ReferralsAllowed \in BOOLEAN
    /\ Bodies \subseteq Body

VARIABLES
    hostCache,          \* the entry under whois:host:<tld>
    ianaSaid,           \* history: IANA's last answer while one may be cached
    whois               \* whois[c]: the call of Query c is in

whoisVars == <<hostCache, ianaSaid, whois>>

NotCached == "not cached"

(* An exchange that completed: the phrases of its body and the most        *)
(* specific referral in it.  An empty reply holds neither.                 *)
Answer == [text : Bodies, refer : Names \cup {NoName}]

NoText ==
    [limited |-> FALSE, record |-> FALSE, negative |-> FALSE, denies |-> {}, confirms |-> {}]

(* host is the server to ask, seen those asked, last the one that replied  *)
(* last; raw is the text kept, by the server that sent it, if any did.     *)
NoWhois ==
    [stage |-> "idle", host |-> NoName, seen |-> {}, last |-> NoName,
     by |-> NoName, raw |-> NoText]

WhoisInit ==
    /\ hostCache = NotCached
    /\ ianaSaid = NotCached
    /\ whois = [c \in Callers |-> NoWhois]

At(c, stage) == whois[c].stage = stage

Ask(c, name) ==
    whois' = [whois EXCEPT ![c] =
        [stage |-> "ask", host |-> name, seen |-> @.seen, last |-> @.last,
         by |-> @.by, raw |-> @.raw]]

End(c, stage) == whois' = [whois EXCEPT ![c].stage = stage]

(* Query: a quirk may name the server, else it is discovered.              *)
QueryWhois(c) ==
    /\ At(c, "idle")
    /\ IF HostFor = NoName THEN End(c, "discover") ELSE Ask(c, HostFor)
    /\ UNCHANGED <<hostCache, ianaSaid>>

---------------------------------------------------------------------------
(* Discoverer.Host.                                                        *)

(* A negative answer is cached too, as the empty host.                     *)
DiscoverCached(c) ==
    /\ At(c, "discover") /\ hostCache # NotCached
    /\ IF hostCache = NoName THEN End(c, "error") ELSE Ask(c, hostCache)
    /\ UNCHANGED <<hostCache, ianaSaid>>

DiscoverMiss(c) ==
    /\ At(c, "discover") /\ hostCache = NotCached
    /\ End(c, "iana")
    /\ UNCHANGED <<hostCache, ianaSaid>>

(* No exchange, an empty reply, or IANA does not know the TLD: the seed    *)
(* answers this call and nothing is remembered.                            *)
IanaFailed(c) ==
    /\ At(c, "iana")
    /\ IF SeedHost = NoName THEN End(c, "error") ELSE Ask(c, SeedHost)
    /\ UNCHANGED <<hostCache, ianaSaid>>

IanaAnswered(c, name) ==
    /\ At(c, "iana")
    /\ hostCache' = name
    /\ ianaSaid' = name
    /\ IF name = NoName THEN End(c, "error") ELSE Ask(c, name)

HostExpires ==
    /\ hostCache # NotCached
    /\ hostCache' = NotCached
    /\ ianaSaid' = NotCached
    /\ UNCHANGED whois

---------------------------------------------------------------------------
(* The referral loop.                                                      *)

ReferralLoop(c) ==
    /\ At(c, "ask") /\ whois[c].host \in whois[c].seen
    /\ End(c, "answered")
    /\ UNCHANGED <<hostCache, ianaSaid>>

Unseen(c) == At(c, "ask") /\ whois[c].host \notin whois[c].seen

hop(c) == Cardinality(whois[c].seen)

(* A refused or failed exchange ends the query on the first hop; later the *)
(* answer already held is reported.                                        *)
HopFailed(c) ==
    /\ Unseen(c)
    /\ End(c, IF hop(c) = 0 THEN "error" ELSE "answered")
    /\ UNCHANGED <<hostCache, ianaSaid>>

LastHop(c) == hop(c) + 1 >= MaxReferralHops

(* Break, or go round the loop with the next server.                       *)
Onward(c, by, raw, next) ==
    /\ LET ends == next = NoName \/ LastHop(c) IN
       whois' = [whois EXCEPT ![c] =
           [stage |-> IF ends THEN "answered" ELSE "ask",
            host |-> IF ends THEN @.host ELSE next,
            seen |-> @.seen \cup {@.host}, last |-> @.host, by |-> by, raw |-> raw]]
    /\ UNCHANGED <<hostCache, ianaSaid>>

(* Mutant: a hop that says nothing replaces the answer like any other.     *)
HopEmptyErases(c) ==
    /\ Unseen(c)
    /\ Onward(c, NoName, NoText, NoName)

(* A reply of no bytes leaves the answer of an earlier hop in place.       *)
HopEmpty(c) == Unseen(c) /\ Onward(c, whois[c].by, whois[c].raw, NoName)

(* A server naming itself is not a referral.                               *)
referralHost(c, a) ==
    IF ReferralsAllowed /\ a.refer # hostOnly[whois[c].host] THEN a.refer ELSE NoName

(* A reply, whole or cut short, replaces what was kept, whatever it says.  *)
HopAnswered(c, a) ==
    /\ Unseen(c)
    /\ Onward(c, whois[c].host, a.text, referralHost(c, a))

(* viaWHOIS classifies what was kept by the template of the last server.   *)
Verdict(c) ==
    IF At(c, "answered") /\ whois[c].by # NoName
    THEN Classify(hostOnly[whois[c].last], whois[c].raw)
    ELSE "unknown"

---------------------------------------------------------------------------

(* "the first is cacheable and the second is not" (discover.go:130): the   *)
(* cache only ever holds what IANA itself answered; neither a failure to   *)
(* ask nor the seed used instead is remembered as an answer for a day.     *)
CacheIsIanas == hostCache \in {NotCached, ianaSaid}

(* "must not erase the registry's useful response" (client.go:132): a text *)
(* that is kept stays as it is through loops, failures and replies of no   *)
(* bytes, and gives way only to the text of a server asked for the first   *)
(* time.  That one may say less: any non-empty reply replaces the answer.  *)
AnswerNeverErased ==
    [][\A c \in Callers : whois[c].by # NoName /\ whois'[c].stage # "idle" =>
          \/ whois'[c].by = whois[c].by /\ whois'[c].raw = whois[c].raw
          \/ whois'[c].by = whois[c].host /\ whois[c].host \notin whois[c].seen]_whoisVars
=============================================================================
