---------------------------- MODULE DomainQuery ----------------------------
(***************************************************************************)
(* The fetch inside lookupOnce of internal/resolve/resolver.go: RDAP first *)
(* and WHOIS where RDAP has no service or no definite answer, over a       *)
(* bootstrap map that is refreshed meanwhile and a discovery cache the     *)
(* lookups share.  Resolver models what surrounds it.                      *)
(*                                                                         *)
(* The servers asked are honest about one domain: an RDAP service answers  *)
(* what is so, and a WHOIS server shows bare record fields only for a      *)
(* registered domain and a bare denial of the shared list only for a free  *)
(* one.  Footers, refusals and error pages may hold any phrase, and any    *)
(* text may hold a phrase by which some template decides, as the words of  *)
(* the templates are generic ("not found", "available", "free").           *)
(***************************************************************************)
EXTENDS RdapQuery, WhoisQuery

VARIABLES
    truth,          \* whether the domain is registered
    report          \* report[c]: what lookupOnce returns to c

queryVars == <<bootstrapVars, rdapVars, whoisVars, truth, report>>

NoReport == [stage |-> "idle", registered |-> "unknown", protocol |-> "none"]

QueryInit ==
    /\ BootstrapInit /\ RdapInit /\ WhoisInit
    /\ truth \in {"yes", "no"}
    /\ report = [c \in Callers |-> NoReport]

Honest(text) ==
    IF truth = "yes" THEN text.negative => text.record \/ text.limited
                     ELSE text.record => text.negative \/ text.limited

---------------------------------------------------------------------------

OfRdap(step) == step /\ UNCHANGED <<bootstrapVars, whoisVars, truth, report>>

OfWhois(step) == step /\ UNCHANGED <<bootstrapVars, rdapVars, truth, report>>

Begin(c) ==
    /\ report[c].stage = "idle"
    /\ QueryRdap(c)
    /\ report' = [report EXCEPT ![c].stage = "asking"]
    /\ UNCHANGED <<bootstrapVars, whoisVars, truth>>

(* A base URL or the registrar is asked.                                   *)
AskRdap(c) ==
    \/ truth = "yes" /\ \E n \in 0 .. MaxEntities, given \in SUBSET Members :
                            BaseHasDomain(c, n, given)
    \/ truth = "no" /\ BaseHasNothing(c)
    \/ BaseRejected(c) \/ BaseUseless(c) \/ BaseNoMatch(c)
    \/ BaseFailed(c) \/ BaseCancelled(c) \/ BasesExhausted(c)
    \/ RegistrarUseless(c)
    \/ \E n \in 0 .. MaxEntities, given \in SUBSET Members : RegistrarHasDomain(c, n, given)

AskWhois(c) ==
    \/ DiscoverCached(c) \/ DiscoverMiss(c) \/ IanaFailed(c)
    \/ \E n \in Names \cup {NoName} : IanaAnswered(c, n)
    \/ ReferralLoop(c) \/ HopFailed(c) \/ HopEmpty(c)
    \/ \E a \in Answer : HopAnswered(c, a) /\ Honest(a.text)

(* "Only Unknown falls through": no service, or no definite answer.        *)
Undecided(c) ==
    \/ rdap[c].stage = "noservice"
    \/ rdap[c].stage = "answered" /\ rdap[c].registered = "unknown"

FallBack(c) ==
    /\ report[c].stage = "asking" /\ Undecided(c)
    /\ OfWhois(QueryWhois(c))

Returns(c, rep) ==
    /\ report[c].stage = "asking"
    /\ report' = [report EXCEPT ![c] = rep]
    /\ UNCHANGED <<bootstrapVars, rdapVars, whoisVars, truth>>

ReportRdap(c) ==
    /\ rdap[c].stage = "answered" /\ ~Undecided(c)
    /\ Returns(c, [stage |-> "done", registered |-> rdap[c].registered, protocol |-> "rdap"])

(* RDAP's unknown report stands unless WHOIS did better; a TLD without     *)
(* RDAP gets the WHOIS report whatever it says.                            *)
ReportWhois(c) ==
    /\ whois[c].stage \in {"answered", "error"}
    /\ Returns(c, [stage |-> "done", registered |-> Verdict(c),
                   protocol |-> IF rdap[c].stage = "noservice" \/ Verdict(c) # "unknown"
                                THEN "whois" ELSE "rdap"])

(* lookupOnce returns the context's error and stores nothing.              *)
ReportCancelled(c) ==
    /\ rdap[c].stage = "cancelled"
    /\ Returns(c, [NoReport EXCEPT !.stage = "failed"])

(* The caller has its answer; its next lookup starts afresh.               *)
Leave(c) ==
    /\ report[c].stage \in {"done", "failed"}
    /\ report' = [report EXCEPT ![c] = NoReport]
    /\ rdap' = [rdap EXCEPT ![c] = NoRdap]
    /\ alive' = [alive EXCEPT ![c] = TRUE]
    /\ whois' = [whois EXCEPT ![c] = NoWhois]
    /\ UNCHANGED <<bootstrapVars, hostCache, ianaSaid, truth>>

Proceed(c) ==
    \/ OfRdap(AskRdap(c)) \/ OfWhois(AskWhois(c)) \/ FallBack(c)
    \/ ReportRdap(c) \/ ReportWhois(c) \/ ReportCancelled(c)

QueryNext ==
    \/ \E c \in Callers :
          \/ Begin(c) \/ Proceed(c) \/ Leave(c)
          \/ OfRdap(CancelCaller(c))
    \/ HostExpires /\ UNCHANGED <<bootstrapVars, rdapVars, truth, report>>
    \/ Refresh /\ UNCHANGED <<rdapVars, whoisVars, truth, report>>

(* Every exchange has a deadline of its own, so a query keeps moving.      *)
QueryFairness == \A c \in Callers : WF_queryVars(Proceed(c))

QuerySpec == QueryInit /\ [][QueryNext]_queryVars /\ QueryFairness

---------------------------------------------------------------------------

(* The text kept holds a phrase by which the template of the server that   *)
(* replied last decides for the opposite of what is so.                    *)
Misread(c) ==
    /\ At(c, "answered") /\ whois[c].by # NoName
    /\ hostOnly[whois[c].last] \in
           Templated \cap (IF truth = "yes" THEN whois[c].raw.denies ELSE whois[c].raw.confirms)

(* notfound.go:19: telling someone a registered domain is free "is the     *)
(* worst thing this server can tell anyone".  Whichever servers fail,      *)
(* refuse, refer or fall silent on the way, the report says the opposite   *)
(* of what is so in one case only: a template's own phrase occurs in a     *)
(* text that means something else (Classify reads it before the record),   *)
(* be it that server's text or, when it fell silent, an earlier one's.     *)
ReportTrue ==
    \A c \in Callers :
        \/ report[c].registered \in {truth, "unknown"}
        \/ report[c].protocol = "whois" /\ Misread(c)

(* "only a response with a genuine not-found phrase and no record fields   *)
(* is Unregistered" (notfound.go:97-98): a domain is reported free by      *)
(* WHOIS only from a text without record fields.                           *)
FreeOnlyWithoutRecord ==
    \A c \in Callers : report[c].protocol = "whois" /\ report[c].registered = "no"
                           => ~whois[c].raw.record

(* Every lookup ends in a report or in its caller's cancellation.          *)
EveryQueryEnds ==
    \A c \in Callers : report[c].stage = "asking" ~> report[c].stage # "asking"

(* What lookups steer by was learned from IANA as a whole: the RDAP map is *)
(* that of the one accepted document its ETag names, and the WHOIS host    *)
(* that is cached for a day is one IANA answered, whatever failed, was     *)
(* refused or was seeded meanwhile.                                        *)
LearnedFromIana == MapOfItsDocument /\ CacheIsIanas

(* A later server that fails, loops or has nothing to add costs the caller *)
(* nothing of what an earlier one said; one that has more replaces only    *)
(* the entities of an RDAP record, but the whole text of a WHOIS answer.   *)
NothingLost == RegistryDataKept /\ AnswerNeverErased
=============================================================================
