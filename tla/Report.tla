------------------------------- MODULE Report -------------------------------
(***************************************************************************)
(* The report of internal/normalize: FromWHOIS builds it from a parsed     *)
(* response, FromRDAP from a domain object.  Either way a reader must not  *)
(* be told a placeholder for a fact.                                       *)
(*                                                                         *)
(* An RDAP entity is a record: its roles, name, org, email and phone (the  *)
(* empty value where the vCard has none), and whether a remark says the    *)
(* data is withheld.  An event is an action and how its date is written.   *)
(***************************************************************************)
EXTENDS WhoisParse

CONSTANTS
    RdapMarkers,    \* words that contain a redactionMarkers entry of fromrdap.go
    Responses,      \* WHOIS responses: sequences of lines
    Objects         \* RDAP domain objects: [entities, events]

ASSUME ReportConstants ==
    /\ "" \notin RdapMarkers
    /\ \A r \in Responses : r \in Seq(ToSet(r))

VARIABLES
    object,         \* the RDAP object, or NoObject for a WHOIS response
    report

reportVars == <<parseVars, object, report>>

NoObject == [entities |-> <<>>, events |-> <<>>]

NoReport ==
    [protocol |-> "none", confidence |-> 0, registrar |-> NoValue, contacts |-> {},
     dates |-> {}, timezoneAssumed |-> FALSE, nameservers |-> {}, warned |-> FALSE]

ReportInit ==
    /\ \/ ParseInit(Responses) /\ object = NoObject
       \/ ParseInit({<<>>}) /\ templated = FALSE /\ object \in Objects
    /\ report = NoReport

---------------------------------------------------------------------------

DateFields == {"created", "expires", "updated"}

(* The registrar is reported as it stands; no date is reported for a value *)
(* ParseDate cannot read.                                                  *)
whoisReport(confidence) ==
    [protocol |-> "whois", confidence |-> confidence,
     registrar |-> first("registrar"), contacts |-> contacts,
     dates |-> {<<f, date(f)>> : f \in {g \in DateFields : date(g) # "none"}},
     timezoneAssumed |-> \E f \in DateFields : date(f) = "bare",
     nameservers |-> normalizeNameservers, warned |-> confidence < 50]

FromWHOIS ==
    /\ ~Reading /\ report = NoReport /\ object = NoObject
    /\ \E confidence \in score(Found, templated, Cardinality(parse.unknown)) :
          report' = whoisReport(confidence)
    /\ UNCHANGED <<parseVars, object>>

(* primaryRole: the first of this order that the entity claims.            *)
rolePriority ==
    <<"registrant", "administrative", "technical", "abuse", "registrar", "reseller", "billing">>

primaryRole(roles) ==
    IF roles = <<>> THEN ""
    ELSE LET claimed == {i \in DOMAIN rolePriority : rolePriority[i] \in ToSet(roles)}
         IN IF claimed = {} THEN roles[1] ELSE rolePriority[Min(claimed)]

(* RDAP has its own list of markers.                                       *)
Withheld(v) == v.word \in RdapMarkers

detectRedaction(e) == e.remark \/ Withheld(e.name) \/ Withheld(e.org) \/ Withheld(e.email)

(* A withheld entity keeps its shape and loses its details.                *)
entity(e) ==
    IF detectRedaction(e)
    THEN [redacted |-> TRUE, name |-> NoValue, org |-> NoValue, email |-> NoValue, phone |-> NoValue]
    ELSE [redacted |-> FALSE, name |-> e.name, org |-> e.org, email |-> e.email, phone |-> e.phone]

firstNonEmpty(v, w) == IF v # NoValue THEN v ELSE w

(* The registrar's name falls back on the vCard once entity emptied it.    *)
registrarName(e) == firstNonEmpty(firstNonEmpty(entity(e).org, entity(e).name), e.name)

EventDates == {"registration", "expiration", "last changed"}

(* datesFromEvents: a date in no known layout is dropped with a warning;   *)
(* the last event of an action counts.                                     *)
parsed(ev) == ev.date \in {"zoned", "bare"}

lastEvent(action) ==
    LET at == {i \in DOMAIN object.events :
                  object.events[i].action = action /\ parsed(object.events[i])}
    IN IF at = {} THEN "none" ELSE object.events[Max(at)].date

assumedTZ == \E i \in DOMAIN object.events : object.events[i].date = "bare"

(* entityFromRDAP: an entity without a role is left out.                   *)
known == SelectSeq(object.entities, LAMBDA e : primaryRole(e.roles) # "")

registrars == SelectSeq(known, LAMBDA e : primaryRole(e.roles) = "registrar")

rdapReport ==
    [protocol |-> "rdap", confidence |-> 100,
     registrar |-> IF registrars = <<>> THEN NoValue ELSE registrarName(registrars[1]),
     contacts |-> {entity(known[i]) : i \in DOMAIN known},
     dates |-> {<<a, lastEvent(a)>> : a \in {b \in EventDates : lastEvent(b) # "none"}},
     timezoneAssumed |-> assumedTZ,
     nameservers |-> {},
     warned |-> \E i \in DOMAIN object.events : object.events[i].date = "garbled"]

FromRDAP ==
    /\ report = NoReport /\ object # NoObject
    /\ report' = rdapReport
    /\ UNCHANGED <<parseVars, object>>

(* The report is complete.                                                 *)
Handed == report # NoReport /\ UNCHANGED reportVars

ReportNext ==
    \/ ParseNext /\ UNCHANGED <<object, report>>
    \/ FromWHOIS \/ FromRDAP \/ Handed

ReportSpec == ReportInit /\ [][ReportNext]_reportVars

---------------------------------------------------------------------------

(* What a contact names; phone and country are looked at in neither        *)
(* protocol, though parse.go:219 says any field.                           *)
Named(c) == {c.name, c.org, c.email}

(* "REDACTED FOR PRIVACY is not a name, and an agent must not repeat it    *)
(* back as one" (fromrdap.go:161, parse.go:219): no contact names a marker *)
(* of the list its own protocol is read with, the two lists being          *)
(* different.  A WHOIS report whose registrant held one says something was *)
(* redacted, and a redacted RDAP contact keeps no detail, its phone        *)
(* included.                                                               *)
MarkersNeverReported ==
    /\ report.protocol = "whois" =>
           /\ \A c \in report.contacts : \A v \in Named(c) : ~Marked(v)
           /\ (\E f \in {"registrant_name", "registrant_org", "registrant_email"} : Marked(first(f)))
                  => \E c \in report.contacts : c.redacted
    /\ report.protocol = "rdap" =>
           \A c \in report.contacts :
               /\ \A v \in Named(c) : ~Withheld(v)
               /\ c.redacted => Named(c) \cup {c.phone} = {NoValue}

(* "without a template we cannot claim certainty even when every core      *)
(* field appeared" and "The share of core fields recovered is the honest   *)
(* signal" (parse.go:271, 251): with the penalty, its cap, the floor, the  *)
(* ceiling and rounding, only a templated parse of every core field with   *)
(* no unknown label claims certainty, a heuristic one never more than a    *)
(* templated one of the same fields, and fewer core fields never score     *)
(* higher.  Zero is told from "a little" (parse.go:254), but by the core   *)
(* fields alone: a response that yielded only others scores zero.          *)
ConfidenceHonest ==
    report.protocol = "whois" =>
        LET unknown == Cardinality(parse.unknown)
        IN /\ report.confidence = 100 =>
                  templated /\ unknown = 0 /\ \A f \in coreFields : parse.fields[f] # <<>>
           /\ \A h \in score(Found, TRUE, unknown) : ~templated => report.confidence <= h
           /\ \A n \in 0 .. Found - 1 : \A h \in score(n, templated, unknown) : h <= report.confidence
           /\ report.confidence = 0 => \A f \in coreFields : parse.fields[f] = <<>>
=============================================================================
