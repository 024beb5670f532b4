------------------------------ MODULE MCReport ------------------------------
(* Report over every response of at most MaxLines of the lines below, over  *)
(* longer ones with any number of core fields and up to MaxUnknown unknown  *)
(* labels, and over RDAP objects with up to two entities and two events.    *)
EXTENDS Report

CONSTANTS MaxLines, MaxUnknown

MCTemplateLabels == [l \in {"nsl-id", "holder"} |-> IF l = "holder" THEN "registrant_org" ELSE Dropped]

MCSynonyms ==
    [l \in {"domain", "registrar", "status", "name server", "created", "expires",
             "registrant", "phone"} |->
        CASE l = "name server" -> "nameserver" [] l = "registrant" -> "registrant_name"
          [] l = "phone" -> "registrant_phone" [] OTHER -> l]

MCUnqualified == [l \in {"registry created"} |-> "created"]

MCDateOf ==
    [w \in {"", "acme", "redacted", "data protected", "withheld", "2001", "2001Z", "ns1", "ns1 glue"} |->
        CASE w = "2001" -> "bare" [] w = "2001Z" -> "zoned" [] OTHER -> "none"]

MCHostOf ==
    [w \in DOMAIN MCDateOf |-> IF w \in {"ns1", "ns1 glue"} THEN "ns1" ELSE NoHost]

Val(w) == [word |-> w, caps |-> FALSE]
Caps(w) == [word |-> w, caps |-> TRUE]

Plain(indented, kind, value) ==
    [indented |-> indented, colon |-> FALSE, kind |-> kind, label |-> "", value |-> value]
Labelled(label, value) ==
    [indented |-> FALSE, colon |-> TRUE, kind |-> "field", label |-> label, value |-> value]

MCLines ==
    {Plain(FALSE, "blank", NoValue), Plain(TRUE, "hash", Val("acme")), Plain(TRUE, "rule", Val("acme")),
     Plain(TRUE, "text", Val("ns1 glue")),
     Plain(TRUE, "text", Val("redacted")), Plain(TRUE, "text", Val("withheld")),
     Labelled("domain", Val("acme")), Labelled("domain", Caps("acme")), Labelled("name server", NoValue),
     Labelled("name server", Caps("ns1")),
     Labelled("registrant", NoValue), Labelled("holder", Val("data protected")),
     Labelled("phone", Val("redacted")),
     Labelled("registry created", Val("2001")), Labelled("nsl-id", Val("acme")),
     [indented |-> TRUE, colon |-> FALSE, kind |-> "field", label |-> "name server", value |-> Val("ns1")]}

UpTo(n, S) == UNION {[1 .. k -> S] : k \in 0 .. n}

CoreLines ==
    <<Labelled("domain", Val("acme")), Labelled("registrar", Val("acme")), Labelled("status", Val("acme")),
      Labelled("name server", Val("ns1")), Labelled("created", Val("2001")), Labelled("expires", Val("2001Z"))>>

Scored(found, unknown) ==
    SubSeq(CoreLines, 1, found) \o <<Labelled("terms of use", Val("acme"))>>
        \o [i \in 1 .. unknown |-> Labelled("nsl-id", Val("acme"))]

MCResponses ==
    UpTo(MaxLines, MCLines)
    \cup {Scored(found, unknown) : found \in 0 .. Len(CoreLines), unknown \in 0 .. MaxUnknown}

Entity(roles, name, org, email, remark) ==
    [roles |-> roles, name |-> name, org |-> org, email |-> email, phone |-> Val("acme"),
     remark |-> remark]

MCEntities ==
    {Entity(roles, name, org, email, remark) :
        roles \in {<<>>, <<"registrar">>, <<"registrar", "technical">>, <<"sponsor">>},
        name \in {NoValue, Val("acme"), Val("withheld"), Val("data protected")}, org \in {NoValue, Val("acme"), Val("redacted")},
        email \in {Val("acme"), Val("redacted")}, remark \in BOOLEAN}

MCEvents ==
    {[action |-> a, date |-> d] :
        a \in {"registration", "expiration", "reregistration"}, d \in {"zoned", "bare", "garbled", "empty"}}

MCObjects ==
    ({[entities |-> es, events |-> <<>>] : es \in UpTo(2, MCEntities)}
     \cup {[entities |-> <<>>, events |-> evs] : evs \in UpTo(2, MCEvents)}) \ {NoObject}
=============================================================================
