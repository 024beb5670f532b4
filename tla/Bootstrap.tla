----------------------------- MODULE Bootstrap -----------------------------
(***************************************************************************)
(* Registry of internal/rdapx/bootstrap.go: the map from TLD to RDAP base  *)
(* URLs that lookups read while refreshBootstrap of cmd/whois-mcp replaces *)
(* it from the file IANA publishes.                                        *)
(*                                                                         *)
(* A document is a record: its ETag (NoEtag for none), whether it parses,  *)
(* and its services, each a set of TLDs with the URLs that serve them.     *)
(* Publication and load times are only reported and are left out.          *)
(***************************************************************************)
EXTENDS BootstrapFile

CONSTANTS
    TLDs,
    Documents,      \* what IANA may publish
    Embedded,       \* the snapshot compiled into the binary
    NoEtag

VARIABLES
    registry,       \* byTLD, etag and fromNetwork
    refresh         \* the one Refresh under way, with the ETag it sent

bootstrapVars == <<registry, refresh>>

(* The last service that lists the TLD with an https URL wins.             *)
byTLD(doc) ==
    [t \in TLDs |->
        LET usable == SelectSeq(doc.services,
                                LAMBDA s : t \in s.tlds /\ preferHTTPS(s.urls) # <<>>)
        IN IF usable = <<>> THEN <<>> ELSE preferHTTPS(usable[Len(usable)].urls)]

(* load accepts a document that parses and yields at least one TLD.        *)
Usable(doc) == doc.parses /\ \E t \in TLDs : byTLD(doc)[t] # <<>>

(* Every URL of every document.                                            *)
URLs ==
    LET Elements(s) == {s[i] : i \in DOMAIN s}
        services == UNION {Elements(d.services) : d \in Documents \cup {Embedded}}
    IN UNION {Elements(s.urls) : s \in services}

(* NewRegistry refuses to start without its snapshot; an ETag names one    *)
(* document; and byTLD yields lists of URLs.                               *)
ASSUME BootstrapConstants ==
    /\ Usable(Embedded)
    /\ \A d, e \in Documents : d.etag = e.etag /\ d.etag # NoEtag => d = e
    /\ \A d \in Documents \cup {Embedded} : Usable(d) => byTLD(d) \in [TLDs -> Seq(URLs)]

BootstrapInit ==
    /\ registry = [map |-> byTLD(Embedded), etag |-> NoEtag, fromNetwork |-> FALSE]
    /\ refresh = [stage |-> "idle", etag |-> NoEtag]

(* Registry.Lookup: no bases means no RDAP service.                        *)
LookupBases(tld) == registry.map[tld]

---------------------------------------------------------------------------

RefreshStage(from, to) ==
    /\ refresh.stage = from
    /\ refresh' = [stage |-> to, etag |-> IF to = "asked" THEN registry.etag ELSE NoEtag]

(* The request leaves with If-None-Match when an ETag is held.             *)
AskIANA == RefreshStage("idle", "asked") /\ UNCHANGED registry

Matches(doc) == refresh.etag # NoEtag /\ doc.etag = refresh.etag

(* IANA still serves the document the ETag names: 304.                     *)
NotModified(doc) ==
    /\ RefreshStage("asked", "idle") /\ Matches(doc)
    /\ UNCHANGED registry

(* Mutant: the ETag is remembered before the document has been accepted.   *)
LoadRejectedKeepsTag(doc) ==
    /\ RefreshStage("asked", "idle") /\ ~Matches(doc)
    /\ ~Usable(doc)
    /\ registry' = [registry EXCEPT !.etag = doc.etag]

(* load returns an error: nothing has been touched.                        *)
LoadRejected(doc) ==
    /\ RefreshStage("asked", "idle") /\ ~Matches(doc)
    /\ ~Usable(doc)
    /\ UNCHANGED registry

(* load replaces map and ETag under one lock ...                           *)
Load(doc) ==
    /\ RefreshStage("asked", "loaded") /\ ~Matches(doc)
    /\ Usable(doc)
    /\ registry' = [map |-> byTLD(doc), etag |-> doc.etag, fromNetwork |-> registry.fromNetwork]

(* ... and Refresh sets fromNetwork under another.                         *)
MarkNetwork ==
    /\ RefreshStage("loaded", "idle")
    /\ registry' = [map |-> registry.map, etag |-> registry.etag, fromNetwork |-> TRUE]

(* No answer, an unexpected status or a body cut short.                    *)
RefreshFailed == RefreshStage("asked", "idle") /\ UNCHANGED registry

Refresh ==
    \/ AskIANA \/ MarkNetwork \/ RefreshFailed
    \/ \E d \in Documents : NotModified(d) \/ LoadRejected(d) \/ Load(d)

---------------------------------------------------------------------------

(* Whatever IANA serves and however a refresh fails, the map is that of    *)
(* one accepted document, the one its ETag names: a later 304 never keeps  *)
(* a map in use that the document it confirms does not describe.           *)
MapOfItsDocument ==
    \E d \in Documents \cup {Embedded} :
        /\ Usable(d) /\ registry.map = byTLD(d)
        /\ registry.etag # NoEtag => d.etag = registry.etag
        /\ registry.fromNetwork \/ refresh.stage = "loaded" \/ d = Embedded
=============================================================================
