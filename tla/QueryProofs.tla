------------------------------ MODULE QueryProofs ------------------------------
(***************************************************************************)
(* DomainQuery for any number of callers, any documents, servers, spellings *)
(* and answers: what the maps a lookup steers by were learned from, that   *)
(* every base is tried, what a later server may change of what an earlier  *)
(* one said, and when alone the report says the opposite of what is so.    *)
(***************************************************************************)
EXTENDS DomainQuery, TLAPS

RdapStages == {"idle", "noservice", "try", "registrar", "answered", "cancelled"}

RdapCall ==
    [stage : RdapStages, published : Nat, left : Seq(URLs), tried : Nat,
     lastErr : {"none", "other", "noservice"}, registered : Tristate, domain : Domain]

WhoisStages == {"idle", "discover", "iana", "ask", "answered", "error"}

WhoisCall ==
    [stage : WhoisStages, host : Names \cup {NoName}, seen : SUBSET (Names \cup {NoName}),
     last : Names \cup {NoName}, by : Names \cup {NoName}, raw : Body]

Reports ==
    [stage : {"idle", "asking", "done", "failed"}, registered : Tristate,
     protocol : {"none", "rdap", "whois"}]

QueryTypeOK ==
    /\ rdap \in [Callers -> RdapCall]
    /\ alive \in [Callers -> BOOLEAN]
    /\ whois \in [Callers -> WhoisCall]
    /\ hostCache \in Names \cup {NoName, NotCached}
    /\ truth \in {"yes", "no"}
    /\ report \in [Callers -> Reports]

-----------------------------------------------------------------------------
(* What is learned from IANA.                                              *)

LEMMA BootstrapStep ==
    ASSUME MapOfItsDocument, Refresh \/ UNCHANGED bootstrapVars
    PROVE  MapOfItsDocument'
  <1>1. PICK d \in Documents \cup {Embedded} :
            /\ Usable(d) /\ registry.map = byTLD(d)
            /\ registry.etag # NoEtag => d.etag = registry.etag
            /\ registry.fromNetwork \/ refresh.stage = "loaded" \/ d = Embedded
    BY DEF MapOfItsDocument
  <1> HIDE DEF Usable, byTLD
  <1>2. ASSUME UNCHANGED registry, refresh.stage # "loaded" \/ UNCHANGED refresh
        PROVE  MapOfItsDocument'
    BY <1>1, <1>2 DEF MapOfItsDocument
  <1>3. ASSUME NEW e \in Documents, Load(e)
        PROVE  MapOfItsDocument'
    <2>1. registry'.map = byTLD(e) /\ registry'.etag = e.etag /\ Usable(e)
      BY <1>3 DEF Load
    <2>2. refresh'.stage = "loaded"
      BY <1>3 DEF Load, RefreshStage
    <2> QED  BY <2>1, <2>2 DEF MapOfItsDocument
  <1>4. CASE MarkNetwork
    <2>1. /\ registry'.map = registry.map /\ registry'.etag = registry.etag
          /\ registry'.fromNetwork
      BY <1>4 DEF MarkNetwork
    <2> QED  BY <1>1, <2>1 DEF MapOfItsDocument
  <1>5. CASE UNCHANGED bootstrapVars
    BY <1>2, <1>5 DEF bootstrapVars
  <1>6. CASE AskIANA \/ RefreshFailed
    BY <1>2, <1>6 DEF AskIANA, RefreshFailed, RefreshStage
  <1>7. ASSUME NEW e \in Documents, NotModified(e) \/ LoadRejected(e)
        PROVE  MapOfItsDocument'
    BY <1>2, <1>7 DEF NotModified, LoadRejected, RefreshStage
  <1> QED  BY <1>3, <1>4, <1>5, <1>6, <1>7 DEF Refresh

-----------------------------------------------------------------------------
(* The RDAP side: the list of bases, and the shapes of a call.             *)

\* The call of c becomes r and everybody else's stays.
RdapMoves(c, r) == rdap' = [rdap EXCEPT ![c] = r]

LEMMA RdapFields ==
    ASSUME NEW r \in RdapCall
    PROVE  /\ r.stage \in RdapStages /\ r.published \in Nat /\ r.left \in Seq(URLs) /\ r.tried \in Nat
           /\ r.lastErr \in {"none", "other", "noservice"} /\ r.registered \in Tristate /\ r.domain \in Domain
  BY DEF RdapCall

LEMMA NoRdapTyped == NoRdap \in RdapCall /\ NoDomain \in Domain
  <1>1. NoDomain \in Domain
    BY RdapConstants DEF NoDomain, Domain, Supplier
  <1>2. <<>> \in Seq(URLs)
    OBVIOUS
  <1> QED  BY <1>1, <1>2 DEF NoRdap, Tristate, Call, RdapCall, RdapStages

(* What is so of one call: a call that is still trying has no verdict and  *)
(* has either tried a base or still has it; and a verdict is true.         *)
CallOK(r) ==
    /\ r.stage = "try" => r.registered = "unknown" /\ r.tried + Len(r.left) = r.published
    /\ r.stage = "registrar" => r.registered = "yes"
    /\ r.stage = "answered" /\ r.registered = "unknown" => r.tried = r.published
    /\ r.stage = "idle" => r = NoRdap
    /\ r.registered \in {truth, "unknown"}

(* e has d's members, and d's entities or a longer list of the registrar's. *)
Extends(d, e) ==
    /\ \/ e.listed = d.listed /\ e.entities = d.entities
       \/ e.listed = "registrar" /\ e.entities > d.entities
    /\ \A m \in Members : d.members[m] # "nobody" => e.members[m] = d.members[m]

(* One step of one call.                                                   *)
CallStep(r, s) ==
    /\ s \in RdapCall /\ CallOK(s)
    /\ r.registered = "yes" /\ s.registered = "yes" => Extends(r.domain, s.domain)

LEMMA MergeTyped ==
    ASSUME NEW d \in Domain, NEW n \in 0 .. MaxEntities, NEW given \in SUBSET Members
    PROVE  Merge(d, n, given) \in Domain /\ Extends(d, Merge(d, n, given))
  <1>1. MaxEntities \in Nat
    BY RdapConstants
  <1>2. d.entities \in 0 .. MaxEntities /\ d.members \in [Members -> Supplier] /\ d.listed \in Supplier
    BY DEF Domain
  <1> DEFINE e == IF n > d.entities THEN n ELSE d.entities
             l == IF n > d.entities THEN "registrar" ELSE d.listed
             ms == [m \in Members |-> IF d.members[m] = "nobody" /\ m \in given THEN "registrar"
                                      ELSE d.members[m]]
  <1>3. /\ e \in 0 .. MaxEntities /\ l \in Supplier
        /\ (l = d.listed /\ e = d.entities) \/ (l = "registrar" /\ e > d.entities)
    BY <1>1, <1>2 DEF Supplier
  <1>4. ms \in [Members -> Supplier]
    BY <1>2 DEF Supplier
  <1>5. \A m \in Members : d.members[m] # "nobody" => ms[m] = d.members[m]
    OBVIOUS
  <1>6. Merge(d, n, given) = [entities |-> e, listed |-> l, members |-> ms]
    BY DEF Merge
  <1> HIDE DEF e, l, ms
  <1> QED  BY <1>3, <1>4, <1>5, <1>6 DEF Domain, Extends

LEMMA StartsCall ==
    ASSUME NEW c \in Callers, MapOfItsDocument, QueryTypeOK, QueryRdap(c)
    PROVE  /\ UNCHANGED alive
           /\ \E s : RdapMoves(c, s) /\ CallStep(rdap[c], s)
  <1> DEFINE bases == LookupBases(Asked)
  <1>1. bases \in Seq(URLs)
    BY BootstrapConstants, RdapConstants DEF MapOfItsDocument, LookupBases
  <1> HIDE DEF bases
  <1>2. /\ Len(bases) \in Nat /\ <<>> \in Seq(URLs) /\ 0 + Len(bases) = Len(bases)
        /\ "unknown" \in Tristate
    BY <1>1 DEF Tristate
  <1> DEFINE none == Call("noservice", 0, <<>>, 0, "none", "unknown", NoDomain)
             some == Call("try", Len(bases), bases, 0, "none", "unknown", NoDomain)
  <1>3. none \in RdapCall /\ some \in RdapCall
    BY <1>1, <1>2, NoRdapTyped DEF Call, RdapCall, RdapStages
  <1>4. none.stage = "noservice" /\ none.registered = "unknown"
    BY DEF Call
  <1>5. /\ some.stage = "try" /\ some.registered = "unknown"
        /\ some.tried = 0 /\ some.left = bases /\ some.published = Len(bases)
    BY DEF Call
  <1>6. RdapMoves(c, none) \/ RdapMoves(c, some)
    BY DEF QueryRdap, RdapMoves, bases
  <1> HIDE DEF none, some
  <1>7. CallOK(none) /\ CallOK(some)
    BY <1>2, <1>4, <1>5 DEF CallOK
  <1>8. CallStep(rdap[c], none) /\ CallStep(rdap[c], some)
    BY <1>3, <1>4, <1>5, <1>7 DEF CallStep
  <1> QED  BY <1>6, <1>8 DEF QueryRdap

(* One step of the loop over the bases, or of the registrar hop.           *)
LEMMA AskRdapStep ==
    ASSUME NEW c \in Callers, QueryTypeOK, CallOK(rdap[c]), AskRdap(c)
    PROVE  \E s : RdapMoves(c, s) /\ CallStep(rdap[c], s)
  <1> DEFINE r == rdap[c]
  <1>0. /\ r \in RdapCall /\ truth \in {"yes", "no"} /\ rdap \in [Callers -> RdapCall]
        /\ CallOK(r)
    BY DEF QueryTypeOK
  <1>1. /\ r.stage \in RdapStages /\ r.published \in Nat /\ r.left \in Seq(URLs)
        /\ r.tried \in Nat /\ r.lastErr \in {"none", "other", "noservice"}
        /\ r.registered \in Tristate /\ r.domain \in Domain
    BY <1>0, RdapFields
  <1>2. <<>> \in Seq(URLs) /\ r.tried + 1 \in Nat /\ MaxEntities \in Nat
    BY <1>1, RdapConstants
  <1> HIDE DEF r
  \* What each kind of step leaves of the call.
  <1>3. ASSUME NEW stage \in {"answered", "cancelled"}, NEW verdict \in {truth, "unknown"},
               Return(c, stage, verdict), r.stage = "try",
               stage = "answered" => verdict # "unknown"
        PROVE  \E s : RdapMoves(c, s) /\ CallStep(r, s)
    <2> DEFINE s == Call(stage, r.published, <<>>, r.tried + 1, r.lastErr, verdict, r.domain)
    <2>1. RdapMoves(c, s)
      BY <1>3 DEF Return, RdapMoves, r
    <2>2. s \in RdapCall /\ s.stage = stage /\ s.registered = verdict
      BY <1>0, <1>1, <1>2 DEF Call, RdapCall, RdapStages, Tristate
    <2> HIDE DEF s
    <2>3. CallOK(s)
      BY <1>3, <2>2 DEF CallOK
    <2>4. r.registered = "unknown"
      BY <1>0, <1>3 DEF CallOK
    <2> QED  BY <2>1, <2>2, <2>3, <2>4 DEF CallStep
  <1>4. ASSUME NEW err \in {"other", "noservice"}, Continue(c, err), r.stage = "try", r.left # <<>>
        PROVE  \E s : RdapMoves(c, s) /\ CallStep(r, s)
    <2> DEFINE s == Call(r.stage, r.published, Tail(r.left), r.tried + 1, err, r.registered, r.domain)
    <2>1. RdapMoves(c, s)
      BY <1>4 DEF Continue, RdapMoves, r
    <2>2. /\ Tail(r.left) \in Seq(URLs)
          /\ Len(Tail(r.left)) = Len(r.left) - 1 /\ Len(r.left) \in Nat
      BY <1>1, <1>4
    <2>3. /\ s \in RdapCall /\ s.stage = "try" /\ s.registered = r.registered
          /\ s.left = Tail(r.left) /\ s.tried = r.tried + 1 /\ s.published = r.published
      BY <1>0, <1>1, <1>2, <1>4, <2>2 DEF Call, RdapCall, RdapStages
    <2> HIDE DEF s
    <2>4. r.registered = "unknown" /\ r.tried + Len(r.left) = r.published
      BY <1>0, <1>4 DEF CallOK
    <2>5. s.tried + Len(s.left) = s.published
      BY <1>1, <2>2, <2>3, <2>4
    <2>6. CallOK(s)
      BY <2>3, <2>4, <2>5 DEF CallOK
    <2> QED  BY <2>1, <2>3, <2>4, <2>6 DEF CallStep
  <1>5. ASSUME truth = "yes", NEW n \in 0 .. MaxEntities, NEW given \in SUBSET Members,
               BaseHasDomain(c, n, given)
        PROVE  \E s : RdapMoves(c, s) /\ CallStep(r, s)
    <2> DEFINE d == [entities |-> n, listed |-> "registry",
                     members |-> [m \in Members |-> IF m \in given THEN "registry" ELSE "nobody"]]
               s == Call("registrar", r.published, <<>>, r.tried + 1, r.lastErr, "yes", d)
    <2>1. RdapMoves(c, s) /\ r.stage = "try"
      BY <1>5 DEF BaseHasDomain, RdapMoves, Trying, r
    <2>2. d \in Domain
      BY DEF Domain, Supplier
    <2> HIDE DEF d
    <2>3. s \in RdapCall /\ s.stage = "registrar" /\ s.registered = "yes"
      BY <1>1, <1>2, <2>2 DEF Call, RdapCall, RdapStages, Tristate
    <2> HIDE DEF s
    <2>4. CallOK(s) /\ r.registered = "unknown"
      BY <1>0, <1>5, <2>1, <2>3 DEF CallOK
    <2> QED  BY <2>1, <2>3, <2>4 DEF CallStep
  <1>6. ASSUME BasesExhausted(c)
        PROVE  \E s : RdapMoves(c, s) /\ CallStep(r, s)
    <2> DEFINE stage == IF r.lastErr = "noservice" THEN "noservice" ELSE "answered"
               s == [r EXCEPT !.stage = stage]
    <2>1. RdapMoves(c, s) /\ r.stage = "try" /\ r.left = <<>>
      BY <1>6 DEF BasesExhausted, RdapMoves, r
    <2>2. /\ s \in RdapCall /\ s.stage \in {"noservice", "answered"} /\ s.registered = r.registered
          /\ s.tried = r.tried /\ s.published = r.published
      BY <1>0 DEF RdapCall, RdapStages
    <2> HIDE DEF s
    <2>3. r.registered = "unknown" /\ r.tried = r.published
      BY <1>0, <1>1, <2>1 DEF CallOK
    <2>4. CallOK(s)
      BY <2>2, <2>3 DEF CallOK
    <2> QED  BY <2>1, <2>2, <2>3, <2>4 DEF CallStep
  <1>7. ASSUME RegistrarUseless(c)
        PROVE  \E s : RdapMoves(c, s) /\ CallStep(r, s)
    <2> DEFINE s == [r EXCEPT !.stage = "answered"]
    <2>1. RdapMoves(c, s) /\ r.stage = "registrar"
      BY <1>7 DEF RegistrarUseless, Hopping, RdapMoves, r
    <2>2. /\ s \in RdapCall /\ s.stage = "answered" /\ s.registered = r.registered
          /\ s.domain = r.domain
      BY <1>0 DEF RdapCall, RdapStages
    <2> HIDE DEF s
    <2>3. r.registered = "yes" /\ r.registered \in {truth, "unknown"}
      BY <1>0, <2>1 DEF CallOK
    <2>4. CallOK(s)
      BY <2>2, <2>3 DEF CallOK
    <2>5. Extends(r.domain, s.domain)
      BY <1>1, <1>2, <2>2 DEF Extends, Domain
    <2> QED  BY <2>1, <2>2, <2>4, <2>5 DEF CallStep
  <1>8. ASSUME NEW n \in 0 .. MaxEntities, NEW given \in SUBSET Members,
               RegistrarHasDomain(c, n, given)
        PROVE  \E s : RdapMoves(c, s) /\ CallStep(r, s)
    <2> DEFINE d == Merge(r.domain, n, given)
               s == Call("answered", r.published, r.left, r.tried, r.lastErr, r.registered, d)
    <2>1. RdapMoves(c, s) /\ r.stage = "registrar"
      BY <1>8 DEF RegistrarHasDomain, Hopping, RdapMoves, r
    <2>2. d \in Domain /\ Extends(r.domain, d)
      BY <1>1, MergeTyped
    <2> HIDE DEF d
    <2>3. /\ s \in RdapCall /\ s.stage = "answered" /\ s.registered = r.registered
          /\ s.domain = d
      BY <1>1, <2>2 DEF Call, RdapCall, RdapStages
    <2> HIDE DEF s
    <2>4. r.registered = "yes" /\ r.registered \in {truth, "unknown"}
      BY <1>0, <2>1 DEF CallOK
    <2>5. CallOK(s)
      BY <2>3, <2>4 DEF CallOK
    <2> QED  BY <2>1, <2>2, <2>3, <2>5 DEF CallStep
  <1>9. CASE truth = "no" /\ BaseHasNothing(c)
    BY <1>3, <1>9 DEF BaseHasNothing, Trying, r
  <1>10. CASE BaseRejected(c) \/ BaseUseless(c) \/ BaseNoMatch(c) \/ BaseFailed(c)
    BY <1>4, <1>10 DEF BaseRejected, BaseUseless, BaseNoMatch, BaseFailed, Trying, r
  <1>11. CASE BaseCancelled(c)
    BY <1>3, <1>11 DEF BaseCancelled, Trying, r
  <1> QED
    BY <1>5, <1>6, <1>7, <1>8, <1>9, <1>10, <1>11 DEF AskRdap, r

-----------------------------------------------------------------------------
(* The WHOIS side.                                                         *)

\* The call of c becomes w and everybody else's stays.
WhoisMoves(c, w) == whois' = [whois EXCEPT ![c] = w]

\* Only an honest text is kept.
KeptOK(w) == w.by # NoName => Honest(w.raw)

\* The text kept stays, or is that of a server asked for the first time.
TextStep(w, v) ==
    w.by # NoName /\ v.stage # "idle" =>
        \/ v.by = w.by /\ v.raw = w.raw
        \/ v.by = w.host /\ w.host \notin w.seen

WhoisStep(w, v) == v \in WhoisCall /\ KeptOK(v) /\ TextStep(w, v)

LEMMA NoWhoisTyped == NoWhois \in WhoisCall /\ NoWhois.by = NoName
  <1>1. NoText \in Body
    BY DEF NoText, Body
  <1> QED  BY <1>1 DEF NoWhois, WhoisCall, WhoisStages

LEMMA ClassifyTyped ==
    ASSUME NEW host, NEW x
    PROVE  Classify(host, x) \in Tristate
  BY DEF Classify, Tristate

\* A template's own phrase decides x for the opposite of what is so.
MisreadBy(host, x) == host \in Templated \cap (IF truth = "yes" THEN x.denies ELSE x.confirms)

(* notfound.go's order of rules contradicts an honest text only by the     *)
(* template of the host it is read for.                                    *)
LEMMA ClassifyTrue ==
    ASSUME NEW host, NEW x \in Body, Honest(x), truth \in {"yes", "no"}
    PROVE  Classify(host, x) \in {truth, "unknown"} \/ MisreadBy(host, x)
  <1>1. x.limited \in BOOLEAN /\ x.record \in BOOLEAN /\ x.negative \in BOOLEAN
    BY DEF Body
  <1>2. CASE truth = "yes"
    BY <1>1, <1>2 DEF Classify, Honest, MisreadBy
  <1>3. CASE truth = "no"
    BY <1>1, <1>3 DEF Classify, Honest, MisreadBy
  <1> QED  BY <1>2, <1>3

LEMMA AskStep ==
    ASSUME NEW c \in Callers, QueryTypeOK, KeptOK(whois[c]), NEW name \in Names \cup {NoName},
           Ask(c, name)
    PROVE  \E v : WhoisMoves(c, v) /\ WhoisStep(whois[c], v)
  <1> DEFINE w == whois[c]
             v == [stage |-> "ask", host |-> name, seen |-> w.seen, last |-> w.last,
                   by |-> w.by, raw |-> w.raw]
  <1>1. w \in WhoisCall
    BY DEF QueryTypeOK
  <1>2. v \in WhoisCall /\ v.by = w.by /\ v.raw = w.raw
    BY <1>1 DEF WhoisCall, WhoisStages
  <1>3. WhoisMoves(c, v)
    BY DEF Ask, WhoisMoves
  <1> HIDE DEF v
  <1>4. KeptOK(v) /\ TextStep(w, v)
    BY <1>2 DEF KeptOK, TextStep
  <1> QED  BY <1>2, <1>3, <1>4 DEF WhoisStep

LEMMA EndStep ==
    ASSUME NEW c \in Callers, QueryTypeOK, KeptOK(whois[c]), NEW stage \in WhoisStages,
           End(c, stage)
    PROVE  \E v : WhoisMoves(c, v) /\ WhoisStep(whois[c], v)
  <1> DEFINE w == whois[c]
             v == [w EXCEPT !.stage = stage]
  <1>1. w \in WhoisCall
    BY DEF QueryTypeOK
  <1>2. v \in WhoisCall /\ v.by = w.by /\ v.raw = w.raw
    BY <1>1 DEF WhoisCall
  <1>3. WhoisMoves(c, v)
    BY DEF End, WhoisMoves
  <1> HIDE DEF v
  <1>4. KeptOK(v) /\ TextStep(w, v)
    BY <1>2 DEF KeptOK, TextStep
  <1> QED  BY <1>2, <1>3, <1>4 DEF WhoisStep

LEMMA OnwardStep ==
    ASSUME NEW c \in Callers, QueryTypeOK, NEW by \in Names \cup {NoName}, NEW raw \in Body,
           NEW next \in Names \cup {NoName}, Onward(c, by, raw, next),
           by # NoName => Honest(raw),
           \/ by = whois[c].by /\ raw = whois[c].raw
           \/ by = whois[c].host /\ whois[c].host \notin whois[c].seen
    PROVE  \E v : WhoisMoves(c, v) /\ WhoisStep(whois[c], v)
  <1> DEFINE w == whois[c]
             ends == next = NoName \/ LastHop(c)
             v == [stage |-> IF ends THEN "answered" ELSE "ask",
                   host |-> IF ends THEN w.host ELSE next,
                   seen |-> w.seen \cup {w.host}, last |-> w.host, by |-> by, raw |-> raw]
  <1>1. w \in WhoisCall
    BY DEF QueryTypeOK
  <1>2. v \in WhoisCall /\ v.by = by /\ v.raw = raw
    BY <1>1 DEF WhoisCall, WhoisStages
  <1>3. WhoisMoves(c, v)
    BY DEF Onward, WhoisMoves
  <1> HIDE DEF v
  <1>4. KeptOK(v) /\ TextStep(w, v)
    BY <1>2 DEF KeptOK, TextStep
  <1> QED  BY <1>2, <1>3, <1>4 DEF WhoisStep

LEMMA QueryWhoisStep ==
    ASSUME NEW c \in Callers, QueryTypeOK, KeptOK(whois[c]), QueryWhois(c)
    PROVE  \E v : WhoisMoves(c, v) /\ WhoisStep(whois[c], v)
  <1>1. HostFor \in Names \cup {NoName}
    BY WhoisConstants
  <1>2. End(c, "discover") \/ Ask(c, HostFor)
    BY DEF QueryWhois
  <1>3. "discover" \in WhoisStages
    BY DEF WhoisStages
  <1> QED  BY <1>1, <1>2, <1>3, AskStep, EndStep

(* An answer is honest; nothing else adds to what is kept.                 *)
LEMMA AskWhoisStep ==
    ASSUME NEW c \in Callers, QueryTypeOK, KeptOK(whois[c]), AskWhois(c)
    PROVE  \E v : WhoisMoves(c, v) /\ WhoisStep(whois[c], v)
  <1> DEFINE Good == \E v : WhoisMoves(c, v) /\ WhoisStep(whois[c], v)
  <1> SUFFICES Good
    OBVIOUS
  <1>0. /\ {"error", "iana", "answered", "discover"} \subseteq WhoisStages
        /\ SeedHost \in Names \cup {NoName}
    BY WhoisConstants DEF WhoisStages
  <1>1. ASSUME NEW stage \in {"error", "iana", "answered"}, End(c, stage)
        PROVE  Good
    BY <1>0, <1>1, EndStep
  <1>2. ASSUME NEW name \in Names \cup {NoName}, Ask(c, name)
        PROVE  Good
    BY <1>2, AskStep
  <1>3. whois[c] \in WhoisCall
    BY DEF QueryTypeOK
  <1> HIDE DEF Good
  <1>4. CASE DiscoverCached(c)
    <2>1. End(c, "error") \/ (hostCache \in Names \cup {NoName} /\ Ask(c, hostCache))
      BY <1>4 DEF DiscoverCached, QueryTypeOK
    <2>2. PICK name : name = hostCache
      OBVIOUS
    <2>3. End(c, "error") \/ (name \in Names \cup {NoName} /\ Ask(c, name))
      BY <2>1, <2>2 DEF Ask
    <2> QED  BY <1>1, <1>2, <2>3
  <1>5. CASE DiscoverMiss(c)
    BY <1>1, <1>5 DEF DiscoverMiss
  <1>6. CASE IanaFailed(c)
    BY <1>0, <1>1, <1>2, <1>6 DEF IanaFailed
  <1>7. ASSUME NEW n \in Names \cup {NoName}, IanaAnswered(c, n)
        PROVE  Good
    BY <1>1, <1>2, <1>7 DEF IanaAnswered
  <1>8. CASE ReferralLoop(c)
    BY <1>1, <1>8 DEF ReferralLoop
  <1>9. CASE HopFailed(c)
    <2>1. End(c, "error") \/ End(c, "answered")
      BY <1>9 DEF HopFailed
    <2> QED  BY <1>1, <2>1
  <1>10. CASE HopEmpty(c)
    <2>1. PICK by \in Names \cup {NoName}, raw \in Body : by = whois[c].by /\ raw = whois[c].raw
      BY <1>3 DEF WhoisCall
    <2>2. Onward(c, by, raw, NoName)
      BY <1>10, <2>1 DEF HopEmpty, Onward
    <2>3. by # NoName => Honest(raw)
      BY <2>1 DEF KeptOK
    <2> QED  BY <2>1, <2>2, <2>3, OnwardStep DEF Good
  <1>11. ASSUME NEW a \in Answer, HopAnswered(c, a), Honest(a.text)
        PROVE  Good
    <2>1. a.text \in Body /\ a.refer \in Names \cup {NoName}
      BY WhoisConstants DEF Answer
    <2>2. PICK next \in Names \cup {NoName} : next = referralHost(c, a)
      BY <2>1 DEF referralHost
    <2>3. PICK by \in Names \cup {NoName}, text \in Body : by = whois[c].host /\ text = a.text
      BY <1>3, <2>1 DEF WhoisCall
    <2>4. Onward(c, by, text, next) /\ whois[c].host \notin whois[c].seen
      BY <1>11, <2>2, <2>3 DEF HopAnswered, Onward, Unseen
    <2>5. Honest(text)
      BY <1>11, <2>3
    <2> QED  BY <2>3, <2>4, <2>5, OnwardStep DEF Good
  <1> QED
    BY <1>4, <1>5, <1>6, <1>7, <1>8, <1>9, <1>10, <1>11 DEF AskWhois

-----------------------------------------------------------------------------
(* The two together.                                                       *)

(* The inductive invariant: LearnedFromIana, what is so of every call, and *)
(* reports that are true or of a misread text.                             *)
QueryInv ==
    /\ QueryTypeOK
    /\ MapOfItsDocument
    /\ CacheIsIanas
    /\ \A c \in Callers : CallOK(rdap[c])
    /\ \A c \in Callers : KeptOK(whois[c])
    /\ ReportTrue

\* The steps NothingLost allows, of RDAP and of WHOIS.
RdapKept ==
    \A c \in Callers :
        rdap[c].registered = "yes" /\ rdap'[c].registered = "yes"
            => Extends(rdap[c].domain, rdap'[c].domain)

WhoisKept ==
    \A c \in Callers : TextStep(whois[c], whois'[c])

RdapGood ==
    /\ rdap' \in [Callers -> RdapCall]
    /\ \A c \in Callers : CallOK(rdap[c])'
    /\ RdapKept

WhoisGood ==
    /\ whois' \in [Callers -> WhoisCall]
    /\ \A c \in Callers : KeptOK(whois[c])'
    /\ WhoisKept

LEMMA SameRdapGood ==
    ASSUME QueryInv, UNCHANGED <<rdap, truth>>
    PROVE  RdapGood
  <1>1. rdap \in [Callers -> RdapCall]
    BY DEF QueryInv, QueryTypeOK
  <1>2. ASSUME NEW c \in Callers
        PROVE  Extends(rdap[c].domain, rdap'[c].domain)
    <2>1. rdap[c].domain \in Domain /\ rdap'[c] = rdap[c] /\ MaxEntities \in Nat
      BY <1>1, RdapFields, RdapConstants
    <2> QED  BY <2>1 DEF Extends, Domain
  <1>3. \A c \in Callers : CallOK(rdap[c])'
    BY DEF QueryInv, CallOK
  <1> QED  BY <1>1, <1>2, <1>3 DEF RdapGood, RdapKept

LEMMA MovedRdapGood ==
    ASSUME QueryInv, truth' = truth, NEW c \in Callers,
           NEW s, RdapMoves(c, s), CallStep(rdap[c], s)
    PROVE  RdapGood
  <1>1. /\ rdap \in [Callers -> RdapCall] /\ s \in RdapCall
        /\ rdap' = [rdap EXCEPT ![c] = s]
    BY DEF QueryInv, QueryTypeOK, CallStep, RdapMoves
  <1>2. rdap'[c] = s /\ \A d \in Callers \ {c} : rdap'[d] = rdap[d]
    BY <1>1
  <1>3. ASSUME NEW d \in Callers
        PROVE  /\ CallOK(rdap[d])'
               /\ rdap[d].registered = "yes" /\ rdap'[d].registered = "yes"
                      => Extends(rdap[d].domain, rdap'[d].domain)
    <2>1. CASE d = c
      BY <1>2, <2>1 DEF CallStep, CallOK
    <2>2. CASE d # c
      <3>1. rdap[d].domain \in Domain /\ rdap'[d] = rdap[d] /\ MaxEntities \in Nat
        BY <1>1, <1>2, <2>2, RdapFields, RdapConstants
      <3>2. Extends(rdap[d].domain, rdap'[d].domain)
        BY <3>1 DEF Extends, Domain
      <3>3. CallOK(rdap[d])'
        BY <3>1 DEF QueryInv, CallOK
      <3> QED  BY <3>2, <3>3
    <2> QED  BY <2>1, <2>2
  <1> QED  BY <1>1, <1>3 DEF RdapGood, RdapKept

LEMMA SameWhoisGood ==
    ASSUME QueryInv, UNCHANGED <<whois, truth>>
    PROVE  WhoisGood
  <1>1. whois' \in [Callers -> WhoisCall]
    BY DEF QueryInv, QueryTypeOK
  <1>2. \A c \in Callers : KeptOK(whois[c])'
    BY DEF QueryInv, KeptOK, Honest
  <1> QED  BY <1>1, <1>2 DEF WhoisGood, WhoisKept, TextStep

LEMMA MovedWhoisGood ==
    ASSUME QueryInv, truth' = truth, NEW c \in Callers,
           NEW v, WhoisMoves(c, v), WhoisStep(whois[c], v)
    PROVE  WhoisGood
  <1>1. /\ whois \in [Callers -> WhoisCall] /\ v \in WhoisCall
        /\ whois' = [whois EXCEPT ![c] = v]
    BY DEF QueryInv, QueryTypeOK, WhoisStep, WhoisMoves
  <1>2. whois'[c] = v /\ \A d \in Callers \ {c} : whois'[d] = whois[d]
    BY <1>1
  <1>3. ASSUME NEW d \in Callers
        PROVE  /\ KeptOK(whois[d])'
               /\ TextStep(whois[d], whois'[d])
    <2>1. CASE d = c
      BY <1>2, <2>1 DEF WhoisStep, KeptOK, Honest
    <2>2. CASE d # c
      BY <1>2, <2>2 DEF QueryInv, KeptOK, Honest, TextStep
    <2> QED  BY <2>1, <2>2
  <1> QED  BY <1>1, <1>3 DEF WhoisGood, WhoisKept

LEMMA CacheStep ==
    ASSUME QueryInv, [QueryNext]_queryVars
    PROVE  CacheIsIanas' /\ hostCache' \in Names \cup {NoName, NotCached}
  <1>0. CacheIsIanas /\ hostCache \in Names \cup {NoName, NotCached}
    BY DEF QueryInv, QueryTypeOK
  <1>1. ASSUME UNCHANGED <<hostCache, ianaSaid>>
        PROVE  CacheIsIanas' /\ hostCache' \in Names \cup {NoName, NotCached}
    BY <1>0, <1>1 DEF CacheIsIanas
  <1>2. CASE HostExpires
    BY <1>2 DEF HostExpires, CacheIsIanas
  <1>3. ASSUME NEW c \in Callers, AskWhois(c)
        PROVE  CacheIsIanas' /\ hostCache' \in Names \cup {NoName, NotCached}
    <2>1. ASSUME NEW n \in Names \cup {NoName}, IanaAnswered(c, n)
          PROVE  CacheIsIanas' /\ hostCache' \in Names \cup {NoName, NotCached}
      BY <2>1 DEF IanaAnswered, CacheIsIanas
    <2> QED
      BY <1>1, <1>3, <2>1 DEF AskWhois, DiscoverCached, DiscoverMiss, IanaFailed, ReferralLoop,
         HopFailed, HopEmpty, HopAnswered, Onward
  <1>4. ASSUME NEW c \in Callers, Begin(c) \/ Leave(c) \/ OfRdap(CancelCaller(c))
                                  \/ OfRdap(AskRdap(c)) \/ FallBack(c)
                                  \/ ReportRdap(c) \/ ReportWhois(c) \/ ReportCancelled(c)
        PROVE  UNCHANGED <<hostCache, ianaSaid>>
    BY <1>4 DEF Begin, Leave, OfRdap, OfWhois, FallBack, QueryWhois, whoisVars, ReportRdap,
       ReportWhois, ReportCancelled, Returns
  <1>5. CASE UNCHANGED queryVars \/ (Refresh /\ UNCHANGED <<rdapVars, whoisVars, truth, report>>)
    BY <1>1, <1>5 DEF queryVars, whoisVars
  <1> QED
    BY <1>1, <1>2, <1>3, <1>4, <1>5 DEF QueryNext, Proceed, OfWhois

ReportGood == report' \in [Callers -> Reports] /\ ReportTrue'

LEMMA VerdictTrue ==
    ASSUME QueryInv, NEW c \in Callers
    PROVE  /\ Verdict(c) \in Tristate
           /\ Verdict(c) \in {truth, "unknown"} \/ Misread(c)
  <1>1. whois[c] \in WhoisCall /\ KeptOK(whois[c]) /\ truth \in {"yes", "no"}
    BY DEF QueryInv, QueryTypeOK
  <1>2. CASE At(c, "answered") /\ whois[c].by # NoName
    <2>1. PICK host : host = hostOnly[whois[c].last]
      OBVIOUS
    <2>2. PICK x \in Body : x = whois[c].raw
      BY <1>1 DEF WhoisCall
    <2>3. Verdict(c) = Classify(host, x)
      BY <1>2, <2>1, <2>2 DEF Verdict
    <2>4. Honest(x)
      BY <1>1, <1>2, <2>2 DEF KeptOK
    <2>5. Classify(host, x) \in {truth, "unknown"} \/ MisreadBy(host, x)
      BY <1>1, <2>4, ClassifyTrue
    <2>6. MisreadBy(host, x) => Misread(c)
      BY <1>2, <2>1, <2>2 DEF MisreadBy, Misread
    <2> QED  BY <2>3, <2>5, <2>6, ClassifyTyped
  <1>3. CASE ~(At(c, "answered") /\ whois[c].by # NoName)
    BY <1>3 DEF Verdict, Tristate
  <1> QED  BY <1>2, <1>3

(* A text that was misread stays so: once it is classified nobody touches  *)
(* it before the report is taken away.                                     *)
LEMMA MisreadStays ==
    ASSUME NEW c \in Callers, Misread(c), truth' = truth, whois'[c] = whois[c]
    PROVE  Misread(c)'
  BY DEF Misread, At

\* No call of WHOIS that has answered moves.
AnsweredStay == \A c \in Callers : At(c, "answered") => whois'[c] = whois[c]

LEMMA AskedUnanswered ==
    ASSUME QueryInv, NEW c \in Callers, AskWhois(c) \/ QueryWhois(c),
           NEW v, WhoisMoves(c, v)
    PROVE  AnsweredStay
  <1>1. ~At(c, "answered")
    BY DEF AskWhois, QueryWhois, DiscoverCached, DiscoverMiss, IanaFailed, IanaAnswered,
       ReferralLoop, HopFailed, HopEmpty, HopAnswered, Unseen, At
  <1>2. whois \in [Callers -> WhoisCall] /\ whois' = [whois EXCEPT ![c] = v]
    BY DEF QueryInv, QueryTypeOK, WhoisMoves
  <1>3. \A d \in Callers \ {c} : whois'[d] = whois[d]
    BY <1>2
  <1> QED  BY <1>1, <1>3 DEF AnsweredStay

LEMMA SameReportGood ==
    ASSUME QueryInv, UNCHANGED <<report, truth>>, AnsweredStay
    PROVE  ReportGood
  <1>1. report' \in [Callers -> Reports]
    BY DEF QueryInv, QueryTypeOK
  <1>2. ASSUME NEW c \in Callers
        PROVE  report[c].registered \in {truth, "unknown"} \/ (report[c].protocol = "whois" /\ Misread(c)')
    <2>1. report[c].registered \in {truth, "unknown"} \/ (report[c].protocol = "whois" /\ Misread(c))
      BY DEF QueryInv, ReportTrue
    <2>2. Misread(c) => whois'[c] = whois[c]
      BY DEF Misread, AnsweredStay
    <2> QED  BY <2>1, <2>2, MisreadStays
  <1> QED  BY <1>1, <1>2 DEF ReportGood, ReportTrue

LEMMA MovedReportGood ==
    ASSUME QueryInv, truth' = truth, NEW c \in Callers,
           NEW rep \in Reports, report' = [report EXCEPT ![c] = rep],
           \A d \in Callers \ {c} : whois'[d] = whois[d],
           \/ rep.registered \in {truth, "unknown"}
           \/ rep.protocol = "whois" /\ Misread(c) /\ whois'[c] = whois[c]
    PROVE  ReportGood
  <1>1. report \in [Callers -> Reports]
    BY DEF QueryInv, QueryTypeOK
  <1>2. report' \in [Callers -> Reports]
    BY <1>1
  <1>3. ASSUME NEW d \in Callers
        PROVE  report'[d].registered \in {truth, "unknown"} \/ (report'[d].protocol = "whois" /\ Misread(d)')
    <2>1. CASE d = c
      BY <1>1, <2>1, MisreadStays
    <2>2. CASE d # c
      <3>1. report'[d] = report[d] /\ whois'[d] = whois[d]
        BY <1>1, <2>2
      <3>2. report[d].registered \in {truth, "unknown"} \/ (report[d].protocol = "whois" /\ Misread(d))
        BY DEF QueryInv, ReportTrue
      <3> QED  BY <3>1, <3>2, MisreadStays
    <2> QED  BY <2>1, <2>2
  <1> QED  BY <1>2, <1>3 DEF ReportGood, ReportTrue

LEMMA BeginReport ==
    ASSUME QueryInv, NEW c \in Callers, Begin(c)
    PROVE  ReportGood
  <1>1. report[c] \in Reports /\ truth' = truth /\ whois' = whois
    BY DEF QueryInv, QueryTypeOK, Begin, whoisVars
  <1>2. PICK rep : rep = [report[c] EXCEPT !.stage = "asking"]
    OBVIOUS
  <1>3. /\ rep \in Reports /\ rep.registered = report[c].registered
        /\ rep.protocol = report[c].protocol
    BY <1>1, <1>2 DEF Reports
  <1>4. report' = [report EXCEPT ![c] = rep]
    BY <1>2 DEF Begin
  <1>5. rep.registered \in {truth, "unknown"} \/ (rep.protocol = "whois" /\ Misread(c))
    BY <1>3 DEF QueryInv, ReportTrue
  <1> QED  BY <1>1, <1>3, <1>4, <1>5, MovedReportGood

(* What lookupOnce returns is what one of the two sides found.             *)
LEMMA ReturnsReport ==
    ASSUME QueryInv, NEW c \in Callers, ReportRdap(c) \/ ReportWhois(c) \/ ReportCancelled(c)
    PROVE  ReportGood
  <1>0. truth' = truth /\ rdap[c] \in RdapCall /\ CallOK(rdap[c]) /\ whois' = whois
    BY DEF ReportRdap, ReportWhois, ReportCancelled, Returns, QueryInv, QueryTypeOK, whoisVars
  <1>1. ASSUME NEW verdict \in Tristate, NEW stage \in {"done", "failed"},
               NEW protocol \in {"none", "rdap", "whois"},
               verdict \in {truth, "unknown"} \/ (protocol = "whois" /\ Misread(c)),
               Returns(c, [stage |-> stage, registered |-> verdict, protocol |-> protocol])
        PROVE  ReportGood
    <2>1. PICK rep : rep = [stage |-> stage, registered |-> verdict, protocol |-> protocol]
      OBVIOUS
    <2>2. rep \in Reports /\ rep.registered = verdict /\ rep.protocol = protocol
      BY <2>1 DEF Reports
    <2>3. report' = [report EXCEPT ![c] = rep]
      BY <1>1, <2>1 DEF Returns
    <2> QED  BY <1>0, <1>1, <2>2, <2>3, MovedReportGood
  <1>2. CASE ReportRdap(c)
    <2>1. PICK verdict \in Tristate : verdict = rdap[c].registered
      BY <1>0, RdapFields
    <2>2. Returns(c, [stage |-> "done", registered |-> verdict, protocol |-> "rdap"])
      BY <1>2, <2>1 DEF ReportRdap, Returns
    <2>3. verdict \in {truth, "unknown"}
      BY <1>0, <2>1 DEF CallOK
    <2> QED  BY <1>1, <2>2, <2>3
  <1>3. CASE ReportWhois(c)
    <2>1. PICK verdict \in Tristate : verdict = Verdict(c)
      BY VerdictTrue
    <2>2. PICK protocol \in {"none", "rdap", "whois"} :
              protocol = IF rdap[c].stage = "noservice" \/ Verdict(c) # "unknown"
                         THEN "whois" ELSE "rdap"
      OBVIOUS
    <2>3. Returns(c, [stage |-> "done", registered |-> verdict, protocol |-> protocol])
      BY <1>3, <2>1, <2>2 DEF ReportWhois, Returns
    <2>4. verdict \in {truth, "unknown"} \/ (protocol = "whois" /\ Misread(c))
      BY <2>1, <2>2, VerdictTrue
    <2> QED  BY <1>1, <2>3, <2>4
  <1>4. CASE ReportCancelled(c)
    <2>1. [NoReport EXCEPT !.stage = "failed"] =
              [stage |-> "failed", registered |-> "unknown", protocol |-> "none"]
      BY DEF NoReport
    <2>2. Returns(c, [stage |-> "failed", registered |-> "unknown", protocol |-> "none"])
      BY <1>4, <2>1 DEF ReportCancelled
    <2>3. "unknown" \in Tristate
      BY DEF Tristate
    <2> QED  BY <1>1, <2>2, <2>3
  <1> QED  BY <1>2, <1>3, <1>4

LEMMA QueryInitHolds == QueryInit => QueryInv
  <1> SUFFICES ASSUME QueryInit PROVE QueryInv
    OBVIOUS
  <1>1. /\ rdap = [c \in Callers |-> NoRdap] /\ alive = [c \in Callers |-> TRUE]
        /\ whois = [c \in Callers |-> NoWhois] /\ truth \in {"yes", "no"}
        /\ report = [c \in Callers |-> NoReport]
        /\ hostCache = NotCached
    BY DEF QueryInit, RdapInit, WhoisInit
  <1>2. NoReport \in Reports /\ NoReport.registered = "unknown"
    BY DEF NoReport, Reports, Tristate
  <1>3. NoRdap.stage = "idle" /\ NoRdap.registered = "unknown"
    BY DEF NoRdap, Call
  <1>4. QueryTypeOK
    BY <1>1, <1>2, NoRdapTyped, NoWhoisTyped DEF QueryTypeOK
  <1>5. \A c \in Callers : CallOK(rdap[c])
    BY <1>1, <1>3 DEF CallOK
  <1>6. \A c \in Callers : KeptOK(whois[c])
    BY <1>1, NoWhoisTyped DEF KeptOK
  <1>7. ReportTrue
    BY <1>1, <1>2 DEF ReportTrue
  <1>8. CacheIsIanas
    BY DEF QueryInit, WhoisInit, CacheIsIanas
  <1>9. MapOfItsDocument
    BY BootstrapConstants DEF QueryInit, BootstrapInit, MapOfItsDocument
  <1> QED  BY <1>4, <1>5, <1>6, <1>7, <1>8, <1>9 DEF QueryInv

LEMMA QueryStep ==
    ASSUME QueryInv, [QueryNext]_queryVars
    PROVE  QueryInv' /\ RdapKept /\ WhoisKept
  <1> DEFINE Goal == /\ truth' = truth /\ alive' \in [Callers -> BOOLEAN]
                     /\ RdapGood /\ WhoisGood /\ ReportGood /\ MapOfItsDocument'
  <1>0. alive \in [Callers -> BOOLEAN] /\ QueryTypeOK /\ MapOfItsDocument
        /\ \A c \in Callers : CallOK(rdap[c]) /\ KeptOK(whois[c])
    BY DEF QueryInv, QueryTypeOK
  <1>12. ASSUME UNCHANGED whois
        PROVE  AnsweredStay
    BY <1>12 DEF AnsweredStay
  <1>1. ASSUME UNCHANGED bootstrapVars
        PROVE  MapOfItsDocument'
    BY <1>0, <1>1, BootstrapStep
  <1>2. ASSUME NEW c \in Callers, Begin(c)
        PROVE  Goal
    <2>1. UNCHANGED <<bootstrapVars, whois, truth>> /\ QueryRdap(c)
      BY <1>2 DEF Begin, whoisVars
    <2>2. RdapGood /\ alive' = alive
      BY <1>0, <2>1, StartsCall, MovedRdapGood
    <2> QED  BY <1>0, <1>1, <1>2, <2>1, <2>2, SameWhoisGood, BeginReport
  <1>3. ASSUME NEW c \in Callers, OfRdap(AskRdap(c))
        PROVE  Goal
    <2>1. UNCHANGED <<bootstrapVars, whois, truth, report>> /\ AskRdap(c)
      BY <1>3 DEF OfRdap, whoisVars
    <2>2. alive' = alive
      BY <2>1 DEF AskRdap, BaseHasDomain, BaseHasNothing, BaseRejected, BaseUseless, BaseNoMatch,
         BaseFailed, BaseCancelled, BasesExhausted, RegistrarUseless, RegistrarHasDomain,
         Return, Continue
    <2>3. RdapGood
      BY <1>0, <2>1, AskRdapStep, MovedRdapGood
    <2> QED  BY <1>0, <1>1, <2>1, <2>2, <2>3, SameWhoisGood, SameReportGood, <1>12
  <1>4. ASSUME NEW c \in Callers, OfWhois(AskWhois(c)) \/ FallBack(c)
        PROVE  Goal
    <2>1. /\ UNCHANGED <<bootstrapVars, rdap, alive, truth, report>>
          /\ AskWhois(c) \/ QueryWhois(c)
      BY <1>4 DEF OfWhois, FallBack, rdapVars
    <2>2. WhoisGood
      BY <1>0, <2>1, AskWhoisStep, QueryWhoisStep, MovedWhoisGood
    <2>3. AnsweredStay
      BY <1>0, <2>1, AskWhoisStep, QueryWhoisStep, AskedUnanswered
    <2> QED  BY <1>0, <1>1, <2>1, <2>2, <2>3, SameRdapGood, SameReportGood
  <1>5. ASSUME NEW c \in Callers, ReportRdap(c) \/ ReportWhois(c) \/ ReportCancelled(c)
        PROVE  Goal
    <2>1. UNCHANGED <<bootstrapVars, rdap, alive, whois, truth>>
      BY <1>5 DEF ReportRdap, ReportWhois, ReportCancelled, Returns, rdapVars, whoisVars
    <2> QED  BY <1>0, <1>1, <1>5, <2>1, SameRdapGood, SameWhoisGood, ReturnsReport
  <1>6. ASSUME NEW c \in Callers, Leave(c)
        PROVE  Goal
    <2>1. /\ UNCHANGED <<bootstrapVars, truth>>
          /\ RdapMoves(c, NoRdap) /\ WhoisMoves(c, NoWhois)
          /\ report' = [report EXCEPT ![c] = NoReport]
          /\ alive' = [alive EXCEPT ![c] = TRUE]
      BY <1>6 DEF Leave, RdapMoves, WhoisMoves
    <2>2. CallStep(rdap[c], NoRdap)
      <3>1. NoRdap.stage = "idle" /\ NoRdap.registered = "unknown"
        BY DEF NoRdap, Call
      <3> QED  BY <3>1, NoRdapTyped DEF CallStep, CallOK
    <2>3. WhoisStep(whois[c], NoWhois)
      <3>1. NoWhois.stage = "idle"
        BY DEF NoWhois
      <3> QED  BY <3>1, NoWhoisTyped DEF WhoisStep, KeptOK, TextStep
    <2>4. NoReport \in Reports /\ NoReport.registered = "unknown"
      BY DEF NoReport, Reports, Tristate
    <2>5. RdapGood
      BY <2>1, <2>2, MovedRdapGood
    <2>6. WhoisGood
      BY <2>1, <2>3, MovedWhoisGood
    <2>7. ReportGood
      <3>1. \A d \in Callers \ {c} : whois'[d] = whois[d]
        BY <1>0, <2>1 DEF QueryTypeOK, WhoisMoves
      <3> QED  BY <2>1, <2>4, <3>1, MovedReportGood
    <2> QED  BY <1>0, <1>1, <2>1, <2>5, <2>6, <2>7
  <1>7. ASSUME NEW c \in Callers, OfRdap(CancelCaller(c))
        PROVE  Goal
    <2>1. /\ UNCHANGED <<bootstrapVars, rdap, whois, truth, report>>
          /\ alive' = [alive EXCEPT ![c] = FALSE]
      BY <1>7 DEF OfRdap, CancelCaller, whoisVars
    <2> QED  BY <1>0, <1>1, <2>1, SameRdapGood, SameWhoisGood, SameReportGood, <1>12
  <1>8. ASSUME HostExpires, UNCHANGED <<bootstrapVars, rdapVars, truth, report>>
        PROVE  Goal
    <2>1. UNCHANGED <<bootstrapVars, rdap, alive, whois, truth, report>>
      BY <1>8 DEF HostExpires, rdapVars
    <2> QED  BY <1>0, <1>1, <2>1, SameRdapGood, SameWhoisGood, SameReportGood, <1>12
  <1>9. ASSUME (Refresh /\ UNCHANGED <<rdapVars, whoisVars, truth, report>>) \/ UNCHANGED queryVars
        PROVE  Goal
    <2>1. UNCHANGED <<rdap, alive, whois, truth, report>> /\ (Refresh \/ UNCHANGED bootstrapVars)
      BY <1>9 DEF queryVars, rdapVars, whoisVars
    <2> QED  BY <1>0, <2>1, BootstrapStep, SameRdapGood, SameWhoisGood, SameReportGood, <1>12
  <1>10. Goal
    <2> HIDE DEF Goal
    <2> QED
      BY <1>2, <1>3, <1>4, <1>5, <1>6, <1>7, <1>8, <1>9 DEF QueryNext, Proceed
  <1>11. QueryTypeOK'
    BY <1>0, <1>10, CacheStep DEF QueryTypeOK, RdapGood, WhoisGood, ReportGood
  <1> QED
    BY <1>10, <1>11, CacheStep DEF QueryInv, RdapGood, WhoisGood, ReportGood

(* The invariant the theorems below are drawn from.                        *)
THEOREM QueryInvariant == QuerySpec => []QueryInv
  BY QueryInitHolds, QueryStep, PTL DEF QuerySpec

(* What lookups steer by was learned from IANA as a whole: the RDAP map is *)
(* that of the accepted document its ETag names, through refused, failed   *)
(* and unchanged refreshes (Registry.Refresh), and only IANA's own answer  *)
(* is ever cached as a WHOIS host (Discoverer.Host).                       *)
THEOREM AlwaysLearnedFromIana == QuerySpec => []LearnedFromIana
  <1>1. QueryInv => LearnedFromIana
    BY DEF QueryInv, LearnedFromIana
  <1> QED  BY <1>1, QueryInvariant, PTL

(* RDAP is given up as undecided only when every base of the list the call *)
(* started with was tried, however many there are and whatever a refresh   *)
(* put in their place meanwhile (QueryWithOptions).                        *)
THEOREM AllBasesAlwaysTried == QuerySpec => []AllBasesTried
  <1>1. QueryInv => AllBasesTried
    BY DEF QueryInv, CallOK, AllBasesTried
  <1> QED  BY <1>1, QueryInvariant, PTL

(* What a later server may change of what an earlier one said: of an RDAP  *)
(* record only its gaps and, for a longer list, its entities               *)
(* (followRegistrarHop); of a WHOIS answer the whole text, but only for    *)
(* the text of a server asked for the first time, never by a loop, a       *)
(* failure or an empty reply (Client.Query).                               *)
THEOREM NothingEverLost == QuerySpec => NothingLost
  <1> DEFINE A == \A c \in Callers :
                      rdap[c].registered = "yes" /\ rdap'[c].registered = "yes"
                          => /\ \/ /\ rdap'[c].domain.listed = rdap[c].domain.listed
                                   /\ rdap'[c].domain.entities = rdap[c].domain.entities
                                \/ /\ rdap'[c].domain.listed = "registrar"
                                   /\ rdap'[c].domain.entities > rdap[c].domain.entities
                             /\ \A m \in Members : rdap[c].domain.members[m] # "nobody"
                                    => rdap'[c].domain.members[m] = rdap[c].domain.members[m]
             B == \A c \in Callers : whois[c].by # NoName /\ whois'[c].stage # "idle" =>
                      \/ whois'[c].by = whois[c].by /\ whois'[c].raw = whois[c].raw
                      \/ whois'[c].by = whois[c].host /\ whois[c].host \notin whois[c].seen
  <1>1. QueryInv /\ [QueryNext]_queryVars => [A]_rdapVars /\ [B]_whoisVars
    <2> SUFFICES ASSUME QueryInv, [QueryNext]_queryVars PROVE A /\ B
      OBVIOUS
    <2>1. RdapKept /\ WhoisKept
      BY QueryStep
    <2> QED  BY <2>1 DEF RdapKept, WhoisKept, Extends, TextStep
  <1>2. QuerySpec => [][A]_rdapVars /\ [][B]_whoisVars
    BY <1>1, QueryInvariant, PTL DEF QuerySpec
  <1> QED  BY <1>2 DEF NothingLost, RegistryDataKept, AnswerNeverErased

(* The report says the opposite of what is so in one case only: a phrase   *)
(* of the template of the server that replied last occurs in the text      *)
(* kept (Classify, viaWHOIS).  For any servers, texts, hops and failures.  *)
THEOREM ReportAlwaysTrue == QuerySpec => []ReportTrue
  <1>1. QueryInv => ReportTrue
    BY DEF QueryInv
  <1> QED  BY <1>1, QueryInvariant, PTL
=============================================================================
