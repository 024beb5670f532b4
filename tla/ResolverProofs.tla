--------------------------- MODULE ResolverProofs ---------------------------
(***************************************************************************)
(* Resolver.Lookup for any number of callers, any options, any tolerances  *)
(* and any TTL policy that WithTTLPolicy accepts.                          *)
(***************************************************************************)
EXTENDS Resolver, TLAPS

Stage == {"none", "consult", "evict", "rdap", "whois", "finish", "failed"}

Flight == [stage : Stage, maxAge : 0 .. MaxTolerance, rep : DomainReport]

Lookup == [stage : {"idle", "waiting"}, opt : Options]

Entry == [stored : BOOLEAN, rep : DomainReport, left : -1 .. TTLRegistered]

ResolverType ==
    /\ cache \in Entry
    /\ flight \in [FlightKeys -> Flight]
    /\ lookup \in [Callers -> Lookup]

LEMMA NoReportType == NoReport \in DomainReport
  BY ResolverConstants DEF NoReport, DomainReport, Tristate

LEMMA OlderType ==
    ASSUME NEW rep \in DomainReport
    PROVE  /\ Older(rep) \in DomainReport
           /\ Older(rep).referred = rep.referred
           /\ Older(rep).given = rep.given
           /\ Older(rep).contacts = rep.contacts
           /\ Older(rep).hit = rep.hit
  BY ResolverConstants DEF Older, DomainReport

LEMMA FetchedType ==
    ASSUME ResolverType, NEW k \in FlightKeys, NEW r \in Tristate,
           NEW b \in BOOLEAN, NEW given \in BOOLEAN
    PROVE  Fetched(k, r, b, given) \in DomainReport
  <1>1. flight[k].rep.age \in 0 .. MaxTolerance + 1
    BY DEF ResolverType, Flight, DomainReport
  <1> QED BY <1>1 DEF Fetched, DomainReport

LEMMA ForType == ASSUME NEW r \in Tristate PROVE For(r) \in -1 .. TTLRegistered
  BY ResolverConstants DEF For, Tristate

LEMMA KeyType == ASSUME NEW o \in Options PROVE flightKey(o) \in FlightKeys
  BY DEF FlightKeys

LEMMA SkipType == ASSUME NEW k \in FlightKeys PROVE k.skip \in BOOLEAN
  BY ResolverConstants DEF flightKey, FlightKeys, Option

(* A step of a flight replaces its record and may write the entry.         *)
LEMMA AdvanceType ==
    ASSUME ResolverType, NEW k \in FlightKeys, NEW from, NEW to \in Stage,
           NEW rep \in DomainReport, Advance(k, from, to, rep), cache' \in Entry
    PROVE  ResolverType'
  BY DEF Advance, ResolverType, Flight

(* lookupOnce caches what it returns.                                      *)
LEMMA StoreType ==
    ASSUME ResolverType, NEW k \in FlightKeys, NEW from, NEW rep \in DomainReport,
           StoreAndReturn(k, from, rep)
    PROVE  ResolverType'
  <1>1. rep.registered \in Tristate
    BY DEF DomainReport
  <1>2. cache' \in Entry
    BY <1>1, ForType DEF StoreAndReturn, store, Entry
  <1> QED BY <1>2, AdvanceType DEF StoreAndReturn, Stage

LEMMA NoLookupType == NoLookup \in Lookup
  BY ResolverConstants DEF NoLookup, Lookup

LEMMA LandType ==
    ASSUME ResolverType, NEW k \in FlightKeys, NEW from, Land(k, from)
    PROVE  ResolverType'
  <1>1. NoFlight \in Flight
    BY ResolverConstants, NoReportType DEF NoFlight, Flight, Stage
  <1> QED BY <1>1, NoLookupType DEF Land, ResolverType

LEMMA ResolverTypeStep == ResolverType /\ [ResolverNext]_resolverVars => ResolverType'
  <1> SUFFICES ASSUME ResolverType, [ResolverNext]_resolverVars
               PROVE  ResolverType'
    OBVIOUS
  <1>1. ASSUME NEW c \in Callers, NEW o \in Options, Lead(c, o) \/ Join(c, o)
        PROVE  ResolverType'
    <2>1. lookup' \in [Callers -> Lookup] /\ cache' = cache
      BY <1>1, NoReportType DEF Lead, Join, Calling, ResolverType, Lookup
    <2>2. flight' \in [FlightKeys -> Flight]
      <3>1. o.maxAge \in 0 .. MaxTolerance
        BY ResolverConstants DEF Option
      <3> QED BY <1>1, <3>1, NoReportType, KeyType DEF Lead, Join, ResolverType, Flight, Stage
    <2> QED BY <2>1, <2>2 DEF ResolverType
  <1>2. ASSUME NEW k \in FlightKeys, Fly(k)
        PROVE  ResolverType'
    <2>0. cache.rep \in DomainReport /\ flight[k].rep \in DomainReport /\ (~k.skip) \in BOOLEAN
          /\ cache \in Entry
      BY SkipType DEF ResolverType, Entry, Flight
    <2>1. CASE CacheHit(k)
      <3>1. [cache.rep EXCEPT !.hit = TRUE] \in DomainReport
        BY <2>0 DEF DomainReport
      <3> QED BY <2>0, <2>1, <3>1, AdvanceType DEF CacheHit, Stage
    <2>2. CASE CacheMiss(k) \/ CacheExpired(k)
      BY <2>0, <2>2, AdvanceType, NoReportType DEF CacheMiss, CacheExpired, Fetch, Stage
    <2>3. CASE Evict(k)
      <3>1. cache' \in Entry
        BY <2>0, <2>3, NoReportType, ResolverConstants DEF Evict, NoEntry, Entry
      <3> QED BY <2>3, <3>1, AdvanceType, NoReportType DEF Evict, Fetch, Stage
    <2>4. CASE RdapNo(k)
      BY <2>0, <2>4, StoreType, FetchedType DEF RdapNo, Tristate
    <2>5. CASE RdapUndecided(k)
      <3>1. CASE WhoisConfigured
        BY <2>0, <2>5, <3>1, AdvanceType DEF RdapUndecided, Stage
      <3>2. CASE ~WhoisConfigured
        BY <2>0, <2>5, <3>2, StoreType, FetchedType DEF RdapUndecided, Tristate
      <3> QED BY <3>1, <3>2
    <2>6. CASE RdapCancelled(k)
      BY <2>0, <2>6, AdvanceType, NoReportType DEF RdapCancelled, Stage
    <2>7. ASSUME NEW given \in BOOLEAN, NEW r \in Tristate, Whois(k, r, given)
          PROVE  ResolverType'
      BY <2>0, <2>7, StoreType, FetchedType DEF Whois
    <2>8. ASSUME NEW given \in BOOLEAN, RdapYes(k, given)
          PROVE  ResolverType'
      BY <2>0, <2>8, StoreType, FetchedType DEF RdapYes, Tristate
    <2>9. CASE Finish(k) \/ Fail(k)
      BY <2>9, LandType DEF Finish, Fail
    <2> QED
      BY <1>2, <2>1, <2>2, <2>3, <2>4, <2>5, <2>6, <2>7, <2>8, <2>9 DEF Fly
  <1>4. CASE ResolverTick
    <2>1. cache' \in Entry
      BY <1>4, OlderType, ResolverConstants DEF ResolverTick, ResolverType, Entry
    <2>2. flight' \in [FlightKeys -> Flight]
      <3>1. ASSUME NEW k \in FlightKeys
            PROVE  [flight[k] EXCEPT !.rep = Older(@)] \in Flight
        BY OlderType DEF ResolverType, Flight
      <3> QED BY <1>4, <3>1 DEF ResolverTick, ResolverType
    <2> QED BY <1>4, <2>1, <2>2 DEF ResolverTick, ResolverType
  <1>5. CASE UNCHANGED resolverVars
    BY <1>5 DEF resolverVars, ResolverType
  <1> QED BY <1>1, <1>2, <1>4, <1>5 DEF ResolverNext

LEMMA ResolverTypeInit == ResolverInit => ResolverType
  BY NoReportType, NoLookupType, ResolverConstants
     DEF ResolverInit, NoEntry, NoFlight, ResolverType, Entry, Flight, Stage

(* The entry, the flights and the calls are always well formed.            *)
THEOREM ResolverTypeCorrect == ResolverSpec => []ResolverTypeOK
  <1>1. ResolverType => ResolverTypeOK
    BY ResolverConstants DEF ResolverType, ResolverTypeOK, Entry, Flight, Lookup, Stage
  <1> QED BY <1>1, ResolverTypeInit, ResolverTypeStep, PTL DEF ResolverSpec
---------------------------------------------------------------------------

(* The second look of Memory.Get: a live entry survives every step.        *)
THEOREM LiveEntryAlwaysKept == ResolverSpec => LiveEntryKept
  <1>1. ASSUME [ResolverNext]_resolverVars
        PROVE  [Unexpired => cache'.stored]_resolverVars
    <2> SUFFICES ASSUME ResolverNext, Unexpired
                 PROVE  cache'.stored
      BY <1>1
    <2>1. CASE UNCHANGED cache
      BY <2>1 DEF Unexpired
    <2>2. ASSUME NEW k \in FlightKeys, Evict(k)
          PROVE  cache'.stored
      BY <2>2 DEF Evict, Unexpired
    <2>3. ASSUME NEW k \in FlightKeys, NEW from, NEW rep, StoreAndReturn(k, from, rep)
          PROVE  cache'.stored
      BY <2>3 DEF StoreAndReturn, store
    <2>4. CASE ResolverTick
      BY <2>4 DEF ResolverTick, Unexpired
    <2> QED
      BY <2>1, <2>2, <2>3, <2>4
         DEF ResolverNext, Lead, Join, Calling, Fly, CacheHit, CacheMiss, CacheExpired,
             RdapNo, RdapYes, RdapUndecided, RdapCancelled, Whois, Finish, Fail, Land
  <1> QED BY <1>1, PTL DEF ResolverSpec, LiveEntryKept
---------------------------------------------------------------------------

(* What is cached and what a flight will hand out carries all it was       *)
(* given; only a caller's own copy is filtered.                            *)
Whole(rep) == rep.contacts <=> rep.given

(* A flight that is still fetching has no hit; one that was answered from  *)
(* the cache holds a report its leader tolerates, under a key that is      *)
(* shared only with callers that tolerate a cached one.  What it fetched   *)
(* itself is what its key asks for.                                        *)
FlightTrue(k, f) ==
    /\ Whole(f.rep)
    /\ f.stage # "finish" => ~f.rep.hit
    /\ f.stage # "none" => (k.fresh <=> f.maxAge = 0)
    /\ f.rep.hit => f.maxAge > 0 /\ f.rep.age <= f.maxAge
    /\ f.stage = "finish" /\ ~f.rep.hit /\ ~k.skip => f.rep.referred
    /\ f.stage \in {"consult", "evict"} => ~k.fresh

FlightsTrue == \A k \in FlightKeys : FlightTrue(k, flight[k])

(* Do runs in its leader's goroutine: the caller whose MaxAge a flight has *)
(* waits for it to land.                                                   *)
Led(k) == \E d \in Waiting(k) : lookup[d].opt.maxAge = flight[k].maxAge

AllLed == \A k \in FlightKeys : flight[k].stage # "none" => Led(k)

CacheTrue == cache.stored => Whole(cache.rep) /\ ~cache.rep.hit

ResolverInv == ResolverType /\ CacheTrue /\ FlightsTrue /\ AllLed

(* A step of a flight keeps what it was started with.                      *)
LEMMA AdvanceTrue ==
    ASSUME ResolverInv, NEW k \in FlightKeys, NEW from \in Stage \ {"none"}, NEW to,
           NEW rep, Advance(k, from, to, rep), CacheTrue', ResolverType',
           Whole(rep),
           to # "finish" => ~rep.hit,
           rep.hit => flight[k].maxAge > 0 /\ rep.age <= flight[k].maxAge,
           to = "finish" /\ ~rep.hit /\ ~k.skip => rep.referred,
           to = "evict" => from = "consult",
           to # "consult"
    PROVE  ResolverInv'
  <1>1. /\ flight'[k] = [stage |-> to, maxAge |-> flight[k].maxAge, rep |-> rep]
        /\ \A j \in FlightKeys \ {k} : flight'[j] = flight[j]
        /\ lookup' = lookup
    BY DEF Advance, ResolverInv, ResolverType
  <1>2. FlightTrue(k, flight[k]) /\ flight[k].stage = from
    BY DEF Advance, ResolverInv, FlightsTrue
  <1>3. FlightTrue(k, flight'[k])
    BY <1>1, <1>2 DEF FlightTrue
  <1>4. FlightsTrue'
    BY <1>1, <1>3 DEF ResolverInv, FlightsTrue
  <1>5. AllLed'
    BY <1>1, <1>2 DEF ResolverInv, AllLed, Led, Waiting
  <1> QED BY <1>4, <1>5 DEF ResolverInv

LEMMA NoReportTrue == Whole(NoReport) /\ ~NoReport.hit
  BY DEF NoReport, Whole

(* What lookupOnce makes of an answer is cached whole and returned whole.  *)
LEMMA StoreTrue ==
    ASSUME ResolverInv, ResolverType', NEW k \in FlightKeys, NEW from \in {"rdap", "whois"},
           NEW r, NEW b, NEW given, ~k.skip => b,
           StoreAndReturn(k, from, Fetched(k, r, b, given))
    PROVE  ResolverInv'
  <1> DEFINE rep == Fetched(k, r, b, given)
  <1>1. Whole(rep) /\ ~rep.hit /\ (~k.skip => rep.referred)
    BY DEF Fetched, Whole
  <1>2. Advance(k, from, "finish", rep) /\ cache'.rep = rep
    BY DEF StoreAndReturn, store
  <1> HIDE DEF rep
  <1>3. CacheTrue'
    BY <1>1, <1>2 DEF CacheTrue
  <1> QED BY <1>1, <1>2, <1>3, AdvanceTrue DEF Stage

(* Landing takes a flight and its callers away.                            *)
LEMMA LandTrue ==
    ASSUME ResolverInv, ResolverType', NEW k \in FlightKeys, Finish(k) \/ Fail(k)
    PROVE  ResolverInv'
  <1>0. /\ flight'[k] = NoFlight
        /\ \A j \in FlightKeys \ {k} : flight'[j] = flight[j]
        /\ cache' = cache
        /\ \A c \in Callers : c \notin Waiting(k) => lookup'[c] = lookup[c]
    BY DEF Finish, Fail, Land, ResolverInv, ResolverType
  <1>1. CacheTrue'
    BY <1>0 DEF ResolverInv, CacheTrue
  <1>2. FlightsTrue'
    <2>1. FlightTrue(k, NoFlight)
      BY NoReportTrue DEF FlightTrue, NoFlight
    <2> QED BY <1>0, <2>1 DEF ResolverInv, FlightsTrue
  <1>3. AllLed'
    <2> SUFFICES ASSUME NEW j \in FlightKeys, flight'[j].stage # "none"
                 PROVE  Led(j)'
      BY DEF AllLed
    <2>1. j # k /\ flight'[j] = flight[j]
      BY <1>0 DEF NoFlight
    <2>2. PICK d \in Waiting(j) : lookup[d].opt.maxAge = flight[j].maxAge
      BY <2>1 DEF ResolverInv, AllLed, Led
    <2>3. d \in Callers /\ d \notin Waiting(k)
      BY <2>1, <2>2 DEF Waiting
    <2>4. lookup'[d] = lookup[d]
      BY <1>0, <2>3
    <2> QED BY <2>1, <2>2, <2>4 DEF Led, Waiting
  <1> QED BY <1>1, <1>2, <1>3 DEF ResolverInv

LEMMA FlyTrue ==
    ASSUME ResolverInv, ResolverType', NEW k \in FlightKeys, Fly(k)
    PROVE  ResolverInv'
  <1>0. /\ cache.rep \in DomainReport /\ flight[k].rep \in DomainReport
        /\ flight[k].maxAge \in Nat
        /\ CacheTrue /\ FlightTrue(k, flight[k])
    BY ResolverConstants DEF ResolverInv, ResolverType, Entry, Flight, FlightsTrue
  <1>1. UNCHANGED cache => CacheTrue'
    BY <1>0 DEF CacheTrue
  <1>2. CASE CacheHit(k)
    <2> DEFINE rep == [cache.rep EXCEPT !.hit = TRUE]
    <2>1. /\ rep.given = cache.rep.given /\ rep.contacts = cache.rep.contacts
          /\ rep.age = cache.rep.age /\ rep.hit
      BY <1>0 DEF DomainReport
    <2>2. Whole(rep)
      BY <1>0, <1>2, <2>1 DEF CacheHit, Unexpired, CacheTrue, Whole
    <2>3. rep.age <= flight[k].maxAge /\ flight[k].maxAge > 0
      <3>1. flight[k].stage = "consult" /\ cache.rep.age <= flight[k].maxAge
        BY <1>2 DEF CacheHit, Tolerable, Advance
      <3> QED BY <1>0, <2>1, <3>1 DEF FlightTrue
    <2> HIDE DEF rep
    <2>4. Advance(k, "consult", "finish", rep) /\ CacheTrue'
      BY <1>1, <1>2 DEF CacheHit, rep
    <2> QED BY <2>1, <2>2, <2>3, <2>4, AdvanceTrue DEF Stage
  <1>3. ASSUME NEW from \in {"consult", "evict"}, Fetch(k, from), CacheTrue'
        PROVE  ResolverInv'
    BY <1>3, AdvanceTrue, NoReportTrue DEF Fetch, Stage
  <1>4. CASE CacheMiss(k)
    BY <1>1, <1>3, <1>4 DEF CacheMiss
  <1>5. CASE CacheExpired(k)
    BY <1>1, <1>5, AdvanceTrue, NoReportTrue DEF CacheExpired, Stage
  <1>6. CASE Evict(k)
    <2>1. CacheTrue'
      BY <1>0, <1>6 DEF Evict, CacheTrue, NoEntry
    <2> QED BY <1>3, <1>6, <2>1 DEF Evict
  <1>7. CASE RdapNo(k)
    BY <1>7, StoreTrue DEF RdapNo
  <1>8. ASSUME NEW given \in BOOLEAN, RdapYes(k, given)
        PROVE  ResolverInv'
    BY <1>8, StoreTrue DEF RdapYes
  <1>9. CASE RdapUndecided(k)
    <2>1. CASE WhoisConfigured
      <3>1. Advance(k, "rdap", "whois", flight[k].rep) /\ CacheTrue'
        BY <1>1, <1>9, <2>1 DEF RdapUndecided
      <3>2. Whole(flight[k].rep) /\ ~flight[k].rep.hit
        BY <1>0, <3>1 DEF Advance, FlightTrue
      <3> QED BY <3>1, <3>2, AdvanceTrue DEF Stage
    <2>2. CASE ~WhoisConfigured
      BY <1>9, <2>2, StoreTrue DEF RdapUndecided
    <2> QED BY <2>1, <2>2
  <1>10. CASE RdapCancelled(k)
    BY <1>1, <1>10, AdvanceTrue, NoReportTrue DEF RdapCancelled, Stage
  <1>11. ASSUME NEW given \in BOOLEAN, NEW r \in Tristate, Whois(k, r, given)
         PROVE  ResolverInv'
    BY <1>11, StoreTrue DEF Whois
  <1>12. CASE Finish(k) \/ Fail(k)
    BY <1>12, LandTrue
  <1> QED
    BY <1>2, <1>4, <1>5, <1>6, <1>7, <1>8, <1>9, <1>10, <1>11, <1>12 DEF Fly

LEMMA ResolverInvStep == ResolverInv /\ [ResolverNext]_resolverVars => ResolverInv'
  <1> SUFFICES ASSUME ResolverInv, [ResolverNext]_resolverVars
               PROVE  ResolverInv'
    OBVIOUS
  <1>0. ResolverType /\ ResolverType' /\ CacheTrue /\ FlightsTrue /\ AllLed
    BY ResolverTypeStep DEF ResolverInv
  <1>1. ASSUME NEW c \in Callers, NEW o \in Options, Lead(c, o) \/ Join(c, o)
        PROVE  ResolverInv'
    <2>0. /\ lookup[c].stage = "idle" /\ cache' = cache
          /\ lookup'[c] = [stage |-> "waiting", opt |-> o]
          /\ \A d \in Callers \ {c} : lookup'[d] = lookup[d]
      BY <1>0, <1>1 DEF Lead, Join, Calling, ResolverType
    <2>1. CacheTrue'
      BY <1>0, <2>0 DEF CacheTrue
    <2>2. ASSUME NEW k \in FlightKeys, flight'[k] = flight[k]
          PROVE  FlightTrue(k, flight'[k]) /\ (flight'[k].stage # "none" => Led(k)')
      <3>1. ASSUME NEW d \in Waiting(k)
            PROVE  lookup'[d] = lookup[d]
        BY <2>0, <3>1 DEF Waiting
      <3> QED BY <1>0, <2>2, <3>1 DEF FlightsTrue, AllLed, Led, Waiting
    <2>3. CASE Join(c, o)
      BY <1>0, <2>1, <2>2, <2>3 DEF Join, ResolverInv, FlightsTrue, AllLed
    <2>4. CASE Lead(c, o)
      <3> DEFINE f == [stage |-> IF o.maxAge > 0 THEN "consult" ELSE "rdap",
                       maxAge |-> o.maxAge, rep |-> NoReport]
                 key == flightKey(o)
      <3>1. o.maxAge \in Nat
        BY ResolverConstants DEF Option
      <3>2. key.fresh <=> o.maxAge = 0
        BY DEF flightKey
      <3>3. FlightTrue(key, f)
        BY <3>1, <3>2, NoReportTrue DEF FlightTrue
      <3>4. /\ flight'[key] = f
            /\ \A k \in FlightKeys \ {key} : flight'[k] = flight[k]
        BY <1>0, <2>4, KeyType DEF Lead, ResolverType
      <3>5. f.maxAge = o.maxAge
        OBVIOUS
      <3> HIDE DEF f
      <3>6. Led(key)'
        BY <2>0, <3>4, <3>5 DEF Led, Waiting
      <3>7. \A k \in FlightKeys : FlightTrue(k, flight'[k]) /\ (flight'[k].stage # "none" => Led(k)')
        BY <2>2, <3>3, <3>4, <3>6
      <3> QED BY <1>0, <2>1, <3>7 DEF ResolverInv, FlightsTrue, AllLed
    <2> QED BY <1>1, <2>3, <2>4
  <1>2. ASSUME NEW k \in FlightKeys, Fly(k)
        PROVE  ResolverInv'
    BY <1>0, <1>2, FlyTrue
  <1>4. CASE ResolverTick
    <2>1. CacheTrue'
      <3>1. cache.rep \in DomainReport
        BY <1>0 DEF ResolverType, Entry
      <3> QED BY <1>0, <1>4, <3>1, OlderType DEF ResolverTick, CacheTrue, Whole
    <2>2. ASSUME NEW k \in FlightKeys
          PROVE  /\ FlightTrue(k, flight'[k])
                 /\ flight'[k].stage = flight[k].stage /\ flight'[k].maxAge = flight[k].maxAge
      <3>1. FlightTrue(k, flight[k]) /\ flight[k] \in Flight
        BY <1>0 DEF FlightsTrue, ResolverType
      <3>2. CASE ~Fetching(k)
        BY <1>4, <3>1, <3>2 DEF ResolverTick
      <3>3. CASE Fetching(k)
        <4>1. flight[k].rep \in DomainReport
          BY <3>1 DEF Flight
        <4>2. /\ flight'[k].stage = flight[k].stage /\ flight'[k].maxAge = flight[k].maxAge
              /\ flight'[k].rep = Older(flight[k].rep)
          BY <1>4, <3>1, <3>3 DEF ResolverTick, Flight
        <4>3. ~flight[k].rep.hit /\ flight[k].stage \in {"rdap", "whois"}
          BY <3>1, <3>3 DEF Fetching, FlightTrue
        <4> QED BY <3>1, <4>1, <4>2, <4>3, OlderType DEF FlightTrue, Whole
      <3> QED BY <3>2, <3>3
    <2>3. AllLed'
      BY <1>0, <1>4, <2>2 DEF ResolverTick, AllLed, Led, Waiting
    <2> QED BY <1>0, <2>1, <2>2, <2>3 DEF ResolverInv, FlightsTrue
  <1>5. CASE UNCHANGED resolverVars
    BY <1>0, <1>5 DEF resolverVars, ResolverInv, CacheTrue, FlightsTrue, AllLed, Led, Waiting
  <1> QED BY <1>1, <1>2, <1>4, <1>5 DEF ResolverNext

LEMMA ResolverInvInit == ResolverInit => ResolverInv
  <1> SUFFICES ASSUME ResolverInit
               PROVE  ResolverInv
    OBVIOUS
  <1>1. ResolverType /\ CacheTrue
    BY ResolverTypeInit DEF ResolverInit, NoEntry, CacheTrue
  <1>2. FlightsTrue /\ AllLed
    BY NoReportTrue DEF ResolverInit, NoFlight, FlightsTrue, FlightTrue, AllLed
  <1> QED BY <1>1, <1>2 DEF ResolverInv

LEMMA ResolverInvariant == ResolverSpec => []ResolverInv
  BY ResolverInvInit, ResolverInvStep, PTL DEF ResolverSpec

(* What a caller is handed is its flight's report but for its own filter.  *)
LEMMA HandedIs ==
    ASSUME ResolverType, NEW k \in FlightKeys, NEW c \in Waiting(k)
    PROVE  /\ c \in Callers /\ lookup[c].opt \in Options
           /\ k.fresh = (lookup[c].opt.maxAge = 0) /\ k.skip = lookup[c].opt.skip
           /\ Handed(k, c).given = flight[k].rep.given
           /\ Handed(k, c).contacts = (flight[k].rep.contacts /\ lookup[c].opt.contacts)
           /\ Handed(k, c).referred = flight[k].rep.referred
           /\ Handed(k, c).hit = flight[k].rep.hit
           /\ Handed(k, c).age = flight[k].rep.age
  <1>1. c \in Callers /\ lookup[c].opt \in Options /\ flight[k].rep \in DomainReport
    BY DEF Waiting, ResolverType, Lookup, Flight
  <1>2. k = [fresh |-> lookup[c].opt.maxAge = 0, skip |-> lookup[c].opt.skip]
    BY DEF Waiting, flightKey
  <1> QED BY <1>1, <1>2 DEF Handed, applyOptions, DomainReport

(* For any callers and options: no entity a query was given is kept from a *)
(* caller that asked for contacts, and a full lookup that is not answered  *)
(* from the cache is answered by a query that followed the referral.       *)
THEOREM ContactsAlwaysKept == ResolverSpec => []ContactsKept
  <1>1. ResolverInv => ContactsKept
    <2> SUFFICES ASSUME ResolverInv, NEW k \in FlightKeys, flight[k].stage = "finish",
                        NEW c \in Waiting(k)
                 PROVE  /\ lookup[c].opt.contacts => (Handed(k, c).contacts <=> Handed(k, c).given)
                        /\ ~lookup[c].opt.skip /\ ~Handed(k, c).hit => Handed(k, c).referred
      BY DEF ContactsKept
    <2>1. FlightTrue(k, flight[k]) /\ ResolverType
      BY DEF ResolverInv, FlightsTrue
    <2> QED BY <2>1, HandedIs DEF FlightTrue, Whole
  <1> QED BY <1>1, ResolverInvariant, PTL

(* For any tolerances: a caller that forces a fetch is never handed a      *)
(* cached report, and nobody one that no caller of its flight tolerates.   *)
THEOREM ToleranceRespected == ResolverSpec => []CacheTolerated
  <1>1. ResolverInv => CacheTolerated
    <2> SUFFICES ASSUME ResolverInv, NEW k \in FlightKeys, flight[k].stage = "finish",
                        NEW c \in Waiting(k), Handed(k, c).hit
                 PROVE  /\ lookup[c].opt.maxAge > 0
                        /\ \E d \in Waiting(k) : Handed(k, c).age <= lookup[d].opt.maxAge
      BY DEF CacheTolerated
    <2>1. FlightTrue(k, flight[k]) /\ ResolverType /\ Led(k)
      BY DEF ResolverInv, FlightsTrue, AllLed
    <2>2. flight[k].rep.hit /\ Handed(k, c).age = flight[k].rep.age
      BY <2>1, HandedIs
    <2>3. lookup[c].opt.maxAge > 0
      <3>1. lookup[c].opt \in Option /\ k.fresh = (lookup[c].opt.maxAge = 0)
        BY <2>1, HandedIs, ResolverConstants
      <3>2. lookup[c].opt.maxAge \in Nat
        BY <3>1, ResolverConstants DEF Option
      <3>3. ~k.fresh
        <4>1. flight[k].maxAge > 0 /\ (k.fresh <=> flight[k].maxAge = 0)
          BY <2>1, <2>2 DEF FlightTrue
        <4>2. flight[k].maxAge \in Nat
          BY <2>1, ResolverConstants DEF ResolverType, Flight
        <4>3. flight[k].maxAge # 0
          BY <4>1, <4>2
        <4> QED BY <4>1, <4>3
      <3>4. lookup[c].opt.maxAge # 0
        BY <3>1, <3>3
      <3> QED BY <3>2, <3>4
    <2>4. PICK d \in Waiting(k) : lookup[d].opt.maxAge = flight[k].maxAge
      BY <2>1 DEF Led
    <2> QED BY <2>1, <2>2, <2>3, <2>4 DEF FlightTrue
  <1> QED BY <1>1, ResolverInvariant, PTL
=============================================================================
