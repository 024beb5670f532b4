------------------------------ MODULE Resolver ------------------------------
(***************************************************************************)
(* Resolver.Lookup of internal/resolve/resolver.go over the cache of       *)
(* internal/cache/cache.go, for one domain: concurrent callers with their  *)
(* own options, collapsed into flights that share one upstream query, and  *)
(* the cached report all flights read and write.                           *)
(*                                                                         *)
(* A report's age is the ticks since its FetchedAt, counted just past the  *)
(* largest tolerance a caller can have; an entry's left is the ticks until *)
(* it expires, -1 once it has (now.After(expiresAt)).  What the RDAP and   *)
(* WHOIS clients answer is an input.                                       *)
(***************************************************************************)
EXTENDS Integers

CONSTANTS
    Callers,            \* goroutines calling Lookup for this domain
    Options,            \* the Options they call it with
    MaxTolerance,       \* bound: the largest MaxAge among them, in ticks
    MaxFetch,           \* bound: ticks one fetch takes; all it asks has a timeout
    TTLRegistered, TTLUnregistered, TTLUnknown,     \* the TTL policy
    WhoisConfigured     \* the resolver has a WHOIS client

Option == [maxAge : 0 .. MaxTolerance, contacts : BOOLEAN, skip : BOOLEAN]

(* WithTTLPolicy refuses a policy that is not valid and ordered.           *)
ASSUME ResolverConstants ==
    /\ MaxTolerance \in Nat /\ MaxFetch \in Nat
    /\ Options # {} /\ Options \subseteq Option
    /\ TTLUnknown \in Nat \ {0}
    /\ TTLUnregistered \in Nat /\ TTLUnregistered >= TTLUnknown
    /\ TTLRegistered \in Nat /\ TTLRegistered >= TTLUnregistered
    /\ WhoisConfigured \in BOOLEAN

VARIABLES
    cache,      \* the entry under cacheKey: a report and the time it has left
    flight,     \* flight[k]: the lookupOnce under way for flight key k, with the
                \* MaxAge of the caller that runs it
    lookup      \* lookup[c]: the call of Lookup that c is in

resolverVars == <<cache, flight, lookup>>

Tristate == {"yes", "no", "unknown"}

(* referred: the query was one that follows the referral to the registrar; *)
(* given: its answer had entities; contacts: the report carries them;      *)
(* hit: Source.Cache.                                                      *)
DomainReport ==
    [registered : Tristate, referred : BOOLEAN, given : BOOLEAN, contacts : BOOLEAN,
     age : 0 .. MaxTolerance + 1, hit : BOOLEAN]

NoReport ==
    [registered |-> "unknown", referred |-> FALSE, given |-> FALSE, contacts |-> FALSE,
     age |-> 0, hit |-> FALSE]

(* Mutant: a forced fetch shares the flight of a cache-tolerant caller.    *)
flightKeyNoAge(o) == [fresh |-> FALSE, skip |-> o.skip]

flightKey(o) == [fresh |-> o.maxAge = 0, skip |-> o.skip]

FlightKeys == {flightKey(o) : o \in Options}

NoEntry == [stored |-> FALSE, rep |-> NoReport, left |-> -1]

NoFlight == [stage |-> "none", maxAge |-> 0, rep |-> NoReport]

NoLookup == [stage |-> "idle", opt |-> CHOOSE o \in Options : TRUE]

ResolverInit ==
    /\ cache = NoEntry
    /\ flight = [k \in FlightKeys |-> NoFlight]
    /\ lookup = [c \in Callers |-> NoLookup]

---------------------------------------------------------------------------
(* Lookup, up to r.flight.Do.                                              *)

Calling(c, o) ==
    /\ lookup[c].stage = "idle"
    /\ lookup' = [lookup EXCEPT ![c] = [stage |-> "waiting", opt |-> o]]
    /\ UNCHANGED cache

(* Nobody is flying under this key: c runs lookupOnce with its own options *)
(* and its own context.  MaxAge 0 skips the cache and fetches at once.     *)
Lead(c, o) ==
    /\ flight[flightKey(o)].stage = "none"
    /\ Calling(c, o)
    /\ flight' = [flight EXCEPT ![flightKey(o)] =
                      [stage |-> IF o.maxAge > 0 THEN "consult" ELSE "rdap",
                       maxAge |-> o.maxAge, rep |-> NoReport]]

(* Somebody is: c waits for that result.                                   *)
Join(c, o) ==
    /\ flight[flightKey(o)].stage # "none"
    /\ Calling(c, o)
    /\ UNCHANGED flight

---------------------------------------------------------------------------
(* lookupOnce.                                                             *)

Advance(k, from, to, rep) ==
    /\ flight[k].stage = from
    /\ flight' = [flight EXCEPT ![k] = [stage |-> to, maxAge |-> @.maxAge, rep |-> rep]]
    /\ UNCHANGED lookup

(* A fetch starts: fetchedAt is now.                                       *)
Fetch(k, from) == Advance(k, from, "rdap", NoReport)

Unexpired == cache.stored /\ cache.left >= 0

Tolerable(k) == cache.rep.age <= flight[k].maxAge

CacheHit(k) ==
    /\ Unexpired /\ Tolerable(k)
    /\ Advance(k, "consult", "finish", [cache.rep EXCEPT !.hit = TRUE])
    /\ UNCHANGED cache

CacheMiss(k) ==
    /\ ~cache.stored \/ (Unexpired /\ ~Tolerable(k))
    /\ Fetch(k, "consult")
    /\ UNCHANGED cache

(* Get found an expired entry under the read lock ...                      *)
CacheExpired(k) ==
    /\ cache.stored /\ ~Unexpired
    /\ Advance(k, "consult", "evict", NoReport)
    /\ UNCHANGED cache

(* Mutant: no second look.                                                 *)
EvictBlindly(k) ==
    /\ Fetch(k, "evict")
    /\ cache' = NoEntry

(* ... and looks again under the write lock before it deletes.             *)
Evict(k) ==
    /\ Fetch(k, "evict")
    /\ cache' = IF Unexpired THEN cache ELSE NoEntry

(* TTLPolicy.For.                                                          *)
For(r) ==
    CASE r = "yes" -> TTLRegistered
      [] r = "no" -> TTLUnregistered
      [] OTHER -> TTLUnknown

(* Mutant: the report is filtered before it is cached.                     *)
storeFiltered(rep) ==
    cache' = [stored |-> TRUE, rep |-> [rep EXCEPT !.contacts = FALSE], left |-> For(rep.registered)]

store(rep) == cache' = [stored |-> TRUE, rep |-> rep, left |-> For(rep.registered)]

(* The report made of the answer, cached and returned from lookupOnce.     *)
Fetched(k, r, referred, given) ==
    [registered |-> r, referred |-> referred, given |-> given, contacts |-> given,
     age |-> flight[k].rep.age, hit |-> FALSE]

StoreAndReturn(k, from, rep) == Advance(k, from, "finish", rep) /\ store(rep)

RdapNo(k) == StoreAndReturn(k, "rdap", Fetched(k, "no", ~k.skip, FALSE))

(* The record has entities or none, of the registry's own or, where the    *)
(* referral is followed, of the registrar's.                               *)
RdapYes(k, given) == StoreAndReturn(k, "rdap", Fetched(k, "yes", ~k.skip, given))

(* No RDAP service for the TLD, or no definite answer from it: the WHOIS   *)
(* path, or an unknown report where there is none.                         *)
RdapUndecided(k) ==
    IF WhoisConfigured
    THEN Advance(k, "rdap", "whois", flight[k].rep) /\ UNCHANGED cache
    ELSE StoreAndReturn(k, "rdap", Fetched(k, "unknown", ~k.skip, FALSE))

(* ctx of the leading caller is done while RDAP is being asked.            *)
RdapCancelled(k) ==
    /\ Advance(k, "rdap", "failed", NoReport)
    /\ UNCHANGED cache

(* viaWHOIS turns every failure, a cancelled ctx included, into unknown;   *)
(* it knows no SkipRegistrarReferral, and shows the contacts it parsed     *)
(* whatever the text was classified as.                                    *)
Whois(k, r, given) == StoreAndReturn(k, "whois", Fetched(k, r, TRUE, given))

---------------------------------------------------------------------------
(* The flight lands: Lookup returns to every caller under its key a copy,  *)
(* filtered by that caller's own options.                                  *)

applyOptions(rep, o) == [rep EXCEPT !.contacts = @ /\ o.contacts]

Waiting(k) == {c \in Callers : lookup[c].stage = "waiting" /\ flightKey(lookup[c].opt) = k}

(* What c is about to be handed.                                           *)
Handed(k, c) == applyOptions(flight[k].rep, lookup[c].opt)

Land(k, from) ==
    /\ flight[k].stage = from
    /\ lookup' = [c \in Callers |-> IF c \in Waiting(k) THEN NoLookup ELSE lookup[c]]
    /\ flight' = [flight EXCEPT ![k] = NoFlight]
    /\ UNCHANGED cache

Finish(k) == Land(k, "finish")

(* Mutant: a failed flight is cleared and its callers are not told.        *)
FailSilently(k) ==
    /\ flight[k].stage = "failed"
    /\ flight' = [flight EXCEPT ![k] = NoFlight]
    /\ UNCHANGED <<cache, lookup>>

(* They are handed the leader's error.                                     *)
Fail(k) == Land(k, "failed")

---------------------------------------------------------------------------

Older(rep) == [rep EXCEPT !.age = IF @ <= MaxTolerance THEN @ + 1 ELSE @]

Fetching(k) == flight[k].stage \in {"rdap", "whois"}

ResolverTick ==
    /\ \A k \in FlightKeys : Fetching(k) => flight[k].rep.age < MaxFetch
    /\ cache' = [stored |-> cache.stored, rep |-> Older(cache.rep),
                 left |-> IF cache.left >= 0 THEN cache.left - 1 ELSE -1]
    /\ flight' = [k \in FlightKeys |->
                     IF Fetching(k) THEN [flight[k] EXCEPT !.rep = Older(@)]
                     ELSE flight[k]]
    /\ UNCHANGED lookup

Fly(k) ==
    \/ CacheHit(k) \/ CacheMiss(k) \/ CacheExpired(k) \/ Evict(k)
    \/ RdapNo(k) \/ RdapUndecided(k) \/ RdapCancelled(k)
    \/ \E given \in BOOLEAN : RdapYes(k, given) \/ \E r \in Tristate : Whois(k, r, given)
    \/ Finish(k) \/ Fail(k)

ResolverNext ==
    \/ \E c \in Callers, o \in Options : Lead(c, o) \/ Join(c, o)
    \/ \E k \in FlightKeys : Fly(k)
    \/ ResolverTick

(* Every upstream exchange runs under a timeout, so a flight keeps moving. *)
ResolverFairness == \A k \in FlightKeys : WF_resolverVars(Fly(k))

ResolverSpec == ResolverInit /\ [][ResolverNext]_resolverVars /\ ResolverFairness

---------------------------------------------------------------------------

(* The entry, the flights and the calls are well formed.                   *)
ResolverTypeOK ==
    /\ cache \in [stored : BOOLEAN, rep : DomainReport, left : -1 .. TTLRegistered]
    /\ flight \in [FlightKeys ->
                      [stage : {"none", "consult", "evict", "rdap", "whois", "finish", "failed"},
                       maxAge : 0 .. MaxTolerance, rep : DomainReport]]
    /\ lookup \in [Callers -> [stage : {"idle", "waiting"}, opt : Option]]

(* Sharing a flight costs a caller nothing.  Whoever led it and whoever    *)
(* filled the cache, a caller that asked for contacts gets every entity    *)
(* the query was given (applyOptions filters copies only); and one that    *)
(* wants the registrar's data is not handed the answer of an availability  *)
(* check's flight, "one would get the other's answer"                      *)
(* (singleflight_test.go:75).  The cache may still hand it one: cacheKey   *)
(* does not tell the two apart.                                            *)
ContactsKept ==
    \A k \in FlightKeys : flight[k].stage = "finish" =>
        \A c \in Waiting(k) :
            /\ lookup[c].opt.contacts => (Handed(k, c).contacts <=> Handed(k, c).given)
            /\ ~lookup[c].opt.skip /\ ~Handed(k, c).hit => Handed(k, c).referred

(* A reader that found an expired entry never deletes the fresh one that   *)
(* replaced it meanwhile (the second look in Memory.Get).                  *)
LiveEntryKept == [][Unexpired => cache'.stored]_resolverVars

(* Nobody is left waiting on a flight: every call of Lookup returns, its   *)
(* own or its leader's failure included.                                   *)
EveryLookupReturns ==
    \A c \in Callers : lookup[c].stage = "waiting" ~> lookup[c].stage # "waiting"

(* "a caller asking for a fresh fetch is not handed a cached one that      *)
(* another caller was content with" (resolver.go:113): with MaxAge 0 a     *)
(* caller is handed no hit, whatever flight it joins; the others are       *)
(* handed none older than one of the callers they share the flight with    *)
(* tolerates.  That is all: flightKey folds the tolerances above zero, so  *)
(* the stricter of two callers may be handed the laxer one's.              *)
CacheTolerated ==
    \A k \in FlightKeys : flight[k].stage = "finish" =>
        \A c \in Waiting(k) : Handed(k, c).hit =>
            /\ lookup[c].opt.maxAge > 0
            /\ \E d \in Waiting(k) : Handed(k, c).age <= lookup[d].opt.maxAge
=============================================================================
