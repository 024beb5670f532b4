# Verification of whois-mcp

TLA+ models of whois-mcp, an MCP server that answers questions about domains,
addresses and autonomous systems from RDAP and WHOIS: how it treats the
registries it calls (`internal/ratelimit`), whom it lets in and for how long
(`internal/auth`, `cmd/whois-mcp`), how it finds and reads an answer
(`internal/rdapx`, `internal/whois`, `internal/normalize`), and how concurrent
lookups share upstream queries and cached answers (`internal/resolve`,
`internal/cache`). TLC checks small instances; TLAPS proves every safety property
the passing runs check for all values of the constants, so that only liveness
rests on TLC alone.

## The system

| Component | State it keeps | Operations | Interacts with | What makes it correct |
|---|---|---|---|---|
| Circuit breaker (`ratelimit/breaker.go`) | per host: closed, open or half-open, failure and success counts, end of the cooldown, probe slot | `Allow`, the release function, `OpenHosts` | called by the guard, polled for the gauge | the probe slot is never leaked, counters fit the state, nobody is refused for ever |
| Rate limiter (`ratelimit/ratelimit.go`) | per host: token bucket, pause, failure count | `Acquire`, `Observe` | called by the guard | a pause is honoured and capped, each token serves one call |
| Guard (`ratelimit/guard.go`) | none of its own | `Do` | breaker, limiter, the upstream | releases once on every path; only real outcomes count |
| Session store (`auth/session.go`) | sessions, refresh records | `Create`, `IssueRefresh`, `Rotate`, `Revoke` | authorization server, admin tools | one chain of one-time tokens per session, dead once revoked |
| Authorization server (`auth/oauthsrv.go`, `authcode.go`, `token.go`, `denylist.go`, `verifier.go`) | codes, denylist; access tokens live with clients | authorize, token, revoke, verification | session store, enrollment, keys | a code or token is exchanged once; revocation takes effect within one access-token lifetime |
| Enrollment (`auth/enrollment.go`) | failures and lockout per source | `Verify` | authorize endpoint | the lock is what the failures have earned, and runs out |
| Signing keys (`auth/keys.go`) | the key of this process, configured or generated (`Rotate` and `Retire` are called by tests only) | `NewKeyring`, `Verifier` | token issue and verification | a restart keeps the tokens of the same configured key and URL, and no others |
| Scope gate and tools (`auth/scopegate.go`, `mcpsrv`) | none | one decision per request | bearer middleware, handlers | a tool runs only for its scope |
| Resolver and cache (`resolve/resolver.go`, `ttl.go`, `cache/cache.go`) | flights, one report per domain | `Lookup`, `Get`, `Set` | RDAP and WHOIS clients, tools | a caller gets what its options ask for; every call returns |
| Availability batch (`resolve/availability.go`) | semaphore, result slots | `CheckAvailability` | resolver | one result per name, in order, also when cancelled |
| Network lookups (`resolve/netlookup.go`, `raw.go`, `rdapx/netquery.go`) | flights, cached reports and bodies | `LookupResource`, `RawResource` | number registries, guard | whoever is quoted holds the resource |
| WHOIS client (`whois/*.go`) | discovery cache | `Query`, `Host` | guard, network | the referral chain is bounded; an answer is never lost; failures are not cached |
| RDAP client (`rdapx/client.go`) | none | `QueryWithOptions` | bootstrap, guard, registrar | every base is tried; only an explicit "does not exist" becomes a "no" |
| Registries (`rdapx/bootstrap.go`, `netregistry.go`) | TLD map with ETag; prefixes and AS ranges | `Refresh`, `Lookup`, `LookupIP`, `LookupASN` | refresh loops of the command | a failed refresh keeps the last good data; the most specific entry wins |
| Parsers and normalization (`whois/parsers`, `normalize`) | none | `Parse`, `Classify`, `FromWHOIS`, `FromRDAP` | resolver | what was said is reported, placeholders are not, guesses are owned up to |
| Command (`cmd/whois-mcp`) | the process | start, stop, refresh loops, gauges | everything | documented precedence; never open off the host |
| Observability, form, packaging | nothing that is read back | | | |

The hard behaviour is concurrency: goroutines interleave inside `Guard.Do`
between the breaker's lock, the limiter's lock, the bucket and the upstream;
HTTP requests interleave between the store, the code store, the denylist and
the signer, none of which share a lock, and around a hash between two critical
sections of the lockout; lookups share flights and cache entries although they
asked for different things, over registries that are replaced while they read.
Failure enters as timeouts and cancelled contexts, lost answers that are
retried, servers that refuse or contradict one another, files refreshed in
part, and restarts that lose everything held in memory.

## Modules

| Module | Models |
|---|---|
| `Upstream` | the goroutines that share one upstream host or one fetch |
| `Breaker` | `breaker.go` for one host key, with `Allow` and the release as atomic steps (each holds `b.mu`) |
| `Gauges` | `publishGauges` beside the breaker it polls |
| `Limiter` | the state and the operations of `ratelimit.go` for one host key |
| `Guard` | `Guard.Do`: extends both; a caller's stage `pc[c]` follows `Do` and `Acquire` line by line, one action per lock or blocking call |
| `GuardHistory` | history variables over `Guard`: the streak of failed calls, who was past the pause check |
| `SessionStore` | `MemoryStore`, one action per method outcome |
| `TokenFamily` | the abstract promise: one chain of one-time refresh tokens per session |
| `AuthServer` | the endpoints over the store: enrollment, code exchange, refresh, revocation, denylist, restart; one action per step between locks |
| `AuthHistory` | history over `AuthServer`: time since revocation, denylisting, late mints |
| `Enrollment` | `Verify`: admission, the hash, the booking of its outcome |
| `Startup` | pure: listen address, exposure gate, `buildAuth`'s checks |
| `Keyring` | the key a start loads or generates, `Mint` and `Verify` |
| `Access` | pure: scope gate, its buffer, the handlers' own check |
| `Server` | the process: extends the three above; start, requests, stop, restart, a change of configuration |
| `Resolver` | `Lookup` with its flights and the cached report of one domain |
| `Batch` | `CheckAvailability`: goroutines, slots, cancellation, deadlines |
| `BootstrapFile`, `Bootstrap` | the TLD map, its ETag and `Refresh` |
| `RdapQuery` | `QueryWithOptions`: the loop over bases and the registrar hop; extends `Bootstrap` |
| `WhoisClassify`, `WhoisQuery` | the verdict on a response; discovery and the referral chain |
| `DomainQuery` | the fetch of `lookupOnce`: extends `RdapQuery` and `WhoisQuery` |
| `NetRegistry` | prefixes and AS ranges, their lookups and the refresh of three files |
| `NetLookup` | `LookupResource`, `RawResource` and `QueryResource`; extends `NetRegistry` |
| `WhoisParse` | the line loop of `Parse`, `promote`, `score` |
| `Report` | `FromWHOIS` and `FromRDAP`; extends `WhoisParse` |
| `GuardProofs`, `AuthProofs`, `ServerProofs`, `ResolverProofs`, `BatchProofs`, `QueryProofs`, `NetProofs`, `ReportProofs` | theorems and proofs; `ServerProofs` holds those of `Server` and of `Enrollment` |
| `MC...` | one instance for TLC per run |

Operators named after a defect (`AfterFailureKeepsSlot`, `ConsumeKept`, ...) are
mutants: plausible bugs that stand next to the definition they would replace.
Each property of a passing run has one that breaks it; no specification uses
them.

### How state corresponds to the code

*Instants* are kept as ticks left until them, so no clock needs a bound.
`brk.openFor` is `openUntil - now`, `pause` is `pauses[key] - now`, both cut at 0
because the code only asks `Before`. Sessions, codes, tokens and cache entries
also distinguish the instant itself, because `After` and `Before` are mixed
there: positive is before, 0 is at, -1 is past, and -2 (`Absent`) is no entry.
A method's clock read and its critical section are one step.

*One key.* Breaker, limiter and resolver state is per host or per domain, in
maps whose entries never touch one another, so one key is modelled.

*Breaker.* `brk` is the `breakerState` record; `grant[c]` is a release function
that was handed out and not called. `failures` stops at the threshold, the only
value it is compared with.

*Limiter.* One tick is the time in which the bucket earns one token. The bucket
is `golang.org/x/time/rate`, modelled from its use: `Reserve` takes a token and
owes it if there is none; `Cancel` returns it only while its instant is ahead
and it is the last reservation. Callers that give up out of order therefore run
up a debt only time repays, and `MaxDebt` bounds it. A Retry-After is a number
of ticks up to `MaxAsk`, larger than the cap; backoff is any delay up to the
ceiling (full jitter). Outcomes are the five kinds `healthy` and `Observe` tell
apart; a port-43 success has status 0 and no error, so `Observe` counts it as a
failure while `healthy` does not.

*Authorization server.* `req[r]` is what an HTTP request has left to do.
Credentials are drawn from finite sets, each once, as random ones are. One tick
is a second, the resolution of `exp`. `access[s]` is the newest access token of
a session: an older one is accepted only if the newest is. The enrollment
secret is taken as accepted, and the checks `Consume` makes on client, redirect
and verifier are one nondeterministic failure. `Restart` loses everything in
memory; the signing key survives when `WHOIS_MCP_SIGNING_KEY` is set
(`KeyConfigured`).

*Resolver.* `flight[k]` is the `lookupOnce` under way for a flight key, `cache`
the entry under the one cache key. A report keeps what callers can tell apart:
the answer, whether its query was one that follows the referral to the registrar
(`referred`), whether it was given entities (`given`) and still carries them
(`contacts`), its age and whether it was a hit. The answers of RDAP and WHOIS
are inputs. `Delete` and `Sweep` of the cache have no caller.

*Bootstrap and RDAP.* A document is an ETag, whether it parses, and its services;
`byTLD` is what `load` makes of it. `rdap[c]` is one call of `QueryWithOptions`:
the bases still to try are its own copy, as `Lookup` gives it. A domain object is
the number of its entities, whose list they are, and, per member, who supplied
it. The registrar hop replaces the list of entities when the registrar has more
(`client.go:296`), so `RegistryDataKept` says that the list stays as it is or
becomes a longer one of the registrar's, and that a member keeps its supplier.

*WHOIS.* A response is the phrases found in it and the referral it names; a name
is a spelling of a server, with or without a port. `raw` is the text a call keeps
and `by` the server that sent it; a reply of no bytes keeps both, any other replaces
both. `ianaSaid` is history. The truth about the domain is a variable: `Honest`
says that bare record fields are shown only for a registered domain and a bare
denial of the shared list only for a free one. Footers, refusals and error pages
may hold any phrase of the shared lists, and any text may hold a phrase by which
some template decides (`denies`, `confirms`), its own server's included: the words
of the templates are generic.

*Numbers.* Addresses have `Width` bits. `sort.Slice` is not stable, so a loaded
AS family is any sorted order. In `NetLookup` an answer is the base URL that gave
it and time is ticks; a prefix keeps the address that was typed, which
`QueryResource` looks up, while `String`, the cache and flight key, has its
network address; a report's age counts from before its query, a raw body's
from after it, as the code stamps them. `Blocked` looks at the typed address, as
the code does, while the request carries the network.

*Parsing.* A line is what `splitLine` and `continuationValues` can tell apart; a
value is a word and how it is capitalised; label tables, date layouts and host
names are constants, and so are the two lists of markers: `WhoisMarkers`
(`synonyms.go`) and `RdapMarkers` (`fromrdap.go`), which differ. Confidence is
computed in sixths of a hundredth, and an exact half rounds either way because the
code rounds floating point.

*Enrollment.* Times are ages; `now` of an attempt is how long ago it read the
clock under the first lock. A duration has `Width` bits and wraps; the shift of the
backoff stops at `MaxShift`. `burst` is history.

*Process.* A configuration is a record of the six listener settings and the four
of authentication; `Setup` is what is left of it once the process is up. A URL is
a scheme, a host and a port, and `LooksLocal` the hosts whose text begins like a
local one, which is what `requireHTTPSOffLoopback` tests. `Interfaces` stands for
the kernel: from where a socket bound to a host is reached. `Reconfigure` is the
operator changing the configuration of a stopped process. A tick is the resolution
of `exp`. Of a token `own` and `under` are history: whether the running process
minted it, and with which configured key.

## Runs

| Run | Instance | Shows |
|---|---|---|
| `breaker` | 3 callers, threshold 3, cooldown 2, 2 probes, the poller; 1.4 k states | `ProbeSlotHeld`, `CountersMatchState` and `NotRefusedForever` in every order of admissions and releases; `RecoveryShown` of the gauge |
| `guard` | 3 callers, threshold 2, burst 1, debt 2, pauses to 2 ticks; 1.1 M states | `ReleasedOnce`, `SlotsDistinct`, `OnlyEarlierCallsDuringPause`, and that `Do` refines the breaker (`RefinesBreaker`) |
| `auth` | 2 sessions, 3 tokens, 2 requests, lifetimes of 1 tick, key kept; 517 k states | `RevokedIsDead`, `OneCredential`; the server implements `TokenFamily` (`RefinesFamily`); a session that ran out is never extended (`SilenceEndsSession`); `DenyOutlivesTokens` and `RevocationBounded`, across restarts |
| `enrollment` | 2 sources, 3 attempts, threshold 2, locks of 2 then 3 ticks in durations of 4 bits, window 5, hashes to 1 tick; 450 k states | `LockMatchesFailures`, `BurstBounded`, `LocksRunOut` |
| `resolver` | 2 callers: full lookups, forced or tolerant of 1 or 2 ticks, with or without contacts, and the availability check; TTLs 2/1/1; 212 k states | `CacheTolerated`, `ContactsKept`, `LiveEntryKept`, `EveryLookupReturns` |
| `batch` | every list of up to 5 names over two names, a second spelling and a blank; 4 kept, 2 slots, deadline 2; 177 k states | `Aligned`, `BatchBounded`, `BatchReturns` |
| `query` | 1 caller asking again and again, 2 TLDs, documents good, useless and garbled, 3 servers in 4 spellings, 3 hops; 436 k states | `LearnedFromIana` (`MapOfItsDocument`, `CacheIsIanas`), `AllBasesTried`, `NothingLost` (`RegistryDataKept`, `AnswerNeverErased`), `ReportTrue`, `EveryQueryEnds` |
| `network` | 2 callers: reports of one block typed by addresses of two holders and by a private one, and the raw body of an AS number, with three bits; a snapshot of four AS ranges; three families refreshed and failing; 303 k states | `FamiliesKept`, `LookupsMostSpecific` (`LongestPrefixWins`, `RangesFound`), `AnsweredByHolder`, `EveryResourceReturns` |
| `report` | responses of up to four lines of sixteen kinds, and of 0 to 6 core fields with 0 to 17 unknown labels, with and without a template; RDAP objects of a few entities and events; 890 k states | `ParsedAsStated`, `MarkersNeverReported`, `ConfidenceHonest` |
| `server` | 103 680 configurations; 4 keys, 2 of them the operator's, 1 token of 2 ticks; 353 k states | `ListenPrecedence`, `NeverOpenOffHost`, `ScopesHold`, `TokensFollowKey` |

The runs leave type invariants out: they are proved instead.

Two runs look for a disagreement between the code and what is written about it,
and find it:

- `guard_streak`: a call refused by the pause is released as a success and
  resets the failure count, so an upstream that answers 503 to every real call
  may never open the circuit. `breaker.go:12` and section 9 of the design say
  consecutive, sustained failures open it. By the same release a half-open
  circuit can close without an answer.
- `query_footer`: a record whose text holds a not-found phrase of its own server's
  template is reported as a free domain, because `Classify` reads the template
  (`notfound.go:113`) before it looks for record fields. The comment above it
  (`notfound.go:95`) says the order keeps a footer from doing this and that only a
  response without record fields is unregistered. `ReportTrue` states what remains:
  nothing but such a phrase makes a report the opposite of what is so.

### Smaller disagreements seen on the way

No run is kept for these; the models contain the behaviour.

- `record` frees the probe slot for whoever releases (`breaker.go:163`), so a
  call admitted while closed may let a second probe out beside the first;
  `breaker.go:48` says one at a time.
- A caller past `Acquire`'s pause check calls the host during a Retry-After
  another caller has just received; the repository's README (line 165) says it
  is honoured exactly. `OnlyEarlierCallsDuringPause` shows that nobody else does.
- A refresh that rotated before a revocation and mints after it hands out a token
  that outlives the denylist entry (`denylist.go:19` gives one lifetime).
  `RevocationBounded` excludes exactly this late mint.
- `flightKey` folds every positive `MaxAge` into one key, so the stricter of two
  callers may get a hit only the other accepts, although the key is there so that
  nobody is handed what "another caller was content with" (`resolver.go:113`).
  `CacheTolerated` says what holds with several tolerances: a forced fetch is
  never a hit, and a hit is within the tolerance of some caller of the flight.
- `QueryResource` picks the RIR, and refuses private space, by the address the
  caller typed before the slash (`netquery.go:144`), while the request carries the
  network (`netquery.go:211`, and `netquery.go:38` says so). Where part of a block
  was transferred, the block is asked about at the registry of the part, and the
  answer is cached under the network's name; a network that is not public is asked
  about when the typed address is. `AnsweredByHolder` is stated accordingly.
- The cache key ignores `SkipRegistrarReferral`: an availability check's report,
  without the registrar hop, answers a later full lookup. The flight keys are
  kept apart for this reason (`singleflight_test.go:75`).
- The gate cuts a body at 1 MiB and hands the rest of the chain the cut one,
  although `scopegate.go:50` says downstream must see the whole body.
- The help of `--listen` (`listen.go:40`) says it overrides `--address` and
  `--port`; the code and the comment of `resolveListen` have it the other way
  round, and `ListenPrecedence` is that comment.
- `--address` given empty is treated as not given, while its help text
  (`listen.go:42`) reads as if it bound all interfaces.
- `requireHTTPSOffLoopback` compares prefixes (`authsetup.go:213`): it lets a
  cleartext URL of a host named `localhost.elsewhere` pass and refuses one of
  127.0.0.2.
- The comment of `Rotate` (`keys.go:135`) describes publishing a key before
  retiring another; nothing in the program calls `Rotate` or `Retire`, and
  `DECISIONS.md:41` says rotation is a restart.
- `followRegistrarHop` replaces the list of entities, though its comment
  (`client.go:257`) says registry fields are never overwritten.
- Any later reply of at least one byte replaces the WHOIS text kept
  (`whois/client.go:135`), also one that says less; and when the last server falls
  silent, its template reads the text of an earlier one.
- The lists of redaction markers of the two protocols differ (`fromrdap.go:14`,
  `synonyms.go:208`), so a marker of one passes as a name in the other; and phone
  and country are not looked at, though `parse.go:219` speaks of any field.
- A registrar whose entity was emptied for redaction gets its vCard name back
  (`fromrdap.go:173`); `MarkersNeverReported` is about contacts.
- A response that yielded fields, none of them a core one, scores zero, while
  `parse.go:252` reserves zero for nothing found; `ConfidenceHonest` says what
  holds.
- A label a template maps to "" counts as unknown and lowers the confidence.
- A label in brackets needs no colon, so an indented one below a bare label is
  read as a line of its block and not as a field (`parse.go:145`);
  `ParsedAsStated` excludes such layouts (`Unambiguous`).
- A server spelled once with and once without its port is asked twice.
- A duplicate in a batch echoes the first spelling, not its own
  (`availability.go:114`); `Aligned` compares names, not spellings.
- The bearer middleware's clock skew never applies: `Issuer.Verify` has none.

### Bounds

Three callers are needed where two reservations are cancelled around a third
and where a late call meets two probes; two suffice elsewhere because every
property is about a pair. Thresholds of 2 and 3 separate "one" from "enough".
`MaxAsk` exceeds `MaxPause`, so the cap is exercised. Two sessions show that
revocation touches no other family; three tokens allow a rotation, a replay and
a successor. TTLs of 1 or 2 ticks reach every side of an expiry. Three attempts
exceed the lockout threshold, so a lock is booked over a lock; the window is the
smallest that `LockoutAssumption` allows. Four bits hold every lock the capped
shift can give and not the next doubling, so an uncapped one would wrap. Five names
exceed the batch limit, and four kept names exceed the slots. Two bases and three
hops separate the first, a middle and the last one; three documents let an ETag name
the wrong one. Three bits hold nested prefixes and adjacent ranges, and four ranges
fill the steps `LookupASN` goes back. Network answers are cached there for less than
a tick (`TTLNet = 0`) and queries take none (`MaxQuery = 0`): the age of an entry
against the caller's tolerance is a question of the `resolver` run. Two tolerances
above zero are what a flight folds. `query` has one caller because
calls share only the map and the discovery cache, both of which change under it
at any moment; `HostExpires` and `Refresh` are the other actors. Six core fields
are all there are, and 17 unknown labels exceed the cap of the penalty. In `server`
two keys are left for generated ones, so that two processes in a row can each
have its own; one token is enough because tokens do not touch one another.
Callers, tokens and requests are symmetric and no property names one; symmetry
is used only where no liveness is checked.

### Fairness

`BreakerFairness`: time passes, and each admitted call is released, because `Do`
releases on every path (`ReleasedOnce`, proved) and exchanges have deadlines.
The poller has a ticker. `GuardFairness`: a caller inside `Do` keeps going, for
sleeps are timers and mutexes are held for a few assignments.
`ResolverFairness`, `QueryFairness` and `NetFairness`: a lookup keeps moving,
because upstream calls run under timeouts. `EnrollFairness`: a hash ends and the
clock moves. `BatchFairness`: goroutines are scheduled and a lookup returns by
its deadline. Nothing obliges anyone to start a call, to cancel, to refresh or
to try a secret, and no outcome of a call is assumed.

## Proofs

Every theorem holds for all values of the constants the named assumptions allow.
The assumptions are in the modules that declare the constants, and TLC evaluates
each of them on the runs.

| Module | Theorems | State |
|---|---|---|
| `GuardProofs` | `BreakerTypeCorrect`, `ProbeSlotNeverLeaked`, `CountersAlwaysMatch` | the breaker's invariants |
| | `GuardImplementsBreaker`, `GuardNeverLeaksProbe` | `Do` refines the breaker, which carries `ProbeSlotHeld` over |
| | `GuardTypeCorrect`, `AlwaysReleasedOnce`, `SlotsNeverShared` | capped pauses, one release per call, one token per waiting caller |
| | `PauseStopsNewCalls` | `OnlyEarlierCallsDuringPause` |
| `AuthProofs` | `StoreRevocationIsFinal`, `RevocationIsFinal` | `RevokedIsDead`, of the store alone and through the endpoints |
| | `AuthTypeCorrect`, `SilenceIsFinal` | well-formed state; a session that ran out stays so (`SilenceEndsSession`) |
| | `OneChainPerSession`, `ServerImplementsFamily` | `OneCredential`, and that the server implements `TokenFamily` |
| | `DenylistOutlivesTokens`, `RevocationTakesEffect` | `DenyOutlivesTokens`, `RevocationBounded` |
| `ServerProofs` | `ServerTypeCorrect`, `OffHostAlwaysClosed`, `ListenAlwaysByPrecedence` | `NeverOpenOffHost` and `ListenPrecedence`, for every configuration |
| | `TokensAlwaysFollowKey`, `ScopesAlwaysHold` | `TokensFollowKey`, `ScopesHold` |
| | `EnrollTypeCorrect`, `LockAlwaysMatches`, `BurstAlwaysBounded` | the lockout |
| `ResolverProofs` | `ResolverTypeCorrect`, `LiveEntryAlwaysKept`, `ContactsAlwaysKept` | flights and the cache |
| | `ToleranceRespected` | `CacheTolerated`, for any tolerances |
| `BatchProofs` | `AnswerKeepsItsShape`, `BatchAlwaysBounded` | `Aligned`, `BatchBounded` |
| `QueryProofs` | `QueryInvariant`, `AlwaysLearnedFromIana`, `AllBasesAlwaysTried`, `NothingEverLost`, `ReportAlwaysTrue` | the domain query |
| `NetProofs` | `NetRegistryInvariant`, `FamiliesAlwaysKept`, `MostSpecificAlwaysFound`, `OnlyHoldersAnswer` | the number registries and their lookups |
| `ReportProofs` | `ReportInvariant`, `ParsedAlwaysAsStated`, `MarkersStayOut`, `ConfidenceAlwaysHonest` | parsing and normalization |

*Breaker.* `ProbeSlotHeld` and `CountersMatchState` hold together inductively
with the type invariant: a release in half-open that does not close leaves the
success count below the quota only because it was below it before, and the
slot's holder can be named only because a grant is given together with it.

*Guard.* `GuardImplementsBreaker` needs the type invariant alone: each action
either applies one breaker operation or leaves `brk` and `grant` unchanged, and
the breaker's theorem then carries over. `SlotsDistinct` is not inductive by
itself: a new reservation gets the slot `1 - tokens`, which is new only because
every outstanding wait is at most `-tokens` and at most `lastEvent`; a cancelled
one returns its token only when it is the last, which keeps that bound.
`ReleasedOnce` rests on the stage of every caller, and so does
`OnlyEarlierCallsDuringPause`: whoever is past the check while a pause runs was
noted when it was booked.

*Authorization server.* Each endpoint step is one store operation or none
(`StoreOperation`), so that what the store's own steps keep, the endpoints keep:
`SilenceIsFinal` follows once no exchangeable token outlives its session
(`WithinSession`). `OneCredential` is not inductive: `Chained` adds that a session
not created yet has no code, no exchange under way and no token (`AbsentUnused`).
The refinement of `TokenFamily` follows from it, because the mapping names *the*
current token (`CurrentIs`). The two statements about revocation need that a
denylist entry, and the time since the revocation, have at least as long to run as
any token not minted late (`RevocationInv`).

*Process.* `TokensAlwaysFollowKey` rests on `KeysInv`: every key that signed a live
token, and every key an operator made, is used (`KeysUsed`), so a generated key
signs no earlier token; a token of the running process has its key and URL, one of
an earlier process without a configured key has neither (`KeysInForce`).
`ScopesHold` and `NeverOpenOffHost` are invariants about the reply looked at
(`RepliesInv`), the second by comparing the gate's test of the host with what the
kernel makes of it (`GateReadsTheKernel`). `ListenPrecedence` quantifies over
settings, not states.

*Lockout.* `BackoffBounds` shows that the capped, wrapping shift of the code is the
doubling `LockMatchesFailures` compares with. It then needs that the clock an
attempt read is no older than a hash takes and that a hash is shorter than the
shortest lock (`LockoutAssumption`); `BurstBounded` accounts every admission to a
failure booked or an attempt still hashing (`Accounted`), which is where a finite
set of attempts is needed.

*Resolver.* `ResolverInv` says of each flight that its tolerance fits its key, that
a hit in it is one its leader tolerates and that its report is whole (`FlightTrue`),
and of the cache that it holds a whole report. For `CacheTolerated` it also needs
that the caller who leads a flight is among those waiting for it (`Led`).

*Batch.* `Aligned` needs who works for which position and that a result names the
input it was found for. For `BatchBounded`,
`PaceOK` says that while a round runs the rounds before it were full; the distinct
names are counted by a bijection between the positions that lead and the names.

*Domain query.* `QueryInv` joins `LearnedFromIana` with what is so of each call:
the bases an RDAP call tried and has left add up to the list it read, a verdict is
true, the text a WHOIS call keeps is an honest one (`KeptOK`), and a report that
contradicts the truth is of a text its last server's template misreads
(`MisreadBy`), which stays so because a call that has answered does not move
(`AnsweredStay`). `NothingLost` is an action property proved from it.

*Numbers.* `LookupIP`'s loop is a recursive function. Its closed form `Best` is
shown to be the loop and the only one, by a least counterexample, which needs no
induction rule. `LookupASN` steps back far enough because a covering range further back
would overlap every range passed over. That a family changes only to a usable
document of its own is the action part of `FamiliesKept`.
`OnlyHoldersAnswer` follows the bases from the registry into a call, the cache and
a flight (`NetHeld`): they hold what somebody typed under that key.

*Parsing.* With the loop at line i, the fields hold what the lines before i state
(`Recorded`), and no block begun before i reaches it (`Untouched`); the second is
what makes the first inductive, because a line's meaning depends on the lines
above it. The recursive function of `ReadBlock` is shown to exist, and its result
to be right, by least counterexamples. `ReportInv` ties a report to the parse it
was made of; `score` is then linear arithmetic over its sixths.

*Assumptions worth knowing.* `DoublingIsNatural` and `DoublingGrows` (powers of
two are natural numbers and grow) are there because the provers do not know
exponentiation. `ShiftAssumption` says that the longest shift fits a duration and
reaches the longest lock, as 2 s shifted by 20 does in 64 bits. `FamilyConstants`
and `ThumbprintAssumption` keep markers of the model apart from tokens and keys.
`BootstrapConstants`, `NetRegistryConstants`, `ReportConstants` and
`BatchAssumption` say that documents, responses and inputs are finite sequences of
well-formed entries, which is what the JSON decoder, `net.ParseCIDR`,
`parseASNRange` and a split into lines produce. The others give numbers their
ranges.

*Only model-checked:* liveness (`NotRefusedForever`, `RecoveryShown`,
`EveryLookupReturns`, `EveryQueryEnds`, `EveryResourceReturns`, `BatchReturns`,
`LocksRunOut`), which is outside what the prover does. The violations
are TLC's as well.

## Not modelled

- `RawRDAP`, `RawWHOIS`, `RawAuto`: the cache operations of `RawResource` on
  domains, in sequence, sharing nothing else.
- `NormalizeQuery`, date layouts, label tables, vCards, status codes, network
  reports: conversions of data without state or order.
- Transport: dialling, redirects, charset and read limits; an exchange is one step
  with its outcomes. The dialer hook of `netguard` sees addresses the system
  resolved.
- Request parsing of the OAuth endpoints, metadata and client registration, PKCE
  (an outcome of `Consume`), and cryptography: a token verifies exactly when it
  was minted with a key of the ring and has not expired.
- `session_list`, `tld_info`, metrics other than the breaker gauge, tracing, HTML,
  packaging: nothing in the program reads their state back.

## Plan

Every safety property of a passing run is proved. What is left is to keep it so,
and two things worth adding:

1. The layouts `ParsedAsStated` excludes, by a definition of a block that follows
   the loop.
2. The safety half of the liveness properties, such as bounds on the steps a query
   or a lookup has left.
