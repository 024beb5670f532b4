----------------------------- MODULE NetLookup -----------------------------
(***************************************************************************)
(* LookupResource and RawResource of internal/resolve/netlookup.go: an     *)
(* address, prefix or autonomous system number is answered from the cache  *)
(* or by the RIR the registry names (QueryResource of rdapx/netquery.go),  *)
(* concurrent lookups of one resource sharing a flight, while the registry *)
(* is refreshed.                                                           *)
(*                                                                         *)
(* A request wants a "report" (LookupResource) or the "raw" body           *)
(* (RawResource) of a resource [family, kind, num, ones], where num is the *)
(* number the caller typed and ones the mask of a prefix, no older than    *)
(* maxAge.  Time is counted in ticks; an answer is the base that gave it.  *)
(***************************************************************************)
EXTENDS NetRegistry, Upstream

CONSTANTS
    Requests,       \* what callers may ask: [want, res, maxAge]
    NonPublic,      \* addresses for which netguard.BlockReason gives a reason
    TTLNet, TTLRaw,
    MaxQuery        \* bound: the ticks one query of the RIRs may take

ASSUME NetLookupConstants ==
    /\ {TTLNet, TTLRaw} \subseteq Nat /\ MaxQuery \in Nat
    /\ Requests # {}
    /\ \A q \in Requests :
           /\ q.want \in {"report", "raw"} /\ q.maxAge \in Nat
           /\ \/ q.res.kind = "asn" /\ q.res.family = "asn" /\ q.res.num \in 0 .. MaxASN
              \/ /\ q.res.kind \in {"ip", "prefix"} /\ q.res.family \in {"v4", "v6"}
                 /\ q.res.num \in Addresses

VARIABLES
    stored,         \* stored[k]: the cache entry under key k
    leader,         \* leader[k]: who runs the flight of key k, or Nobody
    call,           \* call[c]: the lookup c is in
    attached        \* attached[c]: c's context is not done

lookupVars == <<stored, leader, call, attached>>

netVars == <<netregVars, lookupVars>>

Nobody == "nobody"

NoAnswer == [host |-> "none", https |-> FALSE]

NoEntry == [base |-> NoAnswer, age |-> 0, ttl |-> 0]

(* Of a prefix the network it names, of any other resource its number.     *)
Network(res) ==
    IF res.kind = "prefix"
    THEN LET host == 2 ^ (Width - res.ones) IN (res.num \div host) * host
    ELSE res.num

(* Resource.String: a prefix is named by its network address.              *)
String(res) == <<res.family, res.kind, Network(res), res.ones>>

KeyOf(req) == <<req.want, String(req.res)>>

Keys == {KeyOf(q) : q \in Requests}

(* left: the bases still to ask; age: since lookupResourceOnce read the    *)
(* clock.                                                                  *)
Call(stage, req, left, age, answer) ==
    [stage |-> stage, req |-> req, left |-> left, age |-> age, answer |-> answer]

NoCall == Call("idle", CHOOSE q \in Requests : TRUE, <<>>, 0, NoAnswer)

NetLookupInit ==
    /\ stored = [k \in Keys |-> NoEntry]
    /\ leader = [k \in Keys |-> Nobody]
    /\ call = [c \in Callers |-> NoCall]
    /\ attached = [c \in Callers |-> TRUE]

Key(c) == KeyOf(call[c].req)

Res(c) == call[c].req.res

At(c, stage) == call[c].stage = stage

Goto(c, stage) ==
    call' = [call EXCEPT ![c] = Call(stage, @.req, @.left, @.age, @.answer)]

---------------------------------------------------------------------------
(* The cache is asked first, by each caller with its own tolerance.        *)

Ask(c, req) ==
    /\ At(c, "idle")
    /\ call' = [call EXCEPT ![c] = Call("check", req, <<>>, 0, NoAnswer)]
    /\ UNCHANGED <<stored, leader, attached>>

Tolerable(c) ==
    /\ call[c].req.maxAge > 0
    /\ stored[Key(c)] # NoEntry /\ stored[Key(c)].age <= call[c].req.maxAge

CheckHit(c) ==
    /\ At(c, "check") /\ Tolerable(c)
    /\ call' = [call EXCEPT ![c] = Call("done", @.req, @.left, @.age, stored[Key(c)].base)]
    /\ UNCHANGED <<stored, leader, attached>>

(* A raw lookup goes straight on; a report goes through the flight.        *)
CheckMiss(c) ==
    /\ At(c, "check") /\ ~Tolerable(c)
    /\ Goto(c, IF call[c].req.want = "raw" THEN "query" ELSE "fly")
    /\ UNCHANGED <<stored, leader, attached>>

Lead(c) ==
    /\ At(c, "fly") /\ leader[Key(c)] = Nobody
    /\ leader' = [leader EXCEPT ![Key(c)] = c]
    /\ Goto(c, "query")
    /\ UNCHANGED <<stored, attached>>

Join(c) ==
    /\ At(c, "fly") /\ leader[Key(c)] # Nobody
    /\ Goto(c, "wait")
    /\ UNCHANGED <<stored, leader, attached>>

---------------------------------------------------------------------------
(* Everybody in the flight is handed what its leader returned.             *)

Flight(c) ==
    {c} \cup {w \in Callers : leader[Key(c)] = c /\ At(w, "wait") /\ Key(w) = Key(c)}

Land(c, stage, answer) ==
    /\ leader' = [k \in Keys |-> IF leader[k] = c THEN Nobody ELSE leader[k]]
    /\ call' = [w \in Callers |->
           IF w \notin Flight(c) THEN call[w]
           ELSE Call(stage, call[w].req, <<>>, 0, answer)]

Fail(c) == Land(c, "failed", NoAnswer) /\ UNCHANGED <<stored, attached>>

---------------------------------------------------------------------------
(* QueryResource.                                                          *)

(* The address that was typed is looked at, not the network asked about;   *)
(* an autonomous system number has no address to refuse.                   *)
Blocked(res) == res.kind # "asn" /\ res.num \in NonPublic

Bases(res) ==
    IF res.kind = "asn" THEN LookupASN(netreg["asn"], res.num)
    ELSE LookupIP(netreg[res.family], res.num)

(* Non-public or unclaimed: no upstream is touched.                        *)
Unclaimed(c) ==
    /\ At(c, "query") /\ (Blocked(Res(c)) \/ Bases(Res(c)) = <<>>)
    /\ Fail(c)

(* Mutant: private space is only refused when no entry covers it.          *)
ClaimedPrivate(c) ==
    /\ At(c, "query") /\ Bases(Res(c)) # <<>>
    /\ call' = [call EXCEPT ![c] = Call("ask", @.req, Bases(Res(c)), @.age, @.answer)]
    /\ UNCHANGED <<stored, leader, attached>>

Claimed(c) ==
    /\ At(c, "query") /\ ~Blocked(Res(c)) /\ Bases(Res(c)) # <<>>
    /\ call' = [call EXCEPT ![c] = Call("ask", @.req, Bases(Res(c)), @.age, @.answer)]
    /\ UNCHANGED <<stored, leader, attached>>

Asking(c) == At(c, "ask") /\ call[c].left # <<>>

NextBase(c) ==
    /\ call' = [call EXCEPT ![c] = Call("ask", @.req, Tail(@.left), @.age, @.answer)]
    /\ UNCHANGED <<stored, leader, attached>>

(* A bad URL, or our own policy: the context is not looked at.             *)
BaseSkipped(c) == Asking(c) /\ NextBase(c)

BaseFailed(c) == Asking(c) /\ attached[c] /\ NextBase(c)

BaseCancelled(c) == Asking(c) /\ ~attached[c] /\ Fail(c)

(* Mutant: the end of the list is only handled for a caller still there.   *)
BasesExhaustedAttached(c) == At(c, "ask") /\ call[c].left = <<>> /\ attached[c] /\ Fail(c)

BasesExhausted(c) == At(c, "ask") /\ call[c].left = <<>> /\ Fail(c)

(* An object of another kind, or for RawResource an empty body.            *)
AnswerUseless(c) == Asking(c) /\ Fail(c)

(* The report is as old as its query, the raw body is stamped afterwards.  *)
StoreAnswer(c) ==
    stored' = [stored EXCEPT ![Key(c)] =
        IF call[c].req.want = "raw" THEN [base |-> call[c].left[1], age |-> 0, ttl |-> TTLRaw]
        ELSE [base |-> call[c].left[1], age |-> call[c].age, ttl |-> TTLNet]]

Answered(c) ==
    /\ Asking(c)
    /\ StoreAnswer(c)
    /\ Land(c, "done", call[c].left[1])
    /\ UNCHANGED attached

---------------------------------------------------------------------------

CancelCaller(c) ==
    /\ At(c, "ask") /\ attached[c]
    /\ attached' = [attached EXCEPT ![c] = FALSE]
    /\ UNCHANGED <<stored, leader, call>>

Leave(c) ==
    /\ call[c].stage \in {"done", "failed"}
    /\ call' = [call EXCEPT ![c] = NoCall]
    /\ attached' = [attached EXCEPT ![c] = TRUE]
    /\ UNCHANGED <<stored, leader>>

(* An entry past its expiry is as good as absent.                          *)
Older(e) ==
    IF e = NoEntry \/ e.ttl = 0 THEN NoEntry ELSE [base |-> e.base, age |-> e.age + 1, ttl |-> e.ttl - 1]

Querying(c) == call[c].stage \in {"query", "ask"}

NetTick ==
    /\ \A c \in Callers : Querying(c) => call[c].age < MaxQuery
    /\ stored' = [k \in Keys |-> Older(stored[k])]
    /\ call' = [c \in Callers |->
           LET q == call[c]
           IN IF Querying(c) THEN Call(q.stage, q.req, q.left, q.age + 1, q.answer) ELSE q]
    /\ UNCHANGED <<leader, attached>>

Proceed(c) ==
    /\ \/ CheckHit(c) \/ CheckMiss(c) \/ Lead(c) \/ Join(c)
       \/ Unclaimed(c) \/ Claimed(c)
       \/ BaseSkipped(c) \/ BaseFailed(c) \/ BaseCancelled(c) \/ BasesExhausted(c)
       \/ AnswerUseless(c) \/ Answered(c)
    /\ UNCHANGED netregVars

NetInit == NetRegistryInit /\ NetLookupInit

NetNext ==
    \/ \E c \in Callers : Proceed(c)
    \/ \E c \in Callers :
          /\ \/ \E q \in Requests : Ask(c, q)
             \/ CancelCaller(c) \/ Leave(c)
          /\ UNCHANGED netregVars
    \/ NetTick /\ UNCHANGED netregVars
    \/ NetRefresh /\ UNCHANGED lookupVars

(* Every exchange has a deadline of its own.                               *)
NetFairness == \A c \in Callers : WF_netVars(Proceed(c))

NetSpec == NetInit /\ [][NetNext]_netVars /\ NetFairness

---------------------------------------------------------------------------

(* Who holds a resource according to the entries of a document: of the     *)
(* address typed the longest prefix, of a number any range that covers it, *)
(* of a non-public address nobody.                                         *)
Holders(res, entries) ==
    LET covering == {i \in DOMAIN entries : IF res.kind = "asn" THEN Covers(entries[i].key, res.num)
                                            ELSE InPrefix(entries[i].key, res.num)}
        holding == IF res.kind = "asn" THEN covering
                   ELSE {i \in covering : \A j \in covering : entries[j].key.ones <= entries[i].key.ones}
    IN IF Blocked(res) THEN {} ELSE UNION {ToSet(entries[i].bases) : i \in holding}

HoldersOf ==
    [res \in {q.res : q \in Requests} |->
        UNION {Holders(res, entries) : entries \in Accepted[res.family]}]

(* "answering from the broader one returns the wrong registry's data,      *)
(* which looks like a correct answer" (netregistry.go:227): every base a   *)
(* caller goes on to ask holds, by some accepted document, the address or  *)
(* number that was typed, and a caller who typed a non-public address asks *)
(* nobody.  Whoever is quoted, from the cache or another caller's flight,  *)
(* was so asked about a resource with the same name: for an address or a   *)
(* number one of its holders.  The name of a prefix is its network, and so *)
(* is what the RIR is asked about (requestFor), so of a prefix it may be   *)
(* the holder of another address in it, and the network may be one that is *)
(* not public: neither is checked by the code.                             *)
AnsweredByHolder ==
    \A c \in Callers :
        /\ ToSet(call[c].left) \subseteq HoldersOf[Res(c)]
        /\ At(c, "done") =>
               \E res \in DOMAIN HoldersOf :
                   String(res) = String(Res(c)) /\ call[c].answer \in HoldersOf[res]

(* Every lookup ends, whoever's context ran the flight and however the     *)
(* RIRs fail.                                                              *)
EveryResourceReturns ==
    \A c \in Callers : At(c, "check") ~> call[c].stage \in {"done", "failed"}
=============================================================================
