---------------------------- MODULE NetRegistry ----------------------------
(***************************************************************************)
(* NetRegistry of internal/rdapx/netregistry.go: which RIR serves an       *)
(* address or an autonomous system number, read by lookups while           *)
(* refreshNetBootstrap of cmd/whois-mcp replaces the three families from   *)
(* IANA's files, one after the other.                                      *)
(*                                                                         *)
(* Addresses are numbers of Width bits.  A key of a v4 or v6 service is a  *)
(* prefix [net, ones], of an asn service a range [lo, hi]; ok is FALSE for *)
(* one that does not parse.  Publication and load times are only reported. *)
(***************************************************************************)
EXTENDS Integers, SequencesExt, BootstrapFile

CONSTANTS
    Width,          \* bits of an address
    MaxASN,         \* the largest autonomous system number
    NetDocuments,   \* NetDocuments[f]: what IANA may publish for family f
    NetEmbedded     \* NetEmbedded[f]: the snapshot compiled into the binary

VARIABLES
    netreg,         \* netreg[f]: the entries of a family in use
    fromNetwork,
    netRefresh      \* the one Refresh under way: the file it is at, and errs

netregVars == <<netreg, fromNetwork, netRefresh>>

Families == {"v4", "v6", "asn"}

Addresses == 0 .. 2 ^ Width - 1

(* The entries of a document in the order of the file: malformed keys and  *)
(* cleartext services are skipped.                                         *)
EntriesOf(doc) ==
    FlattenSeq([i \in DOMAIN doc.services |->
        LET s == doc.services[i]
            keys == SelectSeq(s.keys, LAMBDA k : k.ok)
        IN IF preferHTTPS(s.urls) = <<>> THEN <<>>
           ELSE [j \in DOMAIN keys |-> [key |-> keys[j], bases |-> preferHTTPS(s.urls)]]])

UsableNet(doc) == doc.parses /\ EntriesOf(doc) # <<>>

(* sort.Slice is not stable: equal lower bounds end up in any order.       *)
SortedByLo(entries) ==
    LET n == Len(entries)
        orders == {p \in [1 .. n -> 1 .. n] :
                      /\ \A i, j \in 1 .. n : p[i] = p[j] => i = j
                      /\ \A i \in 1 .. n - 1 : entries[p[i]].key.lo <= entries[p[i + 1]].key.lo}
    IN {[i \in 1 .. n |-> entries[p[i]]] : p \in orders}

(* loadIP, loadASN: what a family may hold after the document was accepted.*)
Loaded(f, doc) == IF f = "asn" THEN SortedByLo(EntriesOf(doc)) ELSE {EntriesOf(doc)}

(* What net.ParseCIDR and parseASNRange let through, with its base URLs.   *)
WellFormed(f, entry) ==
    /\ entry.bases \in Seq(ToSet(entry.bases))
    /\ f # "asn" => entry.key.ones \in 0 .. Width
    /\ f = "asn" => /\ entry.key.lo \in Nat /\ entry.key.hi \in Nat
                    /\ entry.key.lo <= entry.key.hi

ASSUME NetRegistryConstants ==
    /\ Width \in Nat /\ MaxASN \in Nat
    /\ \A f \in Families :
           /\ UsableNet(NetEmbedded[f])
           /\ \A d \in NetDocuments[f] \cup {NetEmbedded[f]} : UsableNet(d) =>
                  /\ EntriesOf(d) \in Seq(ToSet(EntriesOf(d)))
                  /\ \A i \in DOMAIN EntriesOf(d) : WellFormed(f, EntriesOf(d)[i])

(* What a family holds from the snapshot, and what it may hold from any    *)
(* document that is accepted.                                              *)
Snapshots == [f \in Families |-> Loaded(f, NetEmbedded[f])]

Accepted ==
    [f \in Families |->
        Snapshots[f] \cup UNION {Loaded(f, d) : d \in {e \in NetDocuments[f] : UsableNet(e)}}]

NetRegistryInit ==
    /\ netreg \in [Families -> UNION {Snapshots[f] : f \in Families}]
    /\ \A f \in Families : netreg[f] \in Snapshots[f]
    /\ fromNetwork = FALSE
    /\ netRefresh = [at |-> "idle", errs |-> 0]

---------------------------------------------------------------------------
(* The two lookups; no bases means no RDAP service.                        *)

InPrefix(prefix, ip) ==
    LET host == 2 ^ (Width - prefix.ones) IN ip \div host = prefix.net \div host

(* Mutant: the first prefix that covers the address is taken.              *)
LookupIPFirst(services, ip) ==
    LET covering == SelectSeq(services, LAMBDA e : InPrefix(e.key, ip))
    IN IF covering = <<>> THEN <<>> ELSE covering[1].bases

(* One pass over all prefixes; a strictly longer one replaces the best.    *)
LookupIP(services, ip) ==
    LET best[i \in 0 .. Len(services)] ==
            IF i = 0 THEN [ones |-> -1, bases |-> <<>>]
            ELSE LET e == services[i] IN
                 IF InPrefix(e.key, ip) /\ e.key.ones > best[i - 1].ones
                 THEN [ones |-> e.key.ones, bases |-> e.bases] ELSE best[i - 1]
    IN best[Len(services)].bases

StepsBack == 4

Covers(range, asn) == range.lo <= asn /\ asn <= range.hi

(* Binary search for the first range that starts after the number, then at *)
(* most four ranges backwards.                                             *)
LookupASN(ranges, asn) ==
    LET i == Cardinality({k \in DOMAIN ranges : ranges[k].key.lo <= asn})
        found == {j \in DOMAIN ranges : j \in i + 1 - StepsBack .. i /\ Covers(ranges[j].key, asn)}
    IN IF found = {} THEN <<>> ELSE ranges[Max(found)].bases

---------------------------------------------------------------------------
(* Refresh: the files in turn, then the mark.                              *)

After(f) == CASE f = "v4" -> "v6" [] f = "v6" -> "asn" [] f = "asn" -> "mark"

RefreshNet ==
    /\ netRefresh.at = "idle"
    /\ netRefresh' = [at |-> "v4", errs |-> 0]
    /\ UNCHANGED <<netreg, fromNetwork>>

(* Mutant: without an answer the family falls back to the snapshot.        *)
FetchFailedFallsBack(f) ==
    /\ netRefresh.at = f
    /\ netRefresh' = [at |-> After(f), errs |-> netRefresh.errs + 1]
    /\ \E entries \in Snapshots[f] : netreg' = [netreg EXCEPT ![f] = entries]
    /\ UNCHANGED fromNetwork

(* fetchBootstrap: no answer, a status other than 200, or a cut body.      *)
FetchFailed(f) ==
    /\ netRefresh.at = f
    /\ netRefresh' = [at |-> After(f), errs |-> netRefresh.errs + 1]
    /\ UNCHANGED <<netreg, fromNetwork>>

(* A document that does not parse or yields nothing leaves the family be.  *)
FamilyRejected(f, doc) ==
    /\ netRefresh.at = f /\ ~UsableNet(doc)
    /\ netRefresh' = [at |-> After(f), errs |-> netRefresh.errs + 1]
    /\ UNCHANGED <<netreg, fromNetwork>>

FamilyLoaded(f, doc) ==
    /\ netRefresh.at = f /\ UsableNet(doc)
    /\ netRefresh' = [at |-> After(f), errs |-> netRefresh.errs]
    /\ \E entries \in Loaded(f, doc) : netreg' = [netreg EXCEPT ![f] = entries]
    /\ UNCHANGED fromNetwork

(* Refresh fails as a whole only when all three files did.                 *)
RefreshEnds ==
    /\ netRefresh.at = "mark"
    /\ netRefresh' = [at |-> "idle", errs |-> 0]
    /\ fromNetwork' = (fromNetwork \/ netRefresh.errs < 3)
    /\ UNCHANGED netreg

NetRefresh ==
    \/ RefreshNet \/ RefreshEnds
    \/ \E f \in Families :
          \/ FetchFailed(f)
          \/ \E d \in NetDocuments[f] : FamilyRejected(f, d) \/ FamilyLoaded(f, d)

---------------------------------------------------------------------------

(* At every moment each family holds what one accepted document says, and  *)
(* a registry that does not claim to be from the network holds the         *)
(* embedded snapshots once no refresh is under way.                        *)
FamiliesWhole ==
    \A f \in Families :
        /\ netreg[f] \in Accepted[f]
        /\ fromNetwork \/ netRefresh.at # "idle" \/ netreg[f] \in Snapshots[f]

(* "A failure on any one leaves that family's previous data in place"      *)
(* (netregistry.go:310): the data of a family gives way only to those of a *)
(* usable document of the same family, at its turn and with no error       *)
(* counted; whatever else happens, to this file or to the others, it is    *)
(* what it was, and never the snapshot again.                              *)
FamiliesKept ==
    /\ []FamiliesWhole
    /\ [][\A f \in Families : netreg'[f] # netreg[f] =>
              /\ netRefresh.at = f /\ netRefresh'.errs = netRefresh.errs
              /\ \E d \in NetDocuments[f] : UsableNet(d) /\ netreg'[f] \in Loaded(f, d)]_netregVars

(* "Most specific is the whole point" (netregistry.go:225): an address is  *)
(* served by the entry with the longest prefix that covers it, the first   *)
(* listed of equals, whatever the order of the file.                       *)
LongestPrefixWins ==
    \A f \in {"v4", "v6"}, ip \in Addresses :
        LET services == netreg[f]
            covering == {i \in DOMAIN services : InPrefix(services[i].key, ip)}
            longest == {i \in covering :
                            \A j \in covering : services[j].key.ones <= services[i].key.ones}
        IN LookupIP(services, ip) = IF covering = {} THEN <<>> ELSE services[Min(longest)].bases

Overlap(r, s) == r.lo <= s.hi /\ s.lo <= r.hi

(* "tolerates an overlap if IANA ever publishes one" (netregistry.go:267): *)
(* while no range overlaps more others than the step backwards passes, a   *)
(* number some range covers is found in a range that covers it, though not *)
(* always the narrowest, and no other number is found.                     *)
RangesFound ==
    LET ranges == netreg["asn"]
        simple == \A i \in DOMAIN ranges :
                      Cardinality({j \in DOMAIN ranges \ {i} : Overlap(ranges[i].key, ranges[j].key)})
                          < StepsBack
    IN simple => \A asn \in 0 .. MaxASN :
           LET covering == {i \in DOMAIN ranges : Covers(ranges[i].key, asn)}
           IN IF covering = {} THEN LookupASN(ranges, asn) = <<>>
              ELSE \E i \in covering : LookupASN(ranges, asn) = ranges[i].bases

(* With whatever documents the refreshes have put in place, LookupIP gives *)
(* the most specific entry at every address, and LookupASN, within its     *)
(* four steps backwards, a covering range at every number that has one.    *)
LookupsMostSpecific == LongestPrefixWins /\ RangesFound
=============================================================================
