----------------------------- MODULE RdapQuery -----------------------------
(***************************************************************************)
(* QueryWithOptions of internal/rdapx/client.go for one TLD: the published *)
(* base URLs are tried in turn, each through the upstream guard, until one *)
(* gives a definite answer; the registrar's record then fills the gaps of  *)
(* the registry's.                                                         *)
(*                                                                         *)
(* A domain object is abstracted to who supplied each of its members, and  *)
(* to the number of its entities and whose list they are.                  *)
(***************************************************************************)
EXTENDS Bootstrap, Naturals, Upstream

CONSTANTS
    Asked,          \* the TLD they ask about
    Members,        \* nameservers, events, status, secureDNS
    MaxEntities     \* bound: entities in one record

ASSUME RdapConstants == Asked \in TLDs /\ MaxEntities \in Nat

VARIABLES
    rdap,           \* rdap[c]: the call of QueryWithOptions c is in
    alive           \* alive[c]: c's context is not done

rdapVars == <<rdap, alive>>

Supplier == {"nobody", "registry", "registrar"}

(* listed: whose list the entities are.                                    *)
Domain == [entities : 0 .. MaxEntities, listed : Supplier, members : [Members -> Supplier]]

NoDomain == [entities |-> 0, listed |-> "nobody", members |-> [m \in Members |-> "nobody"]]

(* published: how many bases Lookup gave; left: those still to try.        *)
Call(stage, published, left, tried, lastErr, registered, domain) ==
    [stage |-> stage, published |-> published, left |-> left, tried |-> tried,
     lastErr |-> lastErr, registered |-> registered, domain |-> domain]

NoRdap == Call("idle", 0, <<>>, 0, "none", "unknown", NoDomain)

RdapInit ==
    /\ rdap = [c \in Callers |-> NoRdap]
    /\ alive = [c \in Callers |-> TRUE]

(* Lookup gives the call its own list: a refresh during the loop does not  *)
(* change it.                                                              *)
QueryRdap(c) ==
    /\ rdap[c].stage = "idle"
    /\ rdap' = [rdap EXCEPT ![c] =
           IF LookupBases(Asked) = <<>>
           THEN Call("noservice", 0, <<>>, 0, "none", "unknown", NoDomain)
           ELSE Call("try", Len(LookupBases(Asked)), LookupBases(Asked), 0, "none", "unknown", NoDomain)]
    /\ UNCHANGED alive

---------------------------------------------------------------------------
(* One base URL.                                                           *)

Trying(c) == rdap[c].stage = "try" /\ rdap[c].left # <<>>

Return(c, stage, registered) ==
    /\ rdap' = [rdap EXCEPT ![c] =
           Call(stage, @.published, <<>>, @.tried + 1, @.lastErr, registered, @.domain)]
    /\ UNCHANGED alive

Continue(c, err) ==
    /\ rdap' = [rdap EXCEPT ![c] =
           Call(@.stage, @.published, Tail(@.left), @.tried + 1, err, @.registered, @.domain)]
    /\ UNCHANGED alive

(* An RDAP domain object: the registry's record.                           *)
BaseHasDomain(c, n, given) ==
    /\ Trying(c)
    /\ rdap' = [rdap EXCEPT ![c] =
           Call("registrar", @.published, <<>>, @.tried + 1, @.lastErr, "yes",
                [entities |-> n, listed |-> "registry",
                 members |-> [m \in Members |-> IF m \in given THEN "registry" ELSE "nobody"]])]
    /\ UNCHANGED alive

(* ObjectDoesNotExist.                                                     *)
BaseHasNothing(c) == Trying(c) /\ Return(c, "answered", "no")

(* Mutant: one refused base ends the loop.                                 *)
BaseRejectedEnds(c) == Trying(c) /\ Return(c, "answered", "unknown")

(* isPolicyRejection: circuit open, throttled, or the wait would exceed    *)
(* the deadline.  The next base is tried whatever became of the context.   *)
BaseRejected(c) == Trying(c) /\ Continue(c, "other")

(* A URL that does not parse, or an object that is not a domain.           *)
BaseUseless(c) == Trying(c) /\ Continue(c, "other")

(* BootstrapNoMatch, BootstrapNotSupported.                                *)
BaseNoMatch(c) == Trying(c) /\ Continue(c, "noservice")

BaseFailed(c) == Trying(c) /\ alive[c] /\ Continue(c, "other")

BaseCancelled(c) == Trying(c) /\ ~alive[c] /\ Return(c, "cancelled", "unknown")

(* Mutant: the end of the list is only noticed after a definite failure.   *)
BasesExhaustedSilently(c) ==
    /\ rdap[c].stage = "try" /\ rdap[c].left = <<>> /\ rdap[c].lastErr # "noservice"
    /\ rdap' = [rdap EXCEPT ![c].stage = "answered"]
    /\ UNCHANGED alive

(* Every endpoint was tried: only the last error decides whether the TLD   *)
(* counts as one without RDAP.                                             *)
BasesExhausted(c) ==
    /\ rdap[c].stage = "try" /\ rdap[c].left = <<>>
    /\ rdap' = [rdap EXCEPT ![c].stage =
                    IF rdap[c].lastErr = "noservice" THEN "noservice" ELSE "answered"]
    /\ UNCHANGED alive

---------------------------------------------------------------------------
(* followRegistrarHop: once, outside the guard.                            *)

Hopping(c) == rdap[c].stage = "registrar"

(* SkipRegistrarReferral, no link, a link that is refused, a failure, or   *)
(* an object that is not a domain.                                         *)
RegistrarUseless(c) ==
    /\ Hopping(c)
    /\ rdap' = [rdap EXCEPT ![c].stage = "answered"]
    /\ UNCHANGED alive

(* The list of entities is taken from whoever has the longer, the rest     *)
(* only fills gaps.                                                        *)
Merge(d, n, given) ==
    [entities |-> IF n > d.entities THEN n ELSE d.entities,
     listed |-> IF n > d.entities THEN "registrar" ELSE d.listed,
     members |-> [m \in Members |->
                     IF d.members[m] = "nobody" /\ m \in given THEN "registrar"
                     ELSE d.members[m]]]

RegistrarHasDomain(c, n, given) ==
    /\ Hopping(c)
    /\ rdap' = [rdap EXCEPT ![c] =
           Call("answered", @.published, @.left, @.tried, @.lastErr, @.registered,
                Merge(@.domain, n, given))]
    /\ UNCHANGED alive

(* The caller goes away; only the loop over the bases looks.               *)
CancelCaller(c) ==
    /\ rdap[c].stage = "try" /\ alive[c]
    /\ alive' = [alive EXCEPT ![c] = FALSE]
    /\ UNCHANGED rdap

---------------------------------------------------------------------------

(* "a single dead endpoint should not fail the lookup" (client.go:122):    *)
(* RDAP is given up as undecided only after every base of the list the     *)
(* call started with was tried, whatever a refresh did to it meanwhile.    *)
AllBasesTried ==
    \A c \in Callers :
        rdap[c].stage = "answered" /\ rdap[c].registered = "unknown"
            => rdap[c].tried = rdap[c].published

(* "registry fields are never overwritten, only filled where the registry  *)
(* said nothing" (client.go:257), of every member but the entities: their  *)
(* list stays the registry's unless the registrar's is longer, and then    *)
(* the registry's is dropped.                                              *)
RegistryDataKept ==
    [][\A c \in Callers :
          rdap[c].registered = "yes" /\ rdap'[c].registered = "yes"
              => /\ \/ /\ rdap'[c].domain.listed = rdap[c].domain.listed
                       /\ rdap'[c].domain.entities = rdap[c].domain.entities
                    \/ /\ rdap'[c].domain.listed = "registrar"
                       /\ rdap'[c].domain.entities > rdap[c].domain.entities
                 /\ \A m \in Members : rdap[c].domain.members[m] # "nobody"
                        => rdap'[c].domain.members[m] = rdap[c].domain.members[m]]_rdapVars
=============================================================================
