--------------------------- MODULE WhoisClassify ---------------------------
(***************************************************************************)
(* Classify of internal/whois/parsers/notfound.go: what a WHOIS response   *)
(* says about registration.                                                *)
(*                                                                         *)
(* A body is abstracted to the phrases found in it: limited, record and    *)
(* negative for the three shared lists, denies and confirms for the hosts  *)
(* whose template lists a NotFound or Registered phrase that occurs.       *)
(***************************************************************************)
CONSTANTS
    Hosts,          \* WHOIS servers by bare name
    Templated       \* those with a template; every template lists NotFound

ASSUME TemplatesOfHosts == Templated \subseteq Hosts

Tristate == {"yes", "no", "unknown"}

Body ==
    [limited : BOOLEAN, record : BOOLEAN, negative : BOOLEAN,
     denies : SUBSET Hosts, confirms : SUBSET Hosts]

(* Mutant: a refusal is not looked for, and any negative phrase decides.   *)
ClassifyNegativeFirst(host, body) ==
    IF body.negative THEN "no" ELSE IF body.record THEN "yes" ELSE "unknown"

Classify(host, body) ==
    IF body.limited THEN "unknown"
    ELSE IF host \in Templated \cap body.denies THEN "no"
    ELSE IF host \in Templated \cap body.confirms THEN "yes"
    ELSE IF body.record /\ ~body.negative THEN "yes"
    ELSE IF body.negative /\ ~body.record THEN "no"
    ELSE "unknown"
=============================================================================
