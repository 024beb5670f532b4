--------------------------- MODULE MCDomainQuery ---------------------------
(* DomainQuery on a small instance: three WHOIS servers, one of them spelt  *)
(* in two ways, and bootstrap files that add, drop and break the service.   *)
EXTENDS DomainQuery, TLC

CONSTANTS tld, other, e1, e2, e3, noetag, registrySrv, registrarSrv, thirdSrv,
    registryPort, noname

Secure(n) == [host |-> n, https |-> TRUE]
Clear(n) == [host |-> n, https |-> FALSE]
Service(tlds, urls) == [tlds |-> tlds, urls |-> urls]
Doc(etag, services) == [etag |-> etag, parses |-> TRUE, services |-> services]

MCEmbedded == Doc(noetag, <<Service({tld, other}, <<Secure(1), Secure(2)>>)>>)

MCDocuments ==
    {Doc(e1, <<Service({tld, other}, <<Secure(1)>>), Service({tld}, <<Clear(2), Secure(3)>>)>>),
     Doc(e2, <<Service({tld}, <<Clear(1)>>), Service({other}, <<Secure(2)>>)>>),
     Doc(e3, <<>>)}

MCHosts == {registrySrv, registrarSrv, thirdSrv}
MCNames == MCHosts \cup {registryPort}
MCHostOnly == [n \in MCNames |-> IF n = registryPort THEN registrySrv ELSE n]

Text(record, negative, denies) ==
    [limited |-> FALSE, record |-> record, negative |-> negative,
     denies |-> denies, confirms |-> {}]

(* Records with and without a chatty footer, one whose footer holds the     *)
(* registry's own words of denial, denials in the shared and in those       *)
(* words, a refusal, and a page that says nothing.                          *)
MCBodies ==
    {Text(TRUE, FALSE, {}), Text(TRUE, TRUE, {}), Text(TRUE, FALSE, {registrySrv}), Text(FALSE, TRUE, {}),
     Text(FALSE, FALSE, {registrySrv}), Text(FALSE, FALSE, {}),
     [Text(FALSE, TRUE, {}) EXCEPT !.limited = TRUE]}
=============================================================================
