---------------------------- MODULE MCNetLookup ----------------------------
(* NetLookup with addresses of three bits: a block one RIR holds with a      *)
(* part transferred to another, a block asked about by an address of each    *)
(* and by a private one, and number ranges that overlap as far as the step   *)
(* backwards reaches.                                                        *)
EXTENDS NetLookup

Secure(n) == [host |-> n, https |-> TRUE]
Clear(n) == [host |-> n, https |-> FALSE]
Prefix(net, ones) == [ok |-> TRUE, net |-> net, ones |-> ones]
NumberRange(lo, hi) == [ok |-> TRUE, lo |-> lo, hi |-> hi]
BadKey == [ok |-> FALSE]
Service(keys, urls) == [keys |-> keys, urls |-> urls]
Doc(services) == [parses |-> TRUE, services |-> services]
Garbage == [parses |-> FALSE, services |-> <<>>]

MCEmbedded ==
    [f \in Families |->
        CASE f = "v4" -> Doc(<<Service(<<Prefix(0, 1), BadKey>>, <<Secure("arin"), Clear("arin")>>),
                               Service(<<Prefix(2, 2), Prefix(0, 0)>>, <<Secure("ripe")>>)>>)
          [] f = "v6" -> Doc(<<Service(<<Prefix(4, 1)>>, <<Secure("ripe")>>)>>)
          [] f = "asn" -> Doc(<<Service(<<NumberRange(3, 3), NumberRange(0, 5)>>, <<Secure("arin")>>),
                                Service(<<NumberRange(1, 1), NumberRange(2, 2)>>,
                                        <<Secure("ripe"), Secure("apnic")>>)>>)]

MCDocuments ==
    [f \in Families |->
        CASE f = "v4" -> {Doc(<<Service(<<Prefix(2, 2)>>, <<Clear("ripe")>>),
                                Service(<<Prefix(0, 1), Prefix(3, 3)>>, <<Secure("apnic")>>)>>)}
          [] f = "v6" -> {Garbage}
          [] f = "asn" -> {Doc(<<Service(<<NumberRange(1, 2), NumberRange(0, 4)>>, <<Secure("ripe")>>),
                                 Service(<<NumberRange(6, 6), BadKey>>, <<Secure("arin")>>),
                                 Service(<<NumberRange(3, 3)>>, <<Clear("arin")>>)>>)}]

Block(n, ones) == [family |-> "v4", kind |-> "prefix", num |-> n, ones |-> ones]
Number(n) == [family |-> "asn", kind |-> "asn", num |-> n, ones |-> 0]

Request(want, res, maxAge) == [want |-> want, res |-> res, maxAge |-> maxAge]

MCRequests ==
    {Request("report", Block(0, 1), 1), Request("report", Block(2, 1), 1), Request("report", Block(3, 1), 1),
     Request("raw", Number(5), 1)}
=============================================================================
