--------------------------- MODULE BootstrapFile ---------------------------
(* What the readers of IANA's bootstrap files share.  A file is a record:   *)
(* whether it parses, and its services, each a list of keys with the URLs   *)
(* that serve them.                                                         *)
EXTENDS Sequences

(* RDAP is never asked over cleartext.                                      *)
preferHTTPS(urls) == SelectSeq(urls, LAMBDA u : u.https)
=============================================================================
