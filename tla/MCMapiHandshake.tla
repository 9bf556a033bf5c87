--------------------------- MODULE MCMapiHandshake ---------------------------
(***************************************************************************)
(* MapiHandshake for TLC: challenge lines that reach every early return    *)
(* and every option level, and redirect targets of every shape.            *)
(***************************************************************************)
EXTENDS MapiHandshake

CONSTANTS h1, h2

GoodLine == [fields |-> 7, version |-> "9", endian |-> "BIG",
             hashes |-> {"SHA1", "SHA512", "MD5"}, serverHash |-> "SHA512",
             extras |-> <<6>>]

(* A level above 255 does not parse as u8; the last sql= field counts.     *)
MCLines ==
    {GoodLine,
     [GoodLine EXCEPT !.fields = 8, !.extras = <<3, 1>>],
     [GoodLine EXCEPT !.extras = <<2>>, !.endian = "LIT", !.hashes = {"SHA1"}],
     [GoodLine EXCEPT !.extras = <<256>>],
     [GoodLine EXCEPT !.fields = 6, !.extras = <<>>,
                      !.hashes = {"RIPEMD160", "SHA256"}],
     [GoodLine EXCEPT !.fields = 5, !.extras = <<>>],
     [GoodLine EXCEPT !.version = "8"],
     [GoodLine EXCEPT !.endian = "other"],
     [GoodLine EXCEPT !.serverHash = "MD5"],
     [GoodLine EXCEPT !.hashes = {"MD5"}]}

OneLine == {GoodLine}

To(host) == [scheme |-> "monetdb", mentions |-> FALSE, host |-> host,
             port |-> "number"]
Proxy == [scheme |-> "merovingian", mentions |-> TRUE, host |-> h1,
          port |-> "missing"]

MCTargets ==
    {To(h1), To(h2), Proxy,
     [To(h2) EXCEPT !.port = "missing"], [To(h2) EXCEPT !.port = "invalid"],
     [To(h2) EXCEPT !.scheme = "other"]}

OnlyProxy == {Proxy}

(* mapi:monetdb://merovingian-2:50000/db: the word is in the host's name.  *)
NamedAfterProxy == {[To(h2) EXCEPT !.mentions = TRUE]}
=============================================================================
