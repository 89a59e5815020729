------------------------- MODULE ConnectionCacheMC -------------------------
(* The default connection and one that is resolved on first use.           *)
EXTENDS ConnectionCache

CONSTANTS c1, c2, probe

MCNames == {"default", "other"}
MCCallers == {c1, c2}
=============================================================================
