--------------------------- MODULE MCIndexLeases ---------------------------
(* Small instances of IndexLeases for TLC: a caller of snapshot(), a build  *)
(* and two threads in compact().  Caller and build may share a generation,  *)
(* which makes pin counts above one.                                        *)
EXTENDS IndexLeases

CONSTANTS h1, b1, c1, c2
=============================================================================
