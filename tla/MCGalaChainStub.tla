--------------------------- MODULE MCGalaChainStub ---------------------------
(* Instances of GalaChainStub for TLC: a query of one key and one of both. *)
EXTENDS GalaChainStub

CONSTANTS k1, k2, v1, v2

MCKeys   == {k1, k2}
MCValues == {v1, v2}
MCRanges == {{k1}, {k1, k2}}
=============================================================================
