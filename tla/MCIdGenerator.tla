--------------------------- MODULE MCIdGenerator ---------------------------
(* Two nodes, each running any of the three generators, with two sequence    *)
(* numbers per millisecond, so that overflow is common.                      *)
EXTENDS IdGenerator

AllKinds == {"SnowFlake", "IdWorker", "IdBuilder"}
=============================================================================
