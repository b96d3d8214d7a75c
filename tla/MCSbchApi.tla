------------------------------ MODULE MCSbchApi ------------------------------
(* A 3-bit uint32.  The requests reach 2^W - 1, the largest uint32,      *)
(* whose increment wraps to 0.                                            *)
EXTENDS SbchApi

MCAllRequests == {LatestBlockNumber} \cup 0..(2 ^ W - 1)
=============================================================================
