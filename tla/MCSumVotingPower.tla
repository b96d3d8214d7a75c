-------------------------- MODULE MCSumVotingPower --------------------------
(* Three addresses; a1 and a2 run validators, and a2's rewards go to a1,   *)
(* so a list naming a1 matches both, and one naming a1 and a2 names the    *)
(* second validator twice.  Reads past the input decode to the zero        *)
(* address or to a1.                                                       *)
EXTENDS SumVotingPower

CONSTANTS a1, a2, a3, zeroAddr, selSum, selOther

MCVals ==
    <<[addr |-> a1, rewardTo |-> a1, power |-> 1],
      [addr |-> a2, rewardTo |-> a1, power |-> 2]>>

=============================================================================
