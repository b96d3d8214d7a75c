------------------------------- MODULE MCApp -------------------------------
(* App instantiated for TLC: two senders, one validator candidate.      *)
EXTENDS App

CONSTANTS a1, a2, pk1, pk2, pkT

MCNoGenesisValidators == <<>>
MCGenesisAlloc == [a \in Accounts |-> IF a = a1 THEN 4 ELSE IF a = a2 THEN 2 ELSE 0]

(* a1 stakes as pk1 and can then move the MinGasPrice; a2 pays a1.      *)
MCTxs ==
    { [from |-> a1, kind |-> "create", to |-> StakingAcc, rewardTo |-> a1, pk |-> pk1, value |-> 3],
      [from |-> a1, kind |-> "decreaseMinGasPrice", to |-> StakingAcc, rewardTo |-> ZeroAddr,
       pk |-> pkT, value |-> 0],
      [from |-> a2, kind |-> "transfer", to |-> a1, rewardTo |-> ZeroAddr, pk |-> pkT, value |-> 1] }

MCRetireAlloc == [a \in Accounts |-> IF a = a1 THEN 5 ELSE 0]

(* a1 stakes as pk1 and later retires.                                    *)
MCRetireTxs ==
    { [from |-> a1, kind |-> "create", to |-> StakingAcc, rewardTo |-> a1, pk |-> pk1, value |-> 3],
      [from |-> a1, kind |-> "retire", to |-> StakingAcc, rewardTo |-> ZeroAddr, pk |-> pkT,
       value |-> 0] }

(* a2 calls a contract that asks sumVotingPower, or pays a1.             *)
MCReadonlyTxs ==
    { [from |-> a2, kind |-> "sumVotingPower", to |-> StakingAcc, rewardTo |-> ZeroAddr,
       pk |-> pkT, value |-> 0],
      [from |-> a2, kind |-> "transfer", to |-> a1, rewardTo |-> ZeroAddr, pk |-> pkT, value |-> 1] }

(* a1's tx, broadcast to the mempool.                                    *)
MCCheckTxs == {t \in MCTxs : t.kind = "decreaseMinGasPrice"}

MCNominations == {pk1 :> 1}
=============================================================================
