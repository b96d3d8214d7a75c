----------------------------- MODULE MCStaking -----------------------------
(* Small instances of Staking for TLC. *)
EXTENDS Staking

CONSTANTS a1, a2, pk1, pk2, pkT

\* InitChain without genesis validators: the single test validator
MCNoGenesisValidators == <<>>

\* a genesis file with one validator: a1 as pk1, staked and with power
MCGenesisValidators ==
    <<[addr |-> a1, pubkey |-> pk1, rewardTo |-> a1, staked |-> 2, power |-> 1,
       retiring |-> FALSE]>>

MCGenesisAlloc ==
    [a \in Accounts |-> IF a \in Addrs THEN 4 ELSE 0]

\* the watcher nominates pk1 alone, or pk1 and pk2 with different counts
MCNominations == {pk1 :> 1, (pk1 :> 1) @@ (pk2 :> 2)}
=============================================================================
