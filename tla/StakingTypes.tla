---------------------------- MODULE StakingTypes ----------------------------
(***************************************************************************)
(* The data of the staking contract (package staking/types, which is not  *)
(* among the sources here and is modelled from spec.md sections 3 and     *)
(* 4.4) and the 256-bit unsigned arithmetic of holiman/uint256 that the   *)
(* staking code computes with.                                            *)
(*                                                                         *)
(* A Validator is [addr, pubkey, rewardTo, staked, power, retiring]; the  *)
(* introduction string is left out (no property is about it).  A          *)
(* PendingReward is [addr, epoch, amount].  A StakingInfo is              *)
(* [epoch, vals, rewards] with vals and rewards sequences, as the Go      *)
(* slices are: their order matters to clearUp and to the reward lookup.   *)
(***************************************************************************)
EXTENDS Naturals, Sequences, SequencesExt

CONSTANT Modulus   \* 2^256 scaled down: the width at which uint256 wraps

(* uint256 arithmetic: every operation wraps modulo Modulus; Div by zero  *)
(* yields zero, as holiman/uint256 does.                                  *)
U256Add(a, b) == (a + b) % Modulus
U256Sub(a, b) == (a + Modulus - b) % Modulus
U256Mul(a, b) == (a * b) % Modulus
U256Div(a, b) == IF b = 0 THEN 0 ELSE a \div b

(* Sum of the amounts of a sequence of pending rewards, in uint256.       *)
SumAmounts(rs) == FoldLeft(LAMBDA acc, r : U256Add(acc, r.amount), 0, rs)

(* Sum of the voting powers (int64, never near overflow here).           *)
SumPower(vs) == FoldLeft(LAMBDA acc, v : acc + v.power, 0, vs)

(* Index of the validator with address a / pubkey pk, 0 when none: the   *)
(* lookups GetValidatorByAddr, GetValidatorByPubkey, GetValMapByAddr and  *)
(* GetValMapByPubkey (a nil pointer in Go when there is none).           *)
ValIdxByAddr(info, a) == SelectInSeq(info.vals, LAMBDA v : v.addr = a)
ValIdxByPubkey(info, pk) == SelectInSeq(info.vals, LAMBDA v : v.pubkey = pk)

(* GetActiveValidators: validators with voting power and enough stake.   *)
GetActiveValidators(info, minStaked) ==
    SelectSeq(info.vals, LAMBDA v : v.power > 0 /\ v.staked >= minStaked)

(* AddValidator: refuses an address or a pubkey already registered,      *)
(* otherwise appends a validator without voting power.                   *)
AddValidatorFails(info, addr, pk) ==
    \E i \in 1..Len(info.vals) : info.vals[i].addr = addr \/ info.vals[i].pubkey = pk
AddValidator(info, addr, pk, staked, rewardTo) ==
    [info EXCEPT !.vals = Append(@, [addr |-> addr, pubkey |-> pk,
                                     rewardTo |-> rewardTo, staked |-> staked,
                                     power |-> 0, retiring |-> FALSE])]

(* ClearRewardsOf: removes every pending reward of addr and returns the  *)
(* new list with the total removed.                                      *)
ClearRewardsOf(info, addr) ==
    <<SelectSeq(info.rewards, LAMBDA r : r.addr # addr),
      SumAmounts(SelectSeq(info.rewards, LAMBDA r : r.addr = addr))>>

(* GetCurrRewardMapByAddr: the entry of addr tagged with the current     *)
(* epoch (the last one wins in the Go map), 0 when none.                 *)
CurrRewardIdx(info, addr) ==
    SelectLastInSeq(info.rewards, LAMBDA r : r.addr = addr /\ r.epoch = info.epoch)

(* Mutant: useless validators chosen without looking at their rewards.   *)
GetUselessValidatorsIgnoringRewards(info) ==
    {info.vals[i].addr : i \in {j \in 1..Len(info.vals) :
                                   info.vals[j].retiring /\ info.vals[j].power = 0}}

(* GetUselessValidators: retiring validators without voting power and    *)
(* without any pending reward.                                           *)
GetUselessValidators(info) ==
    {info.vals[i].addr : i \in {j \in 1..Len(info.vals) :
                                   info.vals[j].retiring /\ info.vals[j].power = 0}}
      \ {info.rewards[i].addr : i \in 1..Len(info.rewards)}
=============================================================================
