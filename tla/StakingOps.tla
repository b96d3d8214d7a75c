----------------------------- MODULE StakingOps -----------------------------
(***************************************************************************)
(* The functions of staking/staking.go as operators on a world state.     *)
(*                                                                         *)
(* A world is [info, bal, burnt, mgp, lastMgp]: the StakingInfo blob      *)
(* (slot 0 of the staking contract), the balance of every account, the    *)
(* AllBurnt slot, and the MinGasPrice and LastMinGasPrice slots.  Each    *)
(* operator maps the world a context reads to the world it writes back;   *)
(* the modules that use them decide when that context was opened and      *)
(* closed.  Amounts are in a scaled unit (one unit stands for the         *)
(* SlashedStakingAmount of 10^19 wei) and wrap at Modulus as uint256 does. *)
(***************************************************************************)
EXTENDS StakingTypes, Integers, FiniteSets, FiniteSetsExt

CONSTANTS
    Addrs,                  \* externally owned addresses that send txs
    Pubkeys,                \* validator consensus public keys
    ZeroAddr,               \* the all-zero address
    StakingAcc,             \* the staking contract, 0x...2710
    SystemAcc,              \* the system account that collects gas fees
    BlackHole,              \* the burn address of ebp
    InitialStakingAmount,   \* 1000 * 10^18 in the code
    MinimumStakingAmount,   \* 800 * 10^18 in the code
    SlashedStakingAmount,   \* 10 * 10^18 in the code
    MinMinGasPrice,         \* 0 in the code
    MaxMinGasPrice,         \* 500 in the code
    TestValAddr,            \* address of the test validator of InitChain
    TestPubkey              \* its pubkey

Accounts == Addrs \cup {ZeroAddr, StakingAcc, SystemAcc, BlackHole}

(* Parameters the code fixes (staking.go lines 65-74).                   *)
EpochCountBeforeRewardMature == 1
BaseProposerPercentage == 15
ExtraProposerPercentage == 15
MaxMinGasPriceDeltaRate == 16
MinGasPriceDeltaRate == 5

(* Move amount from account from to account to, each side in uint256.    *)
Move(bal, from, to, amount) ==
    [bal EXCEPT ![from] = U256Sub(@, amount), ![to] = U256Add(@, amount)]

-----------------------------------------------------------------------------
(* The StakingInfo InitChain saves (app.go): the genesis validators with *)
(* one empty PendingReward each (zero address, epoch 0, amount 0), or,   *)
(* without genesis validators, the single test validator with one empty *)
(* reward slot under its own address.                                    *)
EmptyReward(a) == [addr |-> a, epoch |-> 0, amount |-> 0]
InitChainInfo(genesisVals) ==
    IF genesisVals # <<>>
    THEN [epoch |-> 0, vals |-> genesisVals,
          rewards |-> [i \in 1..Len(genesisVals) |-> EmptyReward(ZeroAddr)]]
    ELSE [epoch |-> 0,
          vals |-> <<[addr |-> TestValAddr, pubkey |-> TestPubkey, rewardTo |-> ZeroAddr,
                      staked |-> 0, power |-> 0, retiring |-> FALSE]>>,
          rewards |-> <<EmptyReward(TestValAddr)>>]

-----------------------------------------------------------------------------
(* externalOp, for createValidator (kind "create"), editValidator         *)
(* ("edit") and retire ("retire").  rewardTo is ZeroAddr for retire,      *)
(* which has no arguments.  A failing call leaves the world unchanged.   *)
ExternalOpFails(w, from, kind, pk, value) ==
    \/ w.bal[from] < value
    \/ kind = "create" /\ (value <= InitialStakingAmount \/ AddValidatorFails(w.info, from, pk))
    \/ kind # "create" /\ ValIdxByAddr(w.info, from) = 0

(* Mutant: a call that records the validator but never moves the coins. *)
ExternalOpNoMove(w, from, kind, rewardTo, pk, value) ==
    IF ExternalOpFails(w, from, kind, pk, value) \/ kind # "create" THEN w
    ELSE [w EXCEPT !.info = AddValidator(w.info, from, pk, value, rewardTo)]

(* Mutant: editValidator and retire assign the retiring flag instead of *)
(* only setting it, so an edit takes a retirement back.                  *)
ExternalOpRetireAssign(w, from, kind, rewardTo, pk, value) ==
    LET i == ValIdxByAddr(w.info, from)
        edited == [w.info EXCEPT !.vals[i] =
                     [@ EXCEPT !.rewardTo = IF rewardTo = ZeroAddr THEN @ ELSE rewardTo,
                               !.staked = U256Add(@, value),
                               !.retiring = (kind = "retire")]]
    IN IF ExternalOpFails(w, from, kind, pk, value) THEN w
       ELSE IF kind = "create"
            THEN [w EXCEPT !.info = AddValidator(w.info, from, pk, value, rewardTo),
                           !.bal = Move(@, from, StakingAcc, value)]
            ELSE [w EXCEPT !.info = edited, !.bal = Move(@, from, StakingAcc, value)]

ExternalOp(w, from, kind, rewardTo, pk, value) ==
    LET i == ValIdxByAddr(w.info, from)
        edited == [w.info EXCEPT !.vals[i] =
                     [@ EXCEPT !.rewardTo = IF rewardTo = ZeroAddr THEN @ ELSE rewardTo,
                               !.staked = U256Add(@, value),
                               !.retiring = @ \/ kind = "retire"]]
        info2 == IF kind = "create"
                 THEN AddValidator(w.info, from, pk, value, rewardTo)
                 ELSE edited
    IN IF ExternalOpFails(w, from, kind, pk, value) THEN w
       ELSE [w EXCEPT !.info = info2, !.bal = Move(@, from, StakingAcc, value)]

(* handleMinGasPrice: an active validator or its rewardTo moves the      *)
(* MinGasPrice slot by MinGasPriceDeltaRate percent, within the bounds   *)
(* and within MaxMinGasPriceDeltaRate percent of LastMinGasPrice.        *)
HandleMinGasPrice(w, sender, isIncrease) ==
    LET active == GetActiveValidators(w.info, MinimumStakingAmount)
        allowed == \E i \in 1..Len(active) :
                      active[i].addr = sender \/ active[i].rewardTo = sender
        delta == (MinGasPriceDeltaRate * w.mgp) \div 100
        mGP == IF isIncrease THEN w.mgp + delta ELSE w.mgp - delta
        last == w.lastMgp
        refused == \/ ~allowed
                   \/ mGP < MinMinGasPrice
                   \/ mGP > MaxMinGasPrice
                   \/ mGP > last /\ 100 * (mGP - last) > MaxMinGasPriceDeltaRate * last
                   \/ mGP < last /\ 100 * (last - mGP) > MaxMinGasPriceDeltaRate * last
    IN IF refused THEN w ELSE [w EXCEPT !.mgp = mGP]

-----------------------------------------------------------------------------
(* TransferFromSenderAccToBlackHoleAcc of ebp (not in this repository):  *)
(* moves the amount when the sender can pay it, otherwise fails and      *)
(* changes nothing; Slash ignores the error.                             *)
TransferToBlackHole(bal, from, amount) ==
    IF bal[from] < amount THEN bal ELSE Move(bal, from, BlackHole, amount)

Slash(w, pk, amount) ==
    LET i == ValIdxByPubkey(w.info, pk)
        v == w.info.vals[i]
        slashed == IF v.staked < amount THEN v.staked ELSE amount
        total == U256Add(slashed, ClearRewardsOf(w.info, v.addr)[2])
    IN IF i = 0 THEN w
       ELSE [w EXCEPT !.bal = TransferToBlackHole(@, StakingAcc, total),
                      !.burnt = U256Add(@, total)]

-----------------------------------------------------------------------------
(* DistributeFee.  voters is the set of pubkeys that signed the previous *)
(* block; an unknown pubkey (the zero pubkey Commit maps an unknown      *)
(* consensus address to) is a nil validator in Go and panics.           *)
DistributeFeePanics(w, proposer, voters) ==
    \E pk \in voters \cup {proposer} : ValIdxByPubkey(w.info, pk) = 0

(* Mutant: DistributeFee that credits the contract but never saves the  *)
(* new pending rewards.                                                  *)
DistributeFeeNoSave(w, fee, proposer, voters) ==
    [w EXCEPT !.bal = [@ EXCEPT ![StakingAcc] = U256Add(@, fee)]]

DistributeFee(w, fee, proposer, voters) ==
    LET info == w.info
        val(pk) == info.vals[ValIdxByPubkey(info, pk)]
        totalVotingPower == SumPower(GetActiveValidators(info, MinimumStakingAmount))
        voted == FoldSet(LAMBDA pk, acc : acc + val(pk).power, 0, voters)
        proposerBaseFee == U256Div(U256Mul(fee, BaseProposerPercentage), 100)
        fee1 == U256Sub(fee, proposerBaseFee)
        proposerExtraFee == U256Div(U256Mul(U256Mul(fee1, ExtraProposerPercentage), voted),
                                    100 * totalVotingPower)
        fee2 == U256Sub(fee1, proposerExtraFee)
        others == voters \ {proposer}
        share(pk) == U256Div(U256Mul(fee2, val(pk).power), voted)
        remainedFee == FoldSet(LAMBDA pk, acc : U256Sub(acc, share(pk)), fee2, others)
        proposerShare == U256Add(U256Add(proposerBaseFee, proposerExtraFee), remainedFee)
        \* credit one address: add to its entry of the current epoch, or append one
        Credit(rs, addr, amt) ==
            LET j == CurrRewardIdx(info, addr) IN
            IF j = 0 THEN Append(rs, [addr |-> addr, epoch |-> info.epoch, amount |-> amt])
            ELSE [rs EXCEPT ![j].amount = U256Add(@, amt)]
        afterVoters == FoldSet(LAMBDA pk, rs : Credit(rs, val(pk).addr, share(pk)),
                               info.rewards, others)
        rewards2 == Credit(afterVoters, val(proposer).addr, proposerShare)
    IN [w EXCEPT !.bal = [@ EXCEPT ![StakingAcc] = U256Add(@, fee)],
                 !.info.rewards = rewards2]
-----------------------------------------------------------------------------
(* SwitchEpoch = endEpoch; updateVotingPower; clearUp; new reward slots. *)
(* noms maps the nominated pubkeys to their NominatedCount.              *)

(* endEpoch: a pending reward older than EpochCountBeforeRewardMature   *)
(* epochs is paid to the rewardTo of its validator (a nil validator in  *)
(* Go, and a panic, when none has its address).                         *)
IsMature(r, epoch) == r.epoch < epoch - EpochCountBeforeRewardMature
EndEpochPanics(w) ==
    \E i \in 1..Len(w.info.rewards) :
        IsMature(w.info.rewards[i], w.info.epoch + 1)
        /\ ValIdxByAddr(w.info, w.info.rewards[i].addr) = 0

(* Mutant: endEpoch pays the mature rewards without debiting the        *)
(* staking contract.                                                     *)
EndEpochNoDebit(w) ==
    LET epoch == w.info.epoch + 1
        mature == SelectSeq(w.info.rewards, LAMBDA r : IsMature(r, epoch))
        rewardTo(r) == w.info.vals[ValIdxByAddr(w.info, r.addr)].rewardTo
    IN [w EXCEPT !.info.epoch = epoch,
                 !.info.rewards = SelectSeq(@, LAMBDA r : ~IsMature(r, epoch)),
                 !.bal = [a \in Accounts |->
                            @[a] + SumAmounts(SelectSeq(mature, LAMBDA r : rewardTo(r) = a))]]

EndEpoch(w) ==
    LET epoch == w.info.epoch + 1
        mature == SelectSeq(w.info.rewards, LAMBDA r : IsMature(r, epoch))
        rewardTo(r) == w.info.vals[ValIdxByAddr(w.info, r.addr)].rewardTo
        paidTo(a) == SumAmounts(SelectSeq(mature, LAMBDA r : rewardTo(r) = a))
    IN [w EXCEPT !.info.epoch = epoch,
                 !.info.rewards = SelectSeq(@, LAMBDA r : ~IsMature(r, epoch)),
                 !.bal = [a \in Accounts |->
                            IF a = StakingAcc THEN U256Sub(@[a], SumAmounts(mature))
                            ELSE U256Add(@[a], paidTo(a))]]

(* updateVotingPower: every validator loses its power; a nominated one  *)
(* that is not retiring and has enough stake gets its nominated count.  *)
UpdateVotingPower(info, noms) ==
    LET power(v) == IF /\ v.pubkey \in DOMAIN noms
                       /\ ~v.retiring
                       /\ v.staked >= MinimumStakingAmount
                    THEN noms[v.pubkey] ELSE 0
    IN [info EXCEPT !.vals = [i \in DOMAIN @ |-> [info.vals[i] EXCEPT !.power = power(info.vals[i])]]]

(* The deletion loop of clearUp,                                        *)
(*   for i, v := range info.Validators { if useless(v) {               *)
(*       info.Validators = append(info.Validators[:i], info.Validators[i+1:]...) } } *)
(* with Go's slice semantics: range walks the original backing array    *)
(* arr, whose elements each append shifts down; len is the length of   *)
(* the current slice; info.Validators[i+1:] panics when i+1 > len.      *)
RECURSIVE DeleteUseless(_, _, _, _)
DeleteUseless(arr, len, i, useless) ==
    IF i > Len(arr) THEN [vals |-> SubSeq(arr, 1, len), panics |-> FALSE]
    ELSE IF arr[i].addr \notin useless THEN DeleteUseless(arr, len, i + 1, useless)
    ELSE IF i > len THEN [vals |-> SubSeq(arr, 1, len), panics |-> TRUE]
    ELSE DeleteUseless([j \in 1..Len(arr) |-> IF i <= j /\ j < len THEN arr[j + 1] ELSE arr[j]],
                       len - 1, i + 1, useless)

(* clearUp: refunds the stake of every useless validator to its         *)
(* rewardTo, then deletes them from the list.                           *)
ClearUpPanics(w) ==
    DeleteUseless(w.info.vals, Len(w.info.vals), 1, GetUselessValidators(w.info)).panics

ClearUp(w) ==
    LET useless == GetUselessValidators(w.info)
        val(a) == w.info.vals[ValIdxByAddr(w.info, a)]
        refundTo(b) == FoldSet(LAMBDA a, acc : IF val(a).rewardTo = b
                                               THEN U256Add(acc, val(a).staked) ELSE acc,
                               0, useless)
        refunded == FoldSet(LAMBDA a, acc : U256Add(acc, val(a).staked), 0, useless)
    IN [w EXCEPT !.bal = [a \in Accounts |->
                            IF a = StakingAcc THEN U256Sub(@[a], refunded)
                            ELSE U256Add(@[a], refundTo(a))],
                 !.info.vals = DeleteUseless(@, Len(@), 1, useless).vals]

SwitchEpochPanics(w, noms) ==
    \/ EndEpochPanics(w)
    \/ ClearUpPanics([EndEpoch(w) EXCEPT !.info = UpdateVotingPower(@, noms)])

(* SwitchEpoch; also returns (as .active) the new active validators.    *)
(* Mutant: the new reward slots tagged with the next epoch.              *)
SwitchEpochNextSlots(w, noms) ==
    LET w2 == ClearUp([EndEpoch(w) EXCEPT !.info = UpdateVotingPower(@, noms)])
        active == GetActiveValidators(w2.info, MinimumStakingAmount)
        slots == [i \in 1..Len(active) |->
                    [addr |-> active[i].addr, epoch |-> w2.info.epoch + 1, amount |-> 0]]
    IN [world |-> [w2 EXCEPT !.info.rewards = @ \o slots], active |-> active]

SwitchEpoch(w, noms) ==
    LET w1 == EndEpoch(w)
        w2 == ClearUp([w1 EXCEPT !.info = UpdateVotingPower(@, noms)])
        active == GetActiveValidators(w2.info, MinimumStakingAmount)
        slots == [i \in 1..Len(active) |->
                    [addr |-> active[i].addr, epoch |-> w2.info.epoch, amount |-> 0]]
    IN [world |-> [w2 EXCEPT !.info.rewards = @ \o slots], active |-> active]
=============================================================================
