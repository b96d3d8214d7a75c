------------------------------ MODULE Staking ------------------------------
(***************************************************************************)
(* The staking subsystem on its own: the world of StakingOps changed one  *)
(* operation at a time, each operation run as one step, the way Commit,  *)
(* EndBlock and the tx engine invoke them on a single context.  The       *)
(* block lifecycle, the interleavings it allows and the MinGasPrice      *)
(* calls (whose bound LastMinGasPrice moves at Commit) are in App.       *)
(***************************************************************************)
EXTENDS StakingOps

CONSTANTS
    GenesisValidators,  \* the validators of the genesis file, <<>> for none
    GenesisAlloc,       \* initial balance of every account
    InitMinGasPrice,    \* the MinGasPrice and LastMinGasPrice slots at start: DefaultMinGasPrice (0), as InitChain never saves them
    Values,             \* tx.Value a staking tx may carry
    Fees,               \* block rewards a Commit may distribute
    Nominations,        \* epochs the watcher may deliver: pubkey -> count
    Byzantine,          \* pubkeys that consensus may report for double signing
    Retirers,           \* senders that may call retire()
    RewardTos,          \* rewardTo arguments of createValidator / editValidator
    MaxEpoch,           \* bound on the epoch number
    MaxBurnt            \* bound on the AllBurnt slot, which every Slash raises

VARIABLES
    w,          \* the world: [info, bal, burnt, mgp, lastMgp]
    panicked    \* "none", or the operation in which the node panicked

vars == <<w, panicked>>

Supply == FoldSet(LAMBDA a, acc : acc + GenesisAlloc[a], 0, Accounts)

Init ==
    /\ w = [info |-> InitChainInfo(GenesisValidators), bal |-> GenesisAlloc,
            burnt |-> 0, mgp |-> InitMinGasPrice, lastMgp |-> InitMinGasPrice]
    /\ panicked = "none"

(* A staking contract call: createValidator, editValidator or retire.    *)
ExternalOpTx(from, kind, rewardTo, pk, value) ==
    /\ panicked = "none"
    /\ w' = ExternalOp(w, from, kind, rewardTo, pk, value)
    /\ UNCHANGED panicked

(* Slash of a double-signing validator by Commit.                        *)
SlashStep(pk) ==
    /\ panicked = "none"
    /\ w.burnt < MaxBurnt
    /\ w' = Slash(w, pk, SlashedStakingAmount)
    /\ UNCHANGED panicked

(* A block reward taken from the system account by Commit and handed to *)
(* DistributeFee, for a proposer and voters known to the staking info.  *)
DistributeFeeStep(fee, proposer, voters) ==
    /\ panicked = "none"
    /\ fee <= w.bal[SystemAcc]
    /\ IF DistributeFeePanics(w, proposer, voters)
       THEN panicked' = "DistributeFee" /\ UNCHANGED w
       ELSE /\ w' = DistributeFee([w EXCEPT !.bal[SystemAcc] = @ - fee], fee, proposer, voters)
            /\ UNCHANGED panicked

(* SwitchEpoch of EndBlock on an epoch delivered by the watcher.         *)
SwitchEpochStep(noms) ==
    /\ panicked = "none"
    /\ w.info.epoch < MaxEpoch
    /\ IF SwitchEpochPanics(w, noms)
       THEN panicked' = "SwitchEpoch" /\ UNCHANGED w
       ELSE /\ w' = SwitchEpoch(w, noms).world
            /\ UNCHANGED panicked

(* Gas paid by a sender into the system account (done by the tx engine, *)
(* outside this repository).                                             *)
PayGas(from, fee) ==
    /\ panicked = "none"
    /\ fee <= w.bal[from]
    /\ w' = [w EXCEPT !.bal = Move(@, from, SystemAcc, fee)]
    /\ UNCHANGED panicked

KnownPubkeys == {w.info.vals[i].pubkey : i \in 1..Len(w.info.vals)}

Next ==
    \/ \E from \in Addrs, rt \in RewardTos, pk \in Pubkeys, v \in Values :
          ExternalOpTx(from, "create", rt, pk, v)
    \/ \E from \in Addrs, rt \in RewardTos, v \in Values :
          ExternalOpTx(from, "edit", rt, TestPubkey, v)
    \/ \E from \in Retirers : ExternalOpTx(from, "retire", ZeroAddr, TestPubkey, 0)
    \/ \E pk \in Byzantine : SlashStep(pk)
    \/ \E fee \in Fees, proposer \in KnownPubkeys, voters \in SUBSET KnownPubkeys :
          DistributeFeeStep(fee, proposer, voters)
    \/ \E noms \in Nominations : SwitchEpochStep(noms)
    \/ \E from \in Addrs, fee \in Fees : PayGas(from, fee)

Spec == Init /\ [][Next]_vars

-----------------------------------------------------------------------------
(* The refinement mapping to ValidatorRegistry: an address's record is   *)
(* its validator in StakingInfo (GetValidatorByAddr); AddValidator        *)
(* refuses a second validator with the same address.                     *)
RegRecords ==
    LET vals == w.info.vals
        rec(i) == [status |-> IF vals[i].retiring THEN "retiring" ELSE "staking",
                   stake |-> vals[i].staked]
        owned(a) == {i \in DOMAIN vals : vals[i].addr = a}
    IN [a \in Addrs \cup {TestValAddr} |->
          IF owned(a) = {} THEN [status |-> "none", stake |-> 0]
          ELSE rec(CHOOSE i \in owned(a) : TRUE)]

Registry == INSTANCE ValidatorRegistry
                WITH Holders <- Addrs \cup {TestValAddr}, records <- RegRecords

-----------------------------------------------------------------------------
(* Properties *)

SumStaked(info) == FoldLeft(LAMBDA acc, v : acc + v.staked, 0, info.vals)
SumPending(info) == FoldLeft(LAMBDA acc, r : acc + r.amount, 0, info.rewards)

TypeOK ==
    /\ w.info.epoch \in 0..MaxEpoch
    /\ \A i \in 1..Len(w.info.vals) :
          /\ w.info.vals[i].addr \in Addrs \cup {TestValAddr}
          /\ w.info.vals[i].pubkey \in Pubkeys
          /\ w.info.vals[i].rewardTo \in Addrs \cup {ZeroAddr}
          /\ w.info.vals[i].staked \in 0..(Modulus - 1)
          /\ w.info.vals[i].power \in Nat
          /\ w.info.vals[i].retiring \in BOOLEAN
    /\ \A i \in 1..Len(w.info.rewards) :
          /\ w.info.rewards[i].epoch \in 0..MaxEpoch
          /\ w.info.rewards[i].amount \in 0..(Modulus - 1)
    /\ w.bal \in [Accounts -> 0..(Modulus - 1)]
    /\ w.mgp \in MinMinGasPrice..MaxMinGasPrice
    /\ panicked \in {"none", "DistributeFee", "SwitchEpoch"}

(* The staking contract's balance is exactly what it owes: the stake of *)
(* every validator plus every pending reward.  createValidator,          *)
(* editValidator, DistributeFee, endEpoch and clearUp must each move     *)
(* the balance and the owed amounts by the same sum, and clearUp must    *)
(* delete exactly the validators it refunded.                            *)
StakingBacked == w.bal[StakingAcc] = SumStaked(w.info) + SumPending(w.info)

(* No coin is created or lost: the balances (the black hole included)   *)
(* always add up to the genesis supply, which fails as soon as a        *)
(* uint256 subtraction in the staking code wraps.                       *)
SupplyConserved == FoldSet(LAMBDA a, acc : acc + w.bal[a], 0, Accounts) = Supply

(* The node never panics inside a staking operation.                    *)
NoPanic == panicked = "none"

(* DistributeFee credits the pending rewards with exactly the block     *)
(* reward Commit takes out of the system account: proposer base and     *)
(* extra share, the voters' shares and the rounding remainder add up to *)
(* it, none of them wrapping.                                           *)
FeeFullyCredited ==
    [][w'.bal[SystemAcc] < w.bal[SystemAcc]
         => SumPending(w'.info) = SumPending(w.info) + (w.bal[SystemAcc] - w'.bal[SystemAcc])]_vars

(* Staking implements ValidatorRegistry: createValidator only registers *)
(* a new address, editValidator and retire only add stake and never take *)
(* back a retiring mark, Slash, DistributeFee and endEpoch leave the     *)
(* records alone, and clearUp removes only retiring validators.          *)
RegistryRefined == Registry!Spec

=============================================================================
