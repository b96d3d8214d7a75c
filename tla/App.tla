-------------------------------- MODULE App --------------------------------
(***************************************************************************)
(* The block lifecycle of app/app.go: the consensus callbacks BeginBlock,  *)
(* DeliverTx, EndBlock and Commit, issued one at a time by consensus, and  *)
(* the postCommit goroutine that Commit starts.  Commit takes app.mtx and  *)
(* postCommit releases it after executing the block's txs, so the next     *)
(* Commit waits for it; BeginBlock, DeliverTx and EndBlock take no lock    *)
(* and run while postCommit still executes.                                *)
(*                                                                         *)
(* The trunk store is the world of StakingOps.  A tx executed by the      *)
(* engine reads and writes it in one step.  EndBlock's SwitchEpoch runs on *)
(* its own RunTx context: EndBlock opens it, reading the trunk's staking *)
(* info and accounts, and EndBlockSwitch writes back the keys it set when *)
(* the context is closed.                                                 *)
(***************************************************************************)
EXTENDS StakingOps

CONSTANTS
    GenesisValidators,  \* validators of the genesis file, <<>> for none
    GenesisAlloc,       \* initial balance of every account
    InitMinGasPrice,    \* the MinGasPrice slots at start: DefaultMinGasPrice (0), as InitChain never saves them
    Txs,                \* txs consensus may deliver: [from, kind, to, rewardTo, pk, value]
    GasFee,             \* gas fee the engine charges a tx
    Nominations,        \* epochs the watcher may deliver: pubkey -> count
    Byzantine,          \* pubkeys consensus may report for double signing
    EpochWait,          \* 100*10 minutes, in the time unit of the model
    MaxHeight,          \* bound on the block height
    MaxTime,            \* bound on the block timestamp
    MaxEpochs,          \* bound on the epochs the watcher delivers
    MaxBlockTxs,        \* bound on the txs of one block
    MaxCrashes,         \* bound on the crashes of the node
    MaxAdmitted,        \* bound on the txs CheckTx admits from one sender per check trunk
    CheckTxs,           \* txs clients broadcast, which reach CheckTx
    GasPrice            \* the gas price a tx sent to CheckTx offers

NoCtx == [none |-> TRUE]   \* no EndBlock context is open

VARIABLES
    phase,      \* "Ready", "InBlock", "Switching" (EndBlock's context open), "Ended",
                \* "Recording" (Commit has flushed the trunk, refresh has not yet
                \* written the history record), or "Reloading" (NewApp replaying
                \* postCommit after a restart)
    height,     \* app.currHeight
    blockTime,  \* app.block.Timestamp
    trunk,      \* the world state of the mutable trunk store
    mtxHeld,    \* app.mtx is held by a postCommit goroutine
    collected,  \* txs collected by DeliverTx for this block
    executing,  \* txs the running postCommit still has to execute
    gasAcc,     \* gas fee the running postCommit has collected so far
    lastGasFee, \* app.lastGasFee
    slashVals,  \* app.slashValidators (as pubkeys)
    voters,     \* app.lastCommitInfo (as pubkeys)
    proposer,   \* app.lastProposer (as a pubkey)
    tmPower,    \* voting power consensus gives each pubkey (0: not a validator)
    currVals,   \* app.currValidators
    epochChan,  \* epochs sent by the watcher, not yet received
    epochList,  \* app.epochList
    pushed,     \* number of epochs the watcher has sent
    endCtx,     \* the world EndBlock's context read, or NoCtx
    readonlyLoaded, \* staking's readonlyStakingInfo is no longer nil
    committed,  \* what the last Commit flushed to disk: [trunk, standby, height, time, tmPower]
    crashes,    \* number of crashes so far
    admitted,   \* sender -> fees CheckTx deducted in app.checkTrunk since it was opened
    recorded,   \* the heights of the blocks the history store has a record of
    panicked    \* "none", or where the node panicked

vars == <<phase, height, blockTime, trunk, mtxHeld, collected, executing, gasAcc,
          lastGasFee, slashVals, voters, proposer, tmPower, currVals,
          epochChan, epochList, pushed, endCtx, readonlyLoaded, committed, crashes,
          admitted, recorded, panicked>>

(* The ValidatorUpdates of InitChain and EndBlock: the given validators  *)
(* with their power, or the test validator with power 1 when none.      *)
ValidatorUpdates(vs) ==
    IF vs = <<>> THEN TestPubkey :> 1
    ELSE [pk \in {vs[i].pubkey : i \in 1..Len(vs)} |->
            vs[SelectInSeq(vs, LAMBDA v : v.pubkey = pk)].power]

(* Consensus applies updates to its validator set; a validator not in   *)
(* the updates keeps its power.                                         *)
ApplyUpdates(power, ups) == [pk \in Pubkeys |-> IF pk \in DOMAIN ups THEN ups[pk] ELSE power[pk]]

TmValidators == {pk \in Pubkeys : tmPower[pk] > 0}

Init ==
    /\ phase = "Ready"
    /\ height = 0
    /\ blockTime = 0
    /\ trunk = [info |-> InitChainInfo(GenesisValidators), bal |-> GenesisAlloc,
                burnt |-> 0, mgp |-> InitMinGasPrice, lastMgp |-> InitMinGasPrice]
    /\ mtxHeld = FALSE
    /\ collected = <<>> /\ executing = <<>> /\ gasAcc = 0
    /\ lastGasFee = 0
    /\ slashVals = {} /\ voters = {} /\ proposer = TestPubkey
    /\ tmPower = ApplyUpdates([pk \in Pubkeys |-> 0], ValidatorUpdates(GenesisValidators))
    /\ currVals = GenesisValidators
    /\ epochChan = <<>> /\ epochList = <<>> /\ pushed = 0
    /\ endCtx = NoCtx
    /\ readonlyLoaded = FALSE
    /\ committed = [trunk |-> trunk, standby |-> <<>>, height |-> 0, time |-> 0, tmPower |-> tmPower]
    /\ crashes = 0
    /\ admitted = [a \in Addrs |-> 0]
    /\ recorded = {}
    /\ panicked = "none"

-----------------------------------------------------------------------------
(* What the tx engine (moeingevm/ebp, outside this repository) does with *)
(* one collected tx: a sender that cannot pay the gas fee is skipped;    *)
(* otherwise the fee goes to the system account and the tx runs: a call *)
(* of the staking contract through StakingContractExecutor.Execute, or a *)
(* plain transfer.  Returns the new world and the fee charged.           *)
ExecTx(w, tx) ==
    LET w1 == [w EXCEPT !.bal = Move(@, tx.from, SystemAcc, GasFee)]
        run == CASE tx.kind \in {"create", "edit", "retire"} ->
                      ExternalOp(w1, tx.from, tx.kind, tx.rewardTo, tx.pk, tx.value)
                 [] tx.kind = "increaseMinGasPrice" -> HandleMinGasPrice(w1, tx.from, TRUE)
                 [] tx.kind = "decreaseMinGasPrice" -> HandleMinGasPrice(w1, tx.from, FALSE)
                 [] tx.kind = "sumVotingPower" -> w1
                 [] tx.kind = "transfer" ->
                      IF w1.bal[tx.from] < tx.value THEN w1
                      ELSE [w1 EXCEPT !.bal = Move(@, tx.from, tx.to, tx.value)]
    IN IF w.bal[tx.from] < GasFee THEN <<w, 0>> ELSE <<run, GasFee>>

(* A contract call of the sumVotingPower precompile: Run reads           *)
(* readonlyStakingInfo.Validators, a nil dereference until a first       *)
(* DistributeFee has set the pointer.                                    *)
ExecTxPanics(w, tx) ==
    tx.kind = "sumVotingPower" /\ w.bal[tx.from] >= GasFee /\ ~readonlyLoaded

(* The accounts SwitchEpoch stores with ctx.SetAccount: the staking      *)
(* account, the rewardTo of every validator with a mature pending reward *)
(* (endEpoch, even when the reward is zero), and the rewardTo of every   *)
(* useless validator clearUp refunds.                                    *)
SwitchEpochSetAccounts(w, noms) ==
    LET mature == {r \in Range(w.info.rewards) : IsMature(r, w.info.epoch + 1)}
        w1 == [EndEpoch(w) EXCEPT !.info = UpdateVotingPower(@, noms)]
        rewardTo(info, a) == info.vals[ValIdxByAddr(info, a)].rewardTo
    IN {StakingAcc} \cup {rewardTo(w.info, r.addr) : r \in mature}
                    \cup {rewardTo(w1.info, a) : a \in GetUselessValidators(w1.info)}

(* Mutant: the write-back of the StakingInfo slot without the account.   *)
WriteBackInfoOnly(tr, read, written, noms) ==
    LET dirty == SwitchEpochSetAccounts(read, noms) \ {StakingAcc}
    IN [tr EXCEPT !.info = written.info,
                  !.bal = [a \in Accounts |-> IF a \in dirty THEN written.bal[a] ELSE @[a]]]

(* ctx.Close(true) of EndBlock's context: the keys SwitchEpoch set (the  *)
(* staking account with its StakingInfo slot, and the accounts it        *)
(* stored) overwrite the trunk with the values computed from what it     *)
(* read.                                                                  *)
WriteBack(tr, read, written, noms) ==
    LET dirty == SwitchEpochSetAccounts(read, noms)
    IN [tr EXCEPT !.info = written.info,
                  !.bal = [a \in Accounts |-> IF a \in dirty THEN written.bal[a] ELSE @[a]]]

(* Commit's work on its context: Slash of the reported validators, the   *)
(* block reward taken from the system account, DistributeFee (skipped at *)
(* height 1), then refresh's copy of MinGasPrice into LastMinGasPrice.   *)
(* sb is StandbyQLen() != 0.  Returns "none" or a panic name.        *)
CommitPanics(w, sb) ==
    LET slashed == FoldSet(LAMBDA pk, x : Slash(x, pk, SlashedStakingAmount), w, slashVals)
        sysB == slashed.bal[SystemAcc]
        blockReward == IF sb THEN lastGasFee ELSE sysB
        w2 == [slashed EXCEPT !.bal[SystemAcc] = U256Sub(@, blockReward)]
    IN CASE sysB < lastGasFee -> "system balance not enough"
         [] height # 1 /\ DistributeFeePanics(w2, proposer, voters) -> "DistributeFee"
         [] OTHER -> "none"

CommitWorld(w, sb) ==
    LET slashed == FoldSet(LAMBDA pk, x : Slash(x, pk, SlashedStakingAmount), w, slashVals)
        blockReward == IF sb THEN lastGasFee ELSE slashed.bal[SystemAcc]
        w2 == [slashed EXCEPT !.bal[SystemAcc] = U256Sub(@, blockReward)]
        w3 == IF height # 1 THEN DistributeFee(w2, blockReward, proposer, voters) ELSE w2
    IN [w3 EXCEPT !.lastMgp = w3.mgp]

-----------------------------------------------------------------------------
(* BeginBlock: the header of the next block, with its proposer, the      *)
(* validators that signed the previous block and double-sign evidence.  *)
BeginBlock(t, prop, signed, evidence) ==
    /\ phase = "Ready" /\ panicked = "none"
    /\ height < MaxHeight
    /\ phase' = "InBlock"
    /\ height' = height + 1
    /\ blockTime' = t
    /\ proposer' = prop
    /\ voters' = voters \cup signed
    /\ slashVals' = slashVals \cup evidence
    /\ UNCHANGED <<trunk, mtxHeld, collected, executing, gasAcc, lastGasFee, tmPower,
                   currVals, epochChan, epochList, pushed, endCtx, readonlyLoaded, committed, crashes, admitted, recorded, panicked>>

(* DeliverTx: a decodable tx is collected by the engine.                 *)
DeliverTx(tx) ==
    /\ phase = "InBlock" /\ panicked = "none"
    /\ Len(collected) < MaxBlockTxs
    /\ collected' = Append(collected, tx)
    /\ UNCHANGED <<phase, height, blockTime, trunk, mtxHeld, executing, gasAcc, lastGasFee,
                   slashVals, voters, proposer, tmPower, currVals, epochChan, epochList,
                   pushed, endCtx, readonlyLoaded, committed, crashes, admitted, recorded, panicked>>

(* EndBlock: receives at most one epoch from the watcher's channel; when *)
(* the oldest pending epoch ended more than EpochWait before this block, *)
(* it opens a context and SwitchEpoch starts reading the trunk;          *)
(* otherwise it returns the updates of currValidators at once.           *)
EpochDue(list) == list # <<>> /\ blockTime > list[1].endTime + EpochWait

EndBlock ==
    /\ phase = "InBlock" /\ panicked = "none"
    /\ LET list == IF epochChan # <<>> THEN Append(epochList, Head(epochChan)) ELSE epochList
       IN /\ epochList' = list
          /\ IF EpochDue(list)
             THEN phase' = "Switching" /\ endCtx' = trunk /\ UNCHANGED tmPower
             ELSE /\ phase' = "Ended"
                  /\ tmPower' = ApplyUpdates(tmPower, ValidatorUpdates(currVals))
                  /\ UNCHANGED endCtx
    /\ epochChan' = IF epochChan # <<>> THEN Tail(epochChan) ELSE epochChan
    /\ UNCHANGED <<height, blockTime, trunk, mtxHeld, collected, executing, gasAcc, lastGasFee,
                   slashVals, voters, proposer, currVals, pushed, readonlyLoaded, committed, crashes, admitted, recorded, panicked>>

(* Mutant: EndBlock that leaves its context open after the switch.       *)
EndBlockSwitchKeepCtx ==
    /\ phase = "Switching" /\ panicked = "none"
    /\ ~SwitchEpochPanics(endCtx, epochList[1].noms)
    /\ trunk' = WriteBack(trunk, endCtx, SwitchEpoch(endCtx, epochList[1].noms).world, epochList[1].noms)
    /\ currVals' = SwitchEpoch(endCtx, epochList[1].noms).active
    /\ epochList' = Tail(epochList)
    /\ tmPower' = ApplyUpdates(tmPower, ValidatorUpdates(currVals'))
    /\ phase' = "Ended"
    /\ UNCHANGED <<height, blockTime, mtxHeld, collected, executing, gasAcc, lastGasFee,
                   slashVals, voters, proposer, epochChan, pushed, endCtx, readonlyLoaded, committed, crashes, admitted, recorded,
                   panicked>>

(* The rest of EndBlock: SwitchEpoch computed on what the context read,  *)
(* ctx.Close(true), the epoch dropped from the list, and the updates of  *)
(* the new currValidators returned to consensus.                         *)
EndBlockSwitch ==
    /\ phase = "Switching" /\ panicked = "none"
    /\ LET noms == epochList[1].noms
           res == SwitchEpoch(endCtx, noms)
       IN IF SwitchEpochPanics(endCtx, noms)
          THEN panicked' = "SwitchEpoch"
               /\ UNCHANGED <<phase, trunk, tmPower, currVals, epochList, endCtx>>
          ELSE /\ trunk' = WriteBack(trunk, endCtx, res.world, noms)
               /\ currVals' = res.active
               /\ epochList' = Tail(epochList)
               /\ tmPower' = ApplyUpdates(tmPower, ValidatorUpdates(res.active))
               /\ phase' = "Ended"
               /\ endCtx' = NoCtx
               /\ UNCHANGED panicked
    /\ UNCHANGED <<height, blockTime, mtxHeld, collected, executing, gasAcc, lastGasFee,
                   slashVals, voters, proposer, epochChan, pushed, readonlyLoaded, committed, crashes, admitted, recorded>>

(* Commit: waits for app.mtx, does its work on the trunk in one step,    *)
(* hands the collected txs to postCommit (Prepare) and keeps the mutex   *)
(* locked for it; refresh closes the check trunk and flushes the trunk,  *)
(* which ends the step.                                                  *)
Commit(sb) ==
    /\ phase = "Ended" /\ panicked = "none"
    /\ ~mtxHeld
    /\ IF CommitPanics(trunk, sb) # "none"
       THEN panicked' = CommitPanics(trunk, sb)
            /\ UNCHANGED <<phase, trunk, mtxHeld, collected, executing, gasAcc, slashVals, voters,
                           readonlyLoaded, committed, admitted>>
       ELSE /\ trunk' = CommitWorld(trunk, sb)
            /\ phase' = "Recording"
            /\ mtxHeld' = TRUE
            /\ executing' = collected
            /\ collected' = <<>>
            /\ gasAcc' = 0
            /\ slashVals' = {}
            /\ voters' = {}
            /\ readonlyLoaded' = (readonlyLoaded \/ height # 1)
            /\ committed' = [trunk |-> trunk', standby |-> collected, height |-> height,
                             time |-> blockTime, tmPower |-> tmPower]
            /\ admitted' = [a \in Addrs |-> 0]
            /\ UNCHANGED panicked
    /\ UNCHANGED <<height, blockTime, lastGasFee, proposer, tmPower, currVals,
                   epochChan, epochList, pushed, endCtx, crashes, recorded>>

(* The rest of refresh, after the trunk flush: the block info the last   *)
(* refresh stored (none before the first Commit) becomes the history     *)
(* record of the previous block, its tx list txEngine.CommittedTxs()     *)
(* (abstracted: only which heights have a record is kept); AddBlock      *)
(* stores it.  Then the trunks are reopened and postCommit starts.       *)
Refresh ==
    /\ phase = "Recording" /\ panicked = "none"
    /\ recorded' = IF height > 1 THEN recorded \cup {height - 1} ELSE recorded
    /\ phase' = "Ready"
    /\ UNCHANGED <<height, blockTime, trunk, mtxHeld, collected, executing, gasAcc,
                   lastGasFee, slashVals, voters, proposer, tmPower, currVals, epochChan,
                   epochList, pushed, endCtx, readonlyLoaded, committed, crashes, admitted,
                   panicked>>

(* postCommit: txEngine.Execute runs the txs one by one on the trunk.   *)
PostCommitExec ==
    /\ mtxHeld /\ executing # <<>> /\ panicked = "none" /\ phase # "Recording"
    /\ IF ExecTxPanics(trunk, Head(executing))
       THEN panicked' = "Run" /\ UNCHANGED <<trunk, gasAcc, executing>>
       ELSE /\ LET r == ExecTx(trunk, Head(executing))
               IN trunk' = r[1] /\ gasAcc' = gasAcc + r[2]
            /\ executing' = Tail(executing)
            /\ UNCHANGED panicked
    /\ UNCHANGED <<phase, height, blockTime, mtxHeld, collected, lastGasFee, slashVals, voters,
                   proposer, tmPower, currVals, epochChan, epochList, pushed, endCtx,
                   readonlyLoaded, committed, crashes, admitted, recorded>>

(* Mutant: postCommit that adds the block's gas fee to the last one.   *)
PostCommitDoneAccumulate ==
    /\ mtxHeld /\ executing = <<>> /\ panicked = "none" /\ phase # "Recording"
    /\ lastGasFee' = lastGasFee + gasAcc /\ mtxHeld' = FALSE
    /\ phase' = IF phase = "Reloading" THEN "Ready" ELSE phase
    /\ UNCHANGED <<height, blockTime, trunk, collected, executing, gasAcc, slashVals,
                   voters, proposer, tmPower, currVals, epochChan, epochList, pushed, endCtx,
                   readonlyLoaded, committed, crashes, admitted, recorded, panicked>>
(* The end of postCommit: GasUsedInfo into app.lastGasFee, then the      *)
(* deferred app.mtx.Unlock().  After a restart this ends reload, and     *)
(* NewApp returns to consensus.                                          *)
PostCommitDone ==
    /\ mtxHeld /\ executing = <<>> /\ panicked = "none" /\ phase # "Recording"
    /\ lastGasFee' = gasAcc
    /\ mtxHeld' = FALSE
    /\ phase' = IF phase = "Reloading" THEN "Ready" ELSE phase
    /\ UNCHANGED <<height, blockTime, trunk, collected, executing, gasAcc, slashVals,
                   voters, proposer, tmPower, currVals, epochChan, epochList, pushed, endCtx,
                   readonlyLoaded, committed, crashes, admitted, recorded, panicked>>

(* The balances app.checkTrunk holds when opened: the root as the last   *)
(* Commit's refresh (or NewApp) left it.  InitChain's genesis accounts   *)
(* stay in the trunk's cache until the first refresh, so before it the   *)
(* check trunk holds no account.                                         *)
CheckTrunkBal ==
    IF committed.height = 0 THEN [a \in Accounts |-> 0] ELSE committed.trunk.bal

(* CheckTx, on the mempool connection outside NewApp and Commit: on a    *)
(* context over app.checkTrunk, a tx whose gas price is not below        *)
(* app.lastMinGasPrice and whose sender can pay the fee from the check   *)
(* trunk, earlier CheckTx deductions included, is accepted; DeductTxFee  *)
(* and the deferred ctx.Close(true) leave the deduction in the check     *)
(* trunk.  Decoding, the sender and the gas limit are taken to pass and  *)
(* CheckNonce's error is ignored, as in the code; a rejected tx changes  *)
(* nothing.  app.lastMinGasPrice is the committed LastMinGasPrice slot.  *)
CheckTx(tx) ==
    /\ panicked = "none" /\ phase \notin {"Reloading", "Recording"}
    /\ ~(GasPrice < committed.trunk.lastMgp)
    /\ CheckTrunkBal[tx.from] - admitted[tx.from] >= GasFee
    /\ admitted[tx.from] < MaxAdmitted * GasFee
    /\ admitted' = [admitted EXCEPT ![tx.from] = @ + GasFee]
    /\ UNCHANGED <<phase, height, blockTime, trunk, mtxHeld, collected, executing, gasAcc,
                   lastGasFee, slashVals, voters, proposer, tmPower, currVals, epochChan,
                   epochList, pushed, endCtx, readonlyLoaded, committed, crashes,
                   recorded, panicked>>

(* The watcher goroutine (package staking, not among these sources)      *)
(* sends an epoch that ended at the current block time.                  *)
WatcherSend(noms) ==
    /\ pushed < MaxEpochs /\ panicked = "none"
    /\ epochChan' = Append(epochChan, [noms |-> noms, endTime |-> blockTime])
    /\ pushed' = pushed + 1
    /\ UNCHANGED <<phase, height, blockTime, trunk, mtxHeld, collected, executing, gasAcc,
                   lastGasFee, slashVals, voters, proposer, tmPower, currVals, epochList,
                   endCtx, readonlyLoaded, committed, crashes, admitted, recorded, panicked>>

(* The process stops at any point and restarts.  What the last Commit    *)
(* flushed survives: the trunk (its refresh closed it with the standby   *)
(* queue Prepare filled) and consensus's own state, saved after Commit.  *)
(* Everything else is rebuilt by NewApp: currValidators from the staking *)
(* info, the height from the last block info, a new watcher and epoch    *)
(* list, a nil readonlyStakingInfo; then Init/reload locks app.mtx and   *)
(* runs postCommit on the standby queue before consensus resumes with    *)
(* the block after the committed one.                                    *)
NewAppValidators(tr) == GetActiveValidators(tr.info, MinimumStakingAmount)

Crash ==
    /\ crashes < MaxCrashes /\ panicked = "none"
    /\ crashes' = crashes + 1
    /\ trunk' = committed.trunk
    /\ height' = committed.height
    /\ blockTime' = committed.time
    /\ tmPower' = committed.tmPower
    /\ currVals' = NewAppValidators(committed.trunk)
    /\ phase' = IF committed.height # 0 THEN "Reloading" ELSE "Ready"
    /\ mtxHeld' = (committed.height # 0)
    /\ executing' = committed.standby
    /\ collected' = <<>> /\ gasAcc' = 0 /\ lastGasFee' = 0
    /\ slashVals' = {} /\ voters' = {}
    /\ epochChan' = <<>> /\ epochList' = <<>>
    /\ endCtx' = NoCtx
    /\ readonlyLoaded' = FALSE
    /\ admitted' = [a \in Addrs |-> 0]
    /\ UNCHANGED <<proposer, pushed, committed, recorded, panicked>>

Next ==
    \/ \E t \in blockTime..MaxTime, prop \in TmValidators, signed \in SUBSET TmValidators,
          evidence \in SUBSET (Byzantine \cap TmValidators) :
          BeginBlock(t, prop, IF height = 0 THEN {} ELSE signed, evidence)
    \/ \E tx \in Txs : DeliverTx(tx)
    \/ EndBlock
    \/ EndBlockSwitch
    \/ \E sb \in BOOLEAN : Commit(sb)
    \/ Refresh
    \/ PostCommitExec
    \/ PostCommitDone
    \/ \E noms \in Nominations : WatcherSend(noms)
    \/ Crash
    \/ \E tx \in CheckTxs : CheckTx(tx)

Spec == Init /\ [][Next]_vars

-----------------------------------------------------------------------------
(* Properties *)

Supply == FoldSet(LAMBDA a, acc : acc + GenesisAlloc[a], 0, Accounts)
SumStaked(info) == FoldLeft(LAMBDA acc, v : acc + v.staked, 0, info.vals)
SumPending(info) == FoldLeft(LAMBDA acc, r : acc + r.amount, 0, info.rewards)

TypeOK ==
    /\ phase \in {"Ready", "InBlock", "Switching", "Ended", "Recording", "Reloading"}
    /\ height \in 0..MaxHeight /\ blockTime \in 0..MaxTime
    /\ trunk.bal \in [Accounts -> 0..(Modulus - 1)]
    /\ mtxHeld \in BOOLEAN
    /\ collected \in Seq(Txs) /\ executing \in Seq(Txs)
    /\ {gasAcc, lastGasFee} \subseteq Nat
    /\ slashVals \subseteq Pubkeys /\ voters \subseteq Pubkeys /\ proposer \in Pubkeys
    /\ tmPower \in [Pubkeys -> Nat]
    /\ pushed \in 0..MaxEpochs
    /\ (phase = "Switching") = (endCtx # NoCtx)
    /\ readonlyLoaded \in BOOLEAN
    /\ admitted \in [Addrs -> Nat]
    /\ recorded \subseteq 1..MaxHeight

(* The staking contract's balance on the trunk is what it owes (stake   *)
(* plus pending rewards), whatever postCommit's txs and EndBlock's      *)
(* SwitchEpoch context do in between each other.                        *)
StakingBacked == trunk.bal[StakingAcc] = SumStaked(trunk.info) + SumPending(trunk.info)

(* No coin is created or lost on the trunk: a tx that postCommit        *)
(* executes while EndBlock's context is open must not be undone by the  *)
(* context's write-back.                                                 *)
SupplyConserved == FoldSet(LAMBDA a, acc : acc + trunk.bal[a], 0, Accounts) = Supply

(* The node never panics.                                                *)
NoPanic == panicked = "none"

(* Every committed block but the last has its history record, once      *)
(* refresh has finished.  A crash after refresh flushed the trunk and    *)
(* before historyStore.AddBlock loses the record for good: the restarted *)
(* node resumes after the flushed height and never writes it.            *)
HistoryComplete ==
    phase # "Recording" =>
        recorded = 1..(committed.height - 1)

(* Every tendermint validator is a validator of the staking info, so    *)
(* Commit can map each voter and the proposer to a pubkey.              *)
ConsensusValidatorsKnown ==
    \A pk \in TmValidators : ValIdxByPubkey(trunk.info, pk) # 0
=============================================================================
