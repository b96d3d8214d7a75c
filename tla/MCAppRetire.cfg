CONSTANTS
    a1 = a1
    a2 = a2
    pk1 = pk1
    pk2 = pk2
    pkT = pkT
    Addrs = {a1, a2}
    Pubkeys = {pk1, pk2, pkT}
    ZeroAddr = ZeroAddr
    StakingAcc = StakingAcc
    SystemAcc = SystemAcc
    BlackHole = BlackHole
    TestValAddr = TestValAddr
    TestPubkey = pkT
    Modulus = 65536
    InitialStakingAmount = 2
    MinimumStakingAmount = 2
    SlashedStakingAmount = 1
    MinMinGasPrice = 0
    MaxMinGasPrice = 500
    GenesisValidators <- MCNoGenesisValidators
    GenesisAlloc <- MCRetireAlloc
    InitMinGasPrice = 0
    Txs <- MCRetireTxs
    GasFee = 1
    Nominations <- MCNominations
    Byzantine = {}
    EpochWait = 1
    MaxHeight = 6
    MaxTime = 5
    MaxEpochs = 3
    MaxBlockTxs = 1
    MaxCrashes = 0
    GasPrice = 1
    CheckTxs = {}
    MaxAdmitted = 2
SPECIFICATION Spec
INVARIANT ConsensusValidatorsKnown
CHECK_DEADLOCK FALSE
