CONSTANTS
    a1 = a1
    a2 = a2
    pk1 = pk1
    pk2 = pk2
    pkT = pkT
    Addrs = {a1, a2}
    Pubkeys = {pk1, pk2, pkT}
    ZeroAddr = ZeroAddr
    StakingAcc = StakingAcc
    SystemAcc = SystemAcc
    BlackHole = BlackHole
    TestValAddr = TestValAddr
    TestPubkey = pkT
    Modulus = 65536
    InitialStakingAmount = 2
    MinimumStakingAmount = 2
    SlashedStakingAmount = 1
    MinMinGasPrice = 0
    MaxMinGasPrice = 500
    GenesisValidators <- MCNoGenesisValidators
    GenesisAlloc <- MCGenesisAlloc
    InitMinGasPrice = 0
    Values = {0, 3}
    Fees = {1}
    Nominations <- MCNominations
    Byzantine = {}
    Retirers = {a1}
    RewardTos = {ZeroAddr, a2}
    MaxEpoch = 2
    MaxBurnt = 3
SPECIFICATION Spec
INVARIANT TypeOK
INVARIANT StakingBacked
INVARIANT SupplyConserved
INVARIANT NoPanic
PROPERTY FeeFullyCredited
PROPERTY RegistryRefined
CHECK_DEADLOCK FALSE
