CONSTANTS
    a1 = a1
    a2 = a2
    a3 = a3
    zeroAddr = zeroAddr
    selSum = selSum
    selOther = selOther
    Addrs = {a1, a2, a3}
    Junk = {zeroAddr, a1}
    Vals <- MCVals
    Selectors = {selSum, selOther}
    SelectorSumVotingPower = selSum
    MaxWords = 4
SPECIFICATION Spec
INVARIANT RunMatchesReference
