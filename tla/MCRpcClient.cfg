CONSTANTS
    h0 = h0
    h1 = h1
    tx0 = tx0
    tx1 = tx1
    pk1 = pk1
    pk2 = pk2
    ZeroHash = ZeroHash
    Chain <- MCChain
    Replies = {"ok", "ioError", "rpcError"}
SPECIFICATION Spec
INVARIANT BlockMatchesChain
