----------------------------- MODULE MCRpcClient -----------------------------
(* A node with two blocks: the coinbase of block 0 carries pk1 in its     *)
(* only output; the coinbase of block 1 has an output without an asm,     *)
(* a tagged script of the wrong length, then pk2.                         *)
EXTENDS RpcClient

CONSTANTS h0, h1, tx0, tx1, pk1, pk2

Tagged == "OP_RETURN " \o Identifier \o Version

MCChain ==
    <<[hash |-> h0, time |-> 10,
       coinbase |-> [txid |-> tx0,
                     vouts |-> <<[kind |-> "script", prefix |-> Tagged, rest |-> "pubkey", pk |-> pk1]>>]],
      [hash |-> h1, time |-> 20,
       coinbase |-> [txid |-> tx1,
                     vouts |-> <<[kind |-> "missing"],
                                 [kind |-> "script", prefix |-> Tagged, rest |-> "wrongLength", pk |-> pk2],
                                 [kind |-> "script", prefix |-> Tagged, rest |-> "pubkey", pk |-> pk2]>>]]>>
=============================================================================
