------------------------------ MODULE RpcClient ------------------------------
(***************************************************************************)
(* The client of the BCH node's JSON-RPC API, staking/rpcclient.go, as    *)
(* the epoch watcher uses it: GetLatestHeight, GetBlockByHeight and        *)
(* GetBlockByHash, which build a types.BCHBlock from the getblockhash,     *)
(* getblock and getrawtransaction replies, its nomination taken from the  *)
(* OP_RETURN output of the coinbase tx (GetValidatorPubKey).              *)
(*                                                                         *)
(* Each request (sendRequest and json.Unmarshal) has one of three replies: *)
(*   "ok"       the result, for an object the node has;                    *)
(*   "ioError"  http.DefaultClient.Do or the body read fails: err is set;  *)
(*   "rpcError" a JSON-RPC error object with a null result, which the      *)
(*              node sends for an unknown height or hash (and while it     *)
(*              warms up).  Unmarshal succeeds (JsonRpcError's tag         *)
(*              "messsage" matches no key), the Error field is never read, *)
(*              and the result is the zero value of its type.              *)
(* A hex string from the node is abstracted to the hash it encodes, ""    *)
(* (decoding to 32 zero bytes) to ZeroHash.                                *)
(***************************************************************************)
EXTENDS Integers, Sequences, SequencesExt

CONSTANTS
    Chain,       \* the node's best chain: Chain[h+1] is block h, [hash, time, coinbase]
    Replies,     \* the replies a request for an existing object may get
    ZeroHash     \* the [32]byte a hex decoding of "" leaves

VARIABLES
    tip,    \* the node's block count: blocks 0..tip exist
    err,    \* client.err is set
    last    \* the last call and what it returned

vars == <<tip, err, last>>

MaxTip == Len(Chain) - 1

Identifier == "73424348"
Version == "00"

(* A vout's scriptPubKey["asm"]: missing or nil, not a string, or a      *)
(* script; a script is tagged when it starts with "OP_RETURN " followed  *)
(* by Identifier and Version, and its remainder is 64 hex characters of  *)
(* the pubkey, the wrong length, or not hex.                              *)
ValidScript(asm) ==
    /\ asm.kind = "script"
    /\ asm.prefix = "OP_RETURN " \o Identifier \o Version
    /\ asm.rest = "pubkey"

(* GetValidatorPubKey: the loop copies the pubkey of the first valid     *)
(* script and breaks; its `asm, ok :=` declares a new ok in the loop    *)
(* body, so the named result ok keeps its zero value, false.            *)
GetValidatorPubKey(ti) ==
    LET i == SelectInSeq(ti.vouts, ValidScript)
    IN [pubKey |-> IF i = 0 THEN ZeroHash ELSE ti.vouts[i].pk, ok |-> FALSE]

(* sendRequest and json.Unmarshal: the replies a request can get.        *)
SendRequest(exists) == IF exists THEN Replies ELSE Replies \ {"ok"}

Height(hash) == SelectInSeq(Chain, LAMBDA b : b.hash = hash) - 1

(* The BlockInfo of getblock: the zero value, or the block's.             *)
ZeroBlockInfo == [hash |-> "", prev |-> "", height |-> 0, time |-> 0, tx |-> <<>>]
BlockInfoOf(h) ==
    [hash |-> Chain[h + 1].hash, prev |-> IF h = 0 THEN "" ELSE Chain[h].hash,
     height |-> h, time |-> Chain[h + 1].time, tx |-> <<Chain[h + 1].coinbase.txid>>]

ZeroTxInfo == [txid |-> "", vouts |-> <<>>]

(* getBlockHashOfHeight, getBlock and getTx on a reply r: the result and *)
(* whether err is set.                                                   *)
GetBlockHashOfHeight(h, r) ==
    CASE r = "ioError" -> [res |-> "", err |-> TRUE]
      [] r = "rpcError" -> [res |-> "", err |-> FALSE]
      [] r = "ok" -> [res |-> Chain[h + 1].hash, err |-> FALSE]
GetBlock(hash, r) ==
    CASE r = "ioError" -> [res |-> ZeroBlockInfo, err |-> TRUE]
      [] r = "rpcError" -> [res |-> ZeroBlockInfo, err |-> FALSE]
      [] r = "ok" -> [res |-> BlockInfoOf(Height(hash)), err |-> FALSE]
GetTx(txid, r) ==
    CASE r = "ioError" -> [res |-> ZeroTxInfo, err |-> TRUE]
      [] r = "rpcError" -> [res |-> ZeroTxInfo, err |-> FALSE]
      [] r = "ok" -> [res |-> Chain[SelectInSeq(Chain, LAMBDA b : b.coinbase.txid = txid)].coinbase,
                      err |-> FALSE]

Decode(s) == IF s = "" THEN ZeroHash ELSE s
Known(hash) == hash # "" /\ \E i \in 1..(tip + 1) : Chain[i].hash = hash
KnownTx(txid) == \E i \in 1..(tip + 1) : Chain[i].coinbase.txid = txid

Nil == [kind |-> "nil"]
Panic == [kind |-> "panic"]

(* getBCHBlock(hash): the set of its outcomes over the replies, each     *)
(* [out, err].  bi.Tx[0] of a zero BlockInfo is an index out of range.  *)
GetBCHBlock(hash) ==
    UNION {LET gb == GetBlock(hash, r1) bi == gb.res IN
           IF gb.err THEN {[out |-> Nil, err |-> TRUE]}
           ELSE IF bi.tx = <<>> THEN {[out |-> Panic, err |-> FALSE]}
           ELSE {LET gt == GetTx(bi.tx[1], r2)
                     pk == GetValidatorPubKey(gt.res)
                     blk == [height |-> bi.height, time |-> bi.time, hashId |-> Decode(bi.hash),
                             parent |-> Decode(bi.prev),
                             noms |-> IF pk.ok THEN <<[pubkey |-> pk.pubKey, count |-> 1]>> ELSE <<>>]
                 IN IF gt.err THEN [out |-> Nil, err |-> TRUE]
                    ELSE [out |-> [kind |-> "block", block |-> blk], err |-> FALSE]
                 : r2 \in SendRequest(KnownTx(bi.tx[1]))}
          : r1 \in SendRequest(Known(hash))}

Init ==
    /\ tip \in 0..MaxTip
    /\ err = FALSE
    /\ last = [call |-> "none"]

(* The node accepts a new block.                                          *)
Mine ==
    /\ tip < MaxTip
    /\ tip' = tip + 1
    /\ UNCHANGED <<err, last>>

(* getCurrHeight on a reply r: the block count, -1 with err on a failed *)
(* request, 0 on an error reply.                                         *)
GetCurrHeight(r) ==
    CASE r = "ok" -> [res |-> tip, err |-> FALSE]
      [] r = "ioError" -> [res |-> -1, err |-> TRUE]
      [] r = "rpcError" -> [res |-> 0, err |-> FALSE]

GetLatestHeight ==
    /\ \E r \in SendRequest(TRUE) :
          err' = GetCurrHeight(r).err /\ last' = [call |-> "height", out |-> GetCurrHeight(r).res]
    /\ UNCHANGED tip

GetBlockByHeight(h) ==
    \E r \in SendRequest(h <= tip) :
        LET gh == GetBlockHashOfHeight(h, r)
        IN IF gh.err
           THEN err' = TRUE /\ last' = [call |-> "byHeight", h |-> h, out |-> Nil]
           ELSE \E o \in GetBCHBlock(gh.res) :
                    err' = o.err /\ last' = [call |-> "byHeight", h |-> h, out |-> o.out]
    /\ UNCHANGED tip

GetBlockByHash(hash) ==
    /\ \E o \in GetBCHBlock(hash) :
          err' = o.err /\ last' = [call |-> "byHash", h |-> Height(hash), out |-> o.out]
    /\ UNCHANGED tip

Next ==
    \/ Mine
    \/ GetLatestHeight
    \/ \E h \in 0..(MaxTip + 1) : GetBlockByHeight(h)
    \/ \E i \in 1..Len(Chain) : GetBlockByHash(Chain[i].hash)

Spec == Init /\ [][Next]_vars

-----------------------------------------------------------------------------
(* The block of the chain at height h, its nomination the pubkey of the  *)
(* first valid OP_RETURN output of its coinbase.                         *)
ChainBlock(h) ==
    LET vouts == Chain[h + 1].coinbase.vouts
        i == SelectInSeq(vouts, ValidScript)
    IN [height |-> h, time |-> Chain[h + 1].time, hashId |-> Chain[h + 1].hash,
        parent |-> IF h = 0 THEN ZeroHash ELSE Chain[h].hash,
        noms |-> IF i = 0 THEN <<>> ELSE <<[pubkey |-> vouts[i].pk, count |-> 1]>>]

TypeOK ==
    /\ tip \in 0..MaxTip
    /\ err \in BOOLEAN

(* GetBlockByHeight and GetBlockByHash return nil (with client.err set)  *)
(* or the block of the chain, its nomination included; they never       *)
(* panic.  The watcher builds epochs from these blocks, so a block      *)
(* without its coinbase nomination is a lost vote for a validator.      *)
BlockMatchesChain ==
    last.call \in {"byHeight", "byHash"} =>
        \/ last.out = Nil
        \/ last.out.kind = "block" /\ last.out.block = ChainBlock(last.h)
=============================================================================
