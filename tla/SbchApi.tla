------------------------------- MODULE SbchApi -------------------------------
(***************************************************************************)
(* The block-range handling of the sbch JSON-RPC API, rpc/api/sbch_api.go: *)
(* GetTxListByHeight, QueryTxBySrc/Dst/Addr (through prepareHeightRange)   *)
(* and QueryLogs.  A requested block number is an int64 (gethrpc.Block-    *)
(* Number, -1 for "latest"); each "latest" bound is resolved by its own    *)
(* call of backend.LatestHeight(), and the result is cut to uint32.        *)
(*                                                                         *)
(* The uint32 of the code is modelled with a width W bits (% 2^W), so that *)
(* TLC reaches the wrap with small numbers; the arithmetic is the code's.  *)
(* The chain advances (NewBlock) between any two steps of a query, as      *)
(* Commit does while an RPC goroutine runs.                                *)
(*                                                                         *)
(* prepareHeightRange turns the inclusive range the caller asked for into  *)
(* a pair whose larger end is exclusive: it increments endHeight when the  *)
(* range ascends and startHeight when it descends.                         *)
(***************************************************************************)
EXTENDS Integers

CONSTANTS
    W,            \* bits of the uint32 conversion
    Requests,     \* block numbers a caller may send (-1 is "latest")
    MaxLatest     \* bound on the chain height

LatestBlockNumber == -1

Uint32(x) == x % (2 ^ W)

VARIABLES
    latest,   \* backend.LatestHeight()
    pc,       \* "idle", or the query ("tx", "logs") whose end bound is next
    req,      \* the query in progress: requested bounds and resolved start
    last      \* the last answered query, or [kind |-> "none"]

vars == <<latest, pc, req, last>>

NoQuery == [kind |-> "none"]

(* `if h == gethrpc.LatestBlockNumber { h = BlockNumber(LatestHeight()) }` *)
Resolve(h, l) == IF h = LatestBlockNumber THEN l ELSE h

(* prepareHeightRange after the two bounds are resolved.                  *)
PrepareHeightRange(startHeight, endHeight) ==
    IF startHeight > endHeight
    THEN <<Uint32(startHeight + 1), Uint32(endHeight)>>
    ELSE <<Uint32(startHeight), Uint32(endHeight + 1)>>

Init ==
    /\ latest = 0
    /\ pc = "idle"
    /\ req = NoQuery
    /\ last = NoQuery

(* Commit makes a new block the latest.                                   *)
NewBlock ==
    /\ latest < MaxLatest
    /\ latest' = latest + 1
    /\ UNCHANGED <<pc, req, last>>

(* GetTxListByHeight: one LatestHeight() read, then uint32(height).       *)
GetTxListByHeight(h) ==
    /\ pc = "idle"
    /\ last' = [kind |-> "txlist", s |-> h, e |-> h, start |-> Resolve(h, latest),
                end |-> Resolve(h, latest), out |-> <<Uint32(Resolve(h, latest)),
                                                     Uint32(Resolve(h, latest))>>]
    /\ UNCHANGED <<latest, pc, req>>

(* QueryTxBySrc/Dst/Addr and QueryLogs, up to the resolution of startHeight. *)
QueryStart(kind, s, e) ==
    /\ pc = "idle"
    /\ pc' = kind
    /\ req' = [s |-> s, e |-> e, start |-> Resolve(s, latest)]
    /\ UNCHANGED <<latest, last>>

(* The resolution of endHeight by a second LatestHeight() read, then      *)
(* prepareHeightRange (QueryTxBy..) or the plain uint32 casts (QueryLogs). *)
QueryEnd ==
    /\ pc # "idle"
    /\ LET end == Resolve(req.e, latest)
           out == IF pc = "tx" THEN PrepareHeightRange(req.start, end)
                  ELSE <<Uint32(req.start), Uint32(end)>>
       IN last' = [kind |-> pc, s |-> req.s, e |-> req.e, start |-> req.start,
                   end |-> end, out |-> out]
    /\ pc' = "idle"
    /\ req' = NoQuery
    /\ UNCHANGED latest

Next ==
    \/ NewBlock
    \/ \E h \in Requests : GetTxListByHeight(h)
    \/ \E kind \in {"tx", "logs"}, s, e \in Requests : QueryStart(kind, s, e)
    \/ QueryEnd

Spec == Init /\ [][Next]_vars

-----------------------------------------------------------------------------
(* Properties *)

(* The heights a pair from prepareHeightRange names: from the first      *)
(* toward the second, the larger one excluded.                           *)
HalfOpen(p) ==
    IF p[1] <= p[2] THEN p[1]..(p[2] - 1) ELSE p[2]..(p[1] - 1)

Covered(q) == IF q.kind = "txlist" THEN {q.out[1]} ELSE HalfOpen(q.out)

Asked(q) ==
    IF q.start <= q.end THEN q.start..q.end ELSE q.end..q.start

TypeOK ==
    /\ latest \in 0..MaxLatest
    /\ pc \in {"idle", "tx", "logs"}
    /\ last.kind \in {"none", "txlist", "tx", "logs"}

(* The backend is asked for exactly the blocks the caller named, bounds   *)
(* included: GetTxListByHeight's height, and the range QueryTxBy.. gets    *)
(* from prepareHeightRange's increment of the larger bound and the two    *)
(* uint32 casts (sbch_api.go:83-96).                                      *)
RangeMatchesRequest ==
    last.kind \in {"txlist", "tx"} => Covered(last) = Asked(last)

(* A query from "latest" to "latest" asks for one block: both bounds of   *)
(* QueryTxBy.. and QueryLogs resolve to the same height, although each is  *)
(* read by its own backend.LatestHeight() call.                           *)
LatestReadOnce ==
    last.kind \in {"tx", "logs"} /\ last.s = LatestBlockNumber /\ last.e = LatestBlockNumber
        => last.start = last.end
=============================================================================
