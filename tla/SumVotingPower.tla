--------------------------- MODULE SumVotingPower ---------------------------
(***************************************************************************)
(* The sumVotingPower precompile: StakingContractExecutor.Run and          *)
(* its two loops (staking/staking.go:155-183).  The ABI input is the      *)
(* selector, an offset word, a length word and one 32-byte word per        *)
(* address; a word is abstracted to the address in its low 20 bytes.       *)
(*                                                                         *)
(* Run's decoding loop advances i by 32 bytes but slices at i*32, so it    *)
(* reads word i, not word i/32.  A slice that ends past len(input) either  *)
(* panics (past cap) or reads whatever memory lies behind the input (the   *)
(* EVM passes a window of its memory); both outcomes are kept, the bytes   *)
(* read being any of Junk.                                                 *)
(*                                                                         *)
(* A caller builds the address list one word at a time (AppendAddr), or    *)
(* sets the selector (SetSelector); every state is a call of Run.          *)
(***************************************************************************)
EXTENDS Naturals, Sequences, SequencesExt

CONSTANTS
    Addrs,                   \* the addresses a caller may list
    Junk,                    \* what a read past the input may decode to
    Vals,                    \* readonlyStakingInfo.Validators: [addr, rewardTo, power]
    Selectors,               \* the 4-byte selectors a caller may send
    SelectorSumVotingPower,
    MaxWords                 \* bound on the length of the address list

VARIABLES selector, words
vars == <<selector, words>>

(***************************************************************************)
(* The decoding loop over the stripped input of n = Len(ws) words, as the  *)
(* set of its possible outcomes: [panics, addrMap].  i is the byte         *)
(* counter of the code; the slice read is input[i*32+12 : i*32+32].        *)
(***************************************************************************)
RECURSIVE DecodeLoop(_, _, _)
DecodeLoop(ws, i, addrMap) ==
    IF ~(i + 32 < 32 * Len(ws))
    THEN {[panics |-> FALSE, addrMap |-> addrMap]}
    ELSE IF i * 32 + 32 <= 32 * Len(ws)
         THEN DecodeLoop(ws, i + 32, addrMap \cup {ws[i + 1]})
         ELSE {[panics |-> TRUE, addrMap |-> addrMap]}
              \cup UNION {DecodeLoop(ws, i + 32, addrMap \cup {j}) : j \in Junk}

\* The loop over readonlyStakingInfo.Validators, counting a validator when
\* its address or its rewardTo was listed, once per validator address.
SumLoop(addrMap) ==
    LET step(acc, val) ==
          LET listed == val.addr \in addrMap \/ val.rewardTo \in addrMap
              count  == listed /\ val.addr \notin acc.counted
          IN [summed  |-> IF count THEN acc.summed + val.power ELSE acc.summed,
              counted |-> IF count THEN acc.counted \cup {val.addr} ELSE acc.counted,
              total   |-> acc.total + val.power]
    IN FoldLeft(step, [summed |-> 0, counted |-> {}, total |-> 0], Vals)

\* The possible outcomes of Run: "invalid" (InvalidArgument), "panic", or
\* "ok" with the two result words.
Run(sel, ws) ==
    IF sel # SelectorSumVotingPower
    THEN {[status |-> "invalid", summed |-> 0, total |-> 0]}
    ELSE {IF d.panics
          THEN [status |-> "panic", summed |-> 0, total |-> 0]
          ELSE LET s == SumLoop(d.addrMap)
               IN [status |-> "ok", summed |-> s.summed, total |-> s.total]
          : d \in DecodeLoop(ws, 0, {})}

(***************************************************************************)
(* The reference: what the ABI and the spec say sumVotingPower returns.    *)
(* summed is the power of the validators whose address or rewardTo is in   *)
(* the list, each validator address counted once; total is all the power.  *)
(***************************************************************************)
Listed(ws) == {ws[k] : k \in 1..Len(ws)}
RECURSIVE PowerOf(_)
PowerOf(S) ==
    IF S = {} THEN 0
    ELSE LET a == CHOOSE x \in S : TRUE
             firstVal == Vals[SelectInSeq(Vals, LAMBDA v : v.addr = a)]
         IN firstVal.power + PowerOf(S \ {a})
ReferenceSum(ws) ==
    LET matched == {Vals[k].addr : k \in {k \in 1..Len(Vals) :
                        Vals[k].addr \in Listed(ws) \/ Vals[k].rewardTo \in Listed(ws)}}
    IN [status |-> "ok", summed |-> PowerOf(matched),
        total |-> FoldLeft(LAMBDA acc, v : acc + v.power, 0, Vals)]

Init ==
    /\ selector = SelectorSumVotingPower
    /\ words = <<>>

AppendAddr(a) ==
    /\ Len(words) < MaxWords
    /\ words' = Append(words, a)
    /\ UNCHANGED selector

SetSelector(s) ==
    /\ selector' = s
    /\ UNCHANGED words

Next ==
    \/ \E a \in Addrs : AppendAddr(a)
    \/ \E s \in Selectors : SetSelector(s)

Spec == Init /\ [][Next]_vars

TypeOK ==
    /\ selector \in Selectors
    /\ words \in Seq(Addrs)
    /\ Len(words) <= MaxWords

(***************************************************************************)
(* Properties                                                              *)
(***************************************************************************)

\* Run returns the sum the spec defines: with the right selector, every
\* outcome of the decoding loop at staking.go:165-168 yields the power of
\* the validators named in the list.  A list of one address reads nothing.
RunMatchesReference ==
    selector = SelectorSumVotingPower =>
        \A r \in Run(selector, words) : r = ReferenceSum(words)

=============================================================================
