-------------------------- MODULE ValidatorRegistry --------------------------
(***************************************************************************)
(* What the staking contract promises about its validator records, with  *)
(* rewards, voting power, fees and balances left out.  The record of an   *)
(* address is its status, unregistered ("none"), staking or retiring, and *)
(* its stake.                                                              *)
(*   - createValidator registers an unregistered address with its stake;   *)
(*   - editValidator and retire add the coins they carry to the stake, and *)
(*     retire marks the validator retiring; nothing takes the mark back;   *)
(*   - an epoch switch removes retiring validators, and only those;       *)
(*   - nothing else changes a stake.                                       *)
(* Staking.tla is checked to implement this specification.                 *)
(***************************************************************************)
EXTENDS Naturals

CONSTANT Holders   \* the addresses that may own a validator record

VARIABLE records   \* address -> [status, stake]

Unregistered == [status |-> "none", stake |-> 0]

Init ==
    \A a \in Holders :
        \/ records[a] = Unregistered
        \/ records[a].status = "staking" /\ records[a].stake \in Nat

(* The moves a record may make in one step: registration, the retiring  *)
(* mark, and removal of a retiring validator.                            *)
Moves ==
    {<<"none", "staking">>, <<"staking", "retiring">>, <<"retiring", "none">>}

(* One record's step: its status stays or moves along the lifecycle; a   *)
(* registered stake only grows, a new record takes any stake, and an     *)
(* unregistered address holds none.                                      *)
RecordStep(old, new) ==
    /\ old.status = new.status \/ <<old.status, new.status>> \in Moves
    /\ new.stake \in Nat
    /\ new.status = "none" => new = Unregistered
    /\ old.status # "none" /\ new.status # "none" => new.stake >= old.stake

(* createValidator, editValidator, retire and an epoch switch each change *)
(* some records, every one of them by a legal step.                       *)
Next ==
    LET old == records
        new == records'
    IN \A a \in Holders : RecordStep(old[a], new[a])

Spec == Init /\ [][Next]_records
=============================================================================
