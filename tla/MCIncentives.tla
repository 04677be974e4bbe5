---------------------------- MODULE MCIncentives ----------------------------
(***************************************************************************)
(* Instances of Incentives for TLC: one validator and its operator, one    *)
(* delegator, two pools.                                                   *)
(***************************************************************************)
EXTENDS Incentives

CONSTANTS val, op, del, q1, q2

MCPools == {q1, q2}
MCAccounts == {op, del}
MCValidators == {val}
MCOperator == [v \in MCValidators |-> op]

Shares(a, d) == [c \in MCAccounts \X MCValidators |-> IF c[1] = op THEN a ELSE d]
MCDelegations == {Shares(2, 2), Shares(3, 0)}

(* A vote for two pools with weights below one, and one against a pool. *)
MCBallots == {[p \in {q1, q2} |-> IF p = q1 THEN One \div 4 ELSE One \div 2],
              [p \in {q2} |-> -One]}

(* The conditions under which two of the properties are proved. *)
ASSUME InstanceRounding == RoundingBelowToken /\ RoundingBelowStep
=============================================================================
