-------------------------- MODULE MC_CreditLedger --------------------------
(* Instances of CreditLedger for TLC. *)
EXTENDS CreditLedger, TLC

CONSTANTS c1, c2, c3, reserve0, reserve1, topup0, refund0

OneTerm  == {[allowance |-> 2, period |-> 1]}
TwoTerms == {[allowance |-> 2, period |-> 1], [allowance |-> 1, period |-> 2]}
LowTerm  == {[allowance |-> 5, period |-> 1]}

(* Callers are interchangeable: used only where no liveness is checked. *)
CallerSymmetry == Permutations(Callers)
=============================================================================
