-------------------------- MODULE MC_AgentRuntime --------------------------
(* Instances of AgentRuntime for TLC. *)
EXTENDS AgentRuntime, TLC

CONSTANTS t1, t2

(* Two plan steps of one credit each; and of zero and two credits. *)
FlatPrice == [i \in PlanSteps |-> 1]
MixedPrice == [i \in PlanSteps |-> IF i = 0 THEN 0 ELSE 2]

(* Tickers are interchangeable: used only where no liveness is checked. *)
TickerSymmetry == Permutations(Tickers)
=============================================================================
