----------------------------- MODULE RunContract -----------------------------
(***************************************************************************)
(* What the AF-v1 contract promises about one agent run: it is planned     *)
(* once, pays for each plan step before it moves past it, moves past one   *)
(* step at a time, succeeds only at the end of its plan, and stays in the  *)
(* terminal status it reached.                                             *)
(***************************************************************************)
EXTENDS Integers

CONSTANTS PlanLength, Failures

VARIABLES status, next, paid

contractVars == <<status, next, paid>>

Init == status = "queued" /\ next = 0 /\ paid = {}

StartPlanning == status = "queued" /\ status' = "planning" /\ UNCHANGED <<next, paid>>

StartRunning == status = "planning" /\ status' = "running" /\ UNCHANGED <<next, paid>>

Pay ==
    /\ status = "running" /\ next < PlanLength
    /\ paid' = paid \cup {next}
    /\ UNCHANGED <<status, next>>

Advance ==
    /\ status = "running" /\ next \in paid
    /\ next' = next + 1
    /\ UNCHANGED <<status, paid>>

Stop ==
    /\ status \in {"planning", "running"}
    /\ status' \in Failures
    /\ next' = 0
    /\ UNCHANGED paid

Succeed ==
    /\ status = "running" /\ next = PlanLength
    /\ status' = "succeeded"
    /\ next' = 0
    /\ UNCHANGED paid

Next == StartPlanning \/ StartRunning \/ Pay \/ Advance \/ Stop \/ Succeed

Spec == Init /\ [][Next]_contractVars
=============================================================================
