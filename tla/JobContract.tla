---------------------------- MODULE JobContract ----------------------------
(***************************************************************************)
(* What the publishing contract promises about jobs                        *)
(* (types/publishing/job-contract.ts, attempt-contract.ts): a job is       *)
(* carried out by one attempt after another, numbered from 1 up to the     *)
(* cap; an attempt and its job end together and alike, with success only   *)
(* for content the destination accepts; a job that succeeded is closed, a  *)
(* failed one may be attempted again, and one whose invocation died in the *)
(* middle of an attempt is never touched again.                            *)
(***************************************************************************)
EXTENDS Integers

CONSTANTS Jobs, Accepted, Numbers, MaxAttempts

VARIABLES
    stage,     \* of each job: its status, or how far the attempt in progress is
    count,     \* attempts counted
    outcomes   \* of each job's attempts, by number

contractVars == <<stage, count, outcomes>>

Init ==
    /\ stage = [c \in Jobs |-> "none"]
    /\ count = [c \in Jobs |-> 0]
    /\ outcomes = [c \in Jobs |-> [n \in Numbers |-> "none"]]

Move(c, from, to) == stage[c] \in from /\ stage' = [stage EXCEPT ![c] = to]
Record(c, outcome) == outcomes' = [outcomes EXCEPT ![c] = [outcomes[c] EXCEPT ![count[c]] = outcome]]

Create(c) == Move(c, {"none"}, "PENDING") /\ UNCHANGED <<count, outcomes>>

(* PENDING or FAILED -> RUNNING, below the cap. *)
Begin(c) ==
    /\ count[c] < MaxAttempts
    /\ Move(c, {"PENDING", "FAILED"}, "begun")
    /\ UNCHANGED <<count, outcomes>>

Number(c) ==
    /\ Move(c, {"begun"}, "counted")
    /\ count' = [count EXCEPT ![c] = count[c] + 1]
    /\ UNCHANGED outcomes

Open(c) ==
    /\ Move(c, {"counted"}, "open")
    /\ Record(c, "RUNNING")
    /\ UNCHANGED count

(* RUNNING -> SUCCEEDED or FAILED, the attempt with its job. *)
End(c, status) ==
    /\ status = "SUCCEEDED" => c \in Accepted
    /\ Move(c, {"open"}, status)
    /\ Record(c, status)
    /\ UNCHANGED count

Lose(c) == Move(c, {"begun", "counted", "open"}, "lost") /\ UNCHANGED <<count, outcomes>>

Next ==
    \E c \in Jobs :
        \/ Create(c) \/ Begin(c) \/ Number(c) \/ Open(c) \/ Lose(c)
        \/ \E status \in {"SUCCEEDED", "FAILED"} : End(c, status)

Spec == Init /\ [][Next]_contractVars
=============================================================================
