---------------------------- MODULE SocialOutbox ----------------------------
(***************************************************************************)
(* One post of the social outbox (services/social): each pass of the cron, *)
(* or of an admin's "Send now", prepares it once by its dedupeKey, lists   *)
(* it when it is approved, sends it to the channels and marks what they    *)
(* answered; an admin approves, skips or retries it.  Passes overlap and   *)
(* may die between two statements; a channel may take a post and answer    *)
(* too late to be heard.                                                   *)
(*                                                                         *)
(* Left out: what a post says, editing it, and the sources.                *)
(***************************************************************************)
EXTENDS Integers

CONSTANTS
    Passes,        \* passes that may overlap
    AutoApprove,   \* SOCIAL_AUTO_APPROVE: a prepared post is APPROVED
    MAX_ATTEMPTS,
    MaxDeaths,     \* bound: passes that die with a post sent and not marked
    MaxDecisions   \* bound: an admin's decisions

ASSUME SocialConstants == AutoApprove \in BOOLEAN /\ MAX_ATTEMPTS \in Nat \ {0}
                          /\ MaxDeaths \in Nat /\ MaxDecisions \in Nat

VARIABLES
    post, attempts,        \* the SocialPost row: status ("none": no row), attempts
    decision, decisions,   \* what an admin who read a post not SENT is about to write
    soPc, attemptsRead,    \* of each pass: place, attempts of the post it listed
    taken,                 \* history: whether a channel has taken the post
    again,                 \* history: and another time
    tries, deaths          \* history: sendings of each pass since a decision; passes that died so

postRow    == <<post, attempts>>
socialPast == <<taken, again, tries, deaths>>
socialVars == <<post, attempts, decision, decisions, soPc, attemptsRead, taken, again, tries, deaths>>

PostStatuses == {"none", "DRAFT", "APPROVED", "SENT", "SKIPPED", "FAILED"}

SocialInit ==
    /\ post = "none" /\ attempts = 0 /\ decision = "none" /\ decisions = 0
    /\ soPc = [p \in Passes |-> "idle"]
    /\ attemptsRead = [p \in Passes |-> 0]
    /\ taken = FALSE /\ again = FALSE
    /\ tries = [p \in Passes |-> 0] /\ deaths = 0

PassGoto(p, from, to) == soPc[p] = from /\ soPc' = [soPc EXCEPT ![p] = to]
PassEnds(p) ==
    /\ soPc' = [soPc EXCEPT ![p] = "idle"]
    /\ attemptsRead' = [attemptsRead EXCEPT ![p] = 0]

-----------------------------------------------------------------------------
(* exists(): without a row, and when the look-up fails, the post is built and *)
(* inserted ...                                                               *)
AlreadyPrepared(p) ==
    /\ PassGoto(p, "idle", "create") \/ (post # "none" /\ PassGoto(p, "idle", "list"))
    /\ UNCHANGED <<postRow, decision, decisions, attemptsRead, socialPast>>

(* ... unless a pass was faster (P2002).                                      *)
CreateIfNew(p) ==
    /\ PassGoto(p, "create", "list")
    /\ post' = IF post # "none" THEN post ELSE IF AutoApprove THEN "APPROVED" ELSE "DRAFT"
    /\ UNCHANGED <<attempts, decision, decisions, attemptsRead, socialPast>>

ListApproved(p) ==
    /\ soPc[p] = "list"
    /\ IF post # "APPROVED" THEN PassEnds(p)
       ELSE /\ soPc' = [soPc EXCEPT ![p] = "send"]
            /\ attemptsRead' = [attemptsRead EXCEPT ![p] = attempts]
    /\ UNCHANGED <<postRow, decision, decisions, socialPast>>

(* dispatchPost(): a channel that took the post need not have said so in time. *)
DispatchPost(p) ==
    /\ \E took, heard \in BOOLEAN :
         /\ heard => took
         /\ taken' = (taken \/ took) /\ again' = (again \/ (taken /\ took))
         /\ PassGoto(p, "send", IF heard THEN "sent" ELSE "failed")
    /\ tries' = [tries EXCEPT ![p] = @ + 1]
    /\ UNCHANGED <<postRow, decision, decisions, attemptsRead, deaths>>

MarkSent(p) ==
    /\ soPc[p] = "sent" /\ PassEnds(p)
    /\ post' = "SENT" /\ attempts' = attempts + 1
    /\ UNCHANGED <<decision, decisions, socialPast>>

Bug_Final(p) == attemptsRead[p] > MAX_ATTEMPTS

Final(p) == attemptsRead[p] + 1 >= MAX_ATTEMPTS

MarkAttempt(p) ==
    /\ soPc[p] = "failed" /\ PassEnds(p)
    /\ post' = IF Final(p) THEN "FAILED" ELSE post
    /\ attempts' = attempts + 1
    /\ UNCHANGED <<decision, decisions, socialPast>>

PassDies(p) ==
    /\ soPc[p] # "idle" /\ PassEnds(p)
    /\ IF soPc[p] \in {"sent", "failed"} THEN deaths < MaxDeaths /\ deaths' = deaths + 1 ELSE UNCHANGED deaths
    /\ UNCHANGED <<postRow, decision, decisions, taken, again, tries>>

-----------------------------------------------------------------------------
(* PATCH: a post read SENT is refused, another one written by its id.         *)
Decide(what) ==
    /\ decision = "none" /\ post \notin {"none", "SENT"}
    /\ decision' = what
    /\ decisions < MaxDecisions /\ decisions' = decisions + 1
    /\ UNCHANGED <<postRow, soPc, attemptsRead, socialPast>>

WriteDecision ==
    /\ decision # "none" /\ decision' = "none"
    /\ post' = IF decision = "skip" THEN "SKIPPED" ELSE "APPROVED"
    /\ attempts' = IF decision = "retry" THEN 0 ELSE attempts
    /\ tries' = [p \in Passes |-> 0] /\ deaths' = 0
    /\ UNCHANGED <<decisions, soPc, attemptsRead, taken, again>>

SocialNext ==
    \/ \E p \in Passes :
         \/ AlreadyPrepared(p) \/ CreateIfNew(p) \/ ListApproved(p) \/ DispatchPost(p)
         \/ MarkSent(p) \/ MarkAttempt(p) \/ PassDies(p)
    \/ \E what \in {"approve", "skip", "retry"} : Decide(what)
    \/ WriteDecision

SocialSpec == SocialInit /\ [][SocialNext]_socialVars

-----------------------------------------------------------------------------
(* The post and the passes have the shape the schema and the code give them.  *)
SocialTypeOK ==
    /\ post \in PostStatuses /\ attempts \in Nat
    /\ decision \in {"none", "approve", "skip", "retry"} /\ decisions \in 0 .. MaxDecisions
    /\ soPc \in [Passes -> {"idle", "create", "list", "send", "sent", "failed"}]
    /\ attemptsRead \in [Passes -> Nat]
    /\ taken \in BOOLEAN /\ again \in BOOLEAN
    /\ tries \in [Passes -> Nat] /\ deaths \in Nat

(* runner.ts:18, MAX_ATTEMPTS: the last attempt is recognised by a count read *)
(* before it, which others have raised or an admin has reset since; still no  *)
(* pass sends a post more often than that between two decisions, but for the  *)
(* passes that died before they could count.                                  *)
TriesBounded == \A p \in Passes : tries[p] <= MAX_ATTEMPTS + deaths

(* runner.ts:5, "sent once: a re-run, an overlapping run or a retry can never *)
(* produce a second post"; does not hold.                                     *)
SentOnce == ~ again

(* admin/social/route.ts:44, "a sent post cannot be changed"; does not hold:  *)
(* the admin's write, or another pass's failed attempt, comes after.          *)
SentIsFinal == [][post = "SENT" => post' = "SENT"]_socialVars
=============================================================================
