----------------------------- MODULE AlertRules -----------------------------
(***************************************************************************)
(* One alert rule of a synced account (services/live-sync) or of a market  *)
(* (services/market-alerts).  A check notes the time, reads the rule, looks *)
(* at the account or the market for a while, writes the rule by            *)
(* compare-and-set and then tells the owner, who may save the rule         *)
(* meanwhile.  Checks overlap: one follows every stored snapshot, others   *)
(* are a cron's.                                                           *)
(*                                                                         *)
(* What a check measures may be anything.  Left out: what is measured, the *)
(* channels an announcement takes, a change of the cooldown, and the limit *)
(* of rules for a user.                                                    *)
(***************************************************************************)
EXTENDS Integers, Sequences

CONSTANTS
    Checks,      \* runs of the alerts that may overlap
    Cooldown,    \* cooldownMin
    MaxTime      \* bound: the clock

ASSUME AlertConstants == Cooldown \in Nat \ {0} /\ MaxTime \in Nat \ {0}

VARIABLES
    ruleTable,   \* "account" (LiveSyncAlertRule) or "market" (MarketAlertRule)
    alertClock,
    enabled, firing, lastFired,   \* the rule: enabled, state = "firing", lastFiredAt (0: null)
    announced,   \* history: lastFiredAt of each announcement, for an account since the rule was saved
    alPc, startedAt, ruleRead     \* of each check: place, its nowDate, the rule it read

alertRow  == <<enabled, firing, lastFired, announced>>
alertVars == <<ruleTable, alertClock, enabled, firing, lastFired, announced, alPc, startedAt, ruleRead>>

Times == 0 .. MaxTime
RuleCopies == [enabled : BOOLEAN, firing : BOOLEAN, lastFired : Times]
NoRule == [enabled |-> FALSE, firing |-> FALSE, lastFired |-> 0]
RuleNow == [enabled |-> enabled, firing |-> firing, lastFired |-> lastFired]

AlertInit ==
    /\ ruleTable \in {"account", "market"} /\ alertClock = 1
    /\ enabled = TRUE /\ firing = FALSE /\ lastFired = 0 /\ announced = <<>>
    /\ alPc = [c \in Checks |-> "idle"]
    /\ startedAt = [c \in Checks |-> 0]
    /\ ruleRead = [c \in Checks |-> NoRule]

CheckEnds(c) ==
    /\ alPc' = [alPc EXCEPT ![c] = "idle"]
    /\ startedAt' = [startedAt EXCEPT ![c] = 0]
    /\ ruleRead' = [ruleRead EXCEPT ![c] = NoRule]

-----------------------------------------------------------------------------
StartCheck(c) ==
    /\ alPc[c] = "idle" /\ alPc' = [alPc EXCEPT ![c] = "read"]
    /\ startedAt' = [startedAt EXCEPT ![c] = alertClock]
    /\ UNCHANGED <<ruleTable, alertClock, alertRow, ruleRead>>

(* findMany(); the market's lists enabled rules only.                         *)
Listed == ruleTable = "market" => enabled

ReadRule(c) ==
    /\ alPc[c] = "read"
    /\ IF ~ Listed THEN CheckEnds(c)
       ELSE /\ alPc' = [alPc EXCEPT ![c] = "look"]
            /\ ruleRead' = [ruleRead EXCEPT ![c] = RuleNow]
            /\ UNCHANGED startedAt
    /\ UNCHANGED <<ruleTable, alertClock, alertRow>>

Cooled(rule, time) == rule.lastFired = 0 \/ time - rule.lastFired >= Cooldown

(* nextTransition(): a disabled rule is put at rest, no data changes nothing. *)
NextTransition(rule, found, time) ==
    CASE ~ rule.enabled      -> IF rule.firing THEN "resolve" ELSE "none"
      [] found = "breached"  -> IF Cooled(rule, time) THEN "fire" ELSE "none"
      [] found = "clear"     -> IF rule.firing THEN "resolve" ELSE "none"
      [] OTHER               -> "none"

Bug_Unchanged(rule) == firing = rule.firing

(* updateMany() with a where of what was read.                                *)
Unchanged(rule) == firing = rule.firing /\ lastFired = rule.lastFired

Evaluate(c) ==
    /\ alPc[c] = "look"
    /\ \E found \in {"breached", "clear", "no data"} :
         LET action == NextTransition(ruleRead[c], found, startedAt[c]) IN
         IF action = "none" \/ ~ Unchanged(ruleRead[c]) THEN CheckEnds(c) /\ UNCHANGED alertRow
         ELSE \/ /\ action = "resolve" /\ firing' = FALSE
                 /\ CheckEnds(c) /\ UNCHANGED <<enabled, lastFired, announced>>
              \/ /\ action = "fire" /\ firing' = TRUE
                 /\ lastFired' = startedAt[c] /\ announced' = Append(announced, startedAt[c])
                 /\ alPc' = [alPc EXCEPT ![c] = "tell"]
                 /\ UNCHANGED <<enabled, startedAt, ruleRead>>
    /\ UNCHANGED <<ruleTable, alertClock>>

(* Best effort: the check ends whether the notices arrive, fail or die with it. *)
Tell(c) == alPc[c] = "tell" /\ CheckEnds(c) /\ UNCHANGED <<ruleTable, alertClock, alertRow>>
AlertCrash(c) == alPc[c] \in {"read", "look"} /\ CheckEnds(c) /\ UNCHANGED <<ruleTable, alertClock, alertRow>>

(* PUT: "starts clean"; the market's keeps lastFiredAt.                       *)
SaveRule ==
    /\ enabled' \in BOOLEAN /\ firing' = FALSE
    /\ IF ruleTable = "account" THEN lastFired' = 0 /\ announced' = <<>>
       ELSE UNCHANGED <<lastFired, announced>>
    /\ UNCHANGED <<ruleTable, alertClock, alPc, startedAt, ruleRead>>

TimePasses ==
    /\ alertClock < MaxTime /\ alertClock' = alertClock + 1
    /\ UNCHANGED <<ruleTable, alertRow, alPc, startedAt, ruleRead>>

AlertNext ==
    \/ \E c \in Checks : StartCheck(c) \/ ReadRule(c) \/ Evaluate(c) \/ Tell(c) \/ AlertCrash(c)
    \/ SaveRule \/ TimePasses

AlertSpec == AlertInit /\ [][AlertNext]_alertVars

-----------------------------------------------------------------------------
(* The rule and the checks have the shape the schema and the code give them.  *)
AlertTypeOK ==
    /\ ruleTable \in {"account", "market"} /\ alertClock \in 1 .. MaxTime
    /\ enabled \in BOOLEAN /\ firing \in BOOLEAN /\ lastFired \in Times
    /\ announced \in Seq(Times)
    /\ alPc \in [Checks -> {"idle", "read", "look", "tell"}]
    /\ startedAt \in [Checks -> Times]
    /\ ruleRead \in [Checks -> RuleCopies]

(* alert-runner.ts:64, "so two concurrent runs cannot announce the same       *)
(* breach twice": however checks overlap, stall and meet a save, what they    *)
(* announce after it is in order and a cooldown apart.                        *)
AlertsAreSpaced == \A k \in 2 .. Len(announced) : announced[k] - announced[k - 1] >= Cooldown

(* live-sync/alerts/route.ts:83, a saved rule "starts clean so the new        *)
(* setting is evaluated fresh"; does not hold: a check that read the old one  *)
(* announces by it, even when the rule is disabled by now.                    *)
DisabledIsSilent == [][Len(announced') > Len(announced) => enabled]_alertVars
=============================================================================
