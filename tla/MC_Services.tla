---------------------------- MODULE MC_Services ----------------------------
(* The services that share no state with one another, checked in one run: in  *)
(* each behaviour one of them moves.                                          *)
EXTENDS TLC, RewardMoney, LicenseService, Subscription, AutomationTrigger,
        SupportHandoff, LiveSync, AlertRules, SocialOutbox, RateLimit

CONSTANTS w1, w2

VARIABLE part    \* the service that moves

TwoWorkers == {w1, w2}
WorkerRoles == w1 :> {"fulfil", "withdraw", "decide", "cancel"} @@ w2 :> {"sweep", "withdraw"}
DealTimes == <<1, 1, 2>>

ServicesInit ==
    /\ part \in {"rewards", "licences", "billing", "triggers", "support", "liveSync",
                "alerts", "social", "limits"}
    /\ RewardInit /\ LicenseInit /\ SubscriptionInit /\ TriggerInit /\ HandoffInit /\ LiveSyncInit
    /\ AlertInit /\ SocialInit /\ RateInit
    /\ part # "triggers" => triggerType = "manual"
    /\ part # "alerts" => ruleTable = "account"
    /\ part # "limits" => limiter = "ai"

ServicesNext ==
    /\ part' = part
    /\ \/ part = "rewards" /\ RewardNext
       \/ part # "rewards" /\ UNCHANGED rwVars
    /\ \/ part = "licences" /\ LicenseNext
       \/ part # "licences" /\ UNCHANGED licVars
    /\ \/ part = "billing" /\ SubscriptionNext
       \/ part # "billing" /\ UNCHANGED subVars
    /\ \/ part = "triggers" /\ TriggerNext
       \/ part # "triggers" /\ UNCHANGED trigVars
    /\ \/ part = "support" /\ HandoffNext
       \/ part # "support" /\ UNCHANGED hoVars
    /\ \/ part = "liveSync" /\ LiveSyncNext
       \/ part # "liveSync" /\ UNCHANGED lsVars
    /\ \/ part = "alerts" /\ AlertNext
       \/ part # "alerts" /\ UNCHANGED alertVars
    /\ \/ part = "social" /\ SocialNext
       \/ part # "social" /\ UNCHANGED socialVars
    /\ \/ part = "limits" /\ RateNext
       \/ part # "limits" /\ UNCHANGED rlVars

ServicesSpec ==
    ServicesInit
    /\ [][ServicesNext]_<<part, rwVars, licVars, subVars, trigVars, hoVars, lsVars, alertVars,
                          socialVars, rlVars>>

(* Two states differ in what moves, or not at all.                            *)
ServicesView ==
    CASE part = "rewards" -> <<part, rwVars>>
      [] part = "licences" -> <<part, licVars>>
      [] part = "billing" -> <<part, subVars>>
      [] part = "triggers" -> <<part, trigVars>>
      [] part = "support" -> <<part, hoVars>>
      [] part = "liveSync" -> <<part, lsVars>>
      [] part = "alerts" -> <<part, alertVars>>
      [] part = "social" -> <<part, socialVars>>
      [] part = "limits" -> <<part, rlVars>>

(* Every row and every call has the shape the schema and the code give it. *)
ServicesTypeOK ==
    CASE part = "rewards" -> RewardTypeOK
      [] part = "licences" -> LicenseTypeOK
      [] part = "billing" -> SubscriptionTypeOK
      [] part = "triggers" -> TriggerTypeOK
      [] part = "support" -> HandoffTypeOK
      [] part = "liveSync" -> LiveSyncTypeOK
      [] part = "alerts" -> AlertTypeOK
      [] part = "social" -> SocialTypeOK
      [] part = "limits" -> RateTypeOK
=============================================================================
