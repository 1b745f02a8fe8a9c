------------------------- MODULE AutomationTrigger -------------------------
(***************************************************************************)
(* How the runs of one automation come to be (services/automation): Run    *)
(* Now, under an advisory lock; the daily pass of its slot's cron, which   *)
(* may be delivered twice; the owner's changes of status and definition;   *)
(* and what the end of a run writes on the automation.  A step is one      *)
(* statement or one transaction; a request may die between two.            *)
(*                                                                         *)
(* What happens to a run between its creation and its end is               *)
(* AutomationDispatch.  Left out: nextRunAt and lastRunAt, which order the *)
(* candidates, and the calendar, which may say "not today" at will.        *)
(***************************************************************************)
EXTENDS Integers, Sequences, FiniteSets

CONSTANTS
    Requests,   \* requests and cron invocations that may overlap
    MaxDays,    \* bound: slot instants
    MaxRuns     \* bound: runs created

ASSUME TriggerConstants == MaxDays \in Nat \ {0} /\ MaxRuns \in Nat \ {0}

VARIABLES
    automation, triggerType,    \* Automation.status; the active version's trigger
    day,                        \* today's slot instant
    runs,                       \* the AutomationRun rows, by createdAt: the kind of trigger that
                                \* made it, scheduledFor (0: null), still QUEUED or RUNNING
    trigPc, target, dueFor      \* of each request: place, status to write, trigger type it read

trigRows == <<automation, triggerType, runs>>
trigVars == <<automation, triggerType, day, runs, trigPc, target, dueFor>>

AutomationStatuses == {"DRAFT", "ACTIVE", "PAUSED", "ARCHIVED"}
TriggerTypes == {"manual", "daily", "once"}
TriggerRuns == [trigger : TriggerTypes, scheduledFor : 0 .. MaxDays, live : BOOLEAN]
TriggerPlaces == {"idle", "patch", "edit", "lock", "manual", "any", "active", "create", "read", "book"}
Slots == {"any", "active", "create"}     \* where a slot pass is

ALLOWED == {<<"DRAFT", "ACTIVE">>, <<"DRAFT", "ARCHIVED">>, <<"ACTIVE", "PAUSED">>,
            <<"ACTIVE", "ARCHIVED">>, <<"PAUSED", "ACTIVE">>, <<"PAUSED", "ARCHIVED">>}

TriggerInit ==
    /\ automation = "DRAFT" /\ triggerType \in TriggerTypes
    /\ day = 1 /\ runs = <<>>
    /\ trigPc = [r \in Requests |-> "idle"]
    /\ target = [r \in Requests |-> "DRAFT"]
    /\ dueFor = [r \in Requests |-> "manual"]

Live == {n \in DOMAIN runs : runs[n].live}
Manual == {n \in DOMAIN runs : runs[n].scheduledFor = 0}
Scheduled == DOMAIN runs \ Manual

TrigGoto(r, from, to) == trigPc[r] = from /\ trigPc' = [trigPc EXCEPT ![r] = to]
Done(r, from) ==
    /\ TrigGoto(r, from, "idle")
    /\ target' = [target EXCEPT ![r] = "DRAFT"]
    /\ dueFor' = [dueFor EXCEPT ![r] = "manual"]

CreateRun(type, slot) ==
    /\ Len(runs) < MaxRuns
    /\ runs' = Append(runs, [trigger |-> type, scheduledFor |-> slot, live |-> TRUE])

-----------------------------------------------------------------------------
(* transition(): checked against the status read, then written by id.         *)
Transition(r, to) ==
    /\ <<automation, to>> \in ALLOWED
    /\ TrigGoto(r, "idle", "patch")
    /\ target' = [target EXCEPT ![r] = to]
    /\ UNCHANGED <<trigRows, day, dueFor>>

PatchStatus(r) ==
    /\ Done(r, "patch")
    /\ automation' = target[r]
    /\ UNCHANGED <<triggerType, runs, day>>

(* update(): a new version, unless the automation was read ARCHIVED.          *)
Update(r) ==
    /\ automation # "ARCHIVED"
    /\ TrigGoto(r, "idle", "edit")
    /\ UNCHANGED <<trigRows, day, target, dueFor>>

AddVersion(r) ==
    /\ Done(r, "edit")
    /\ triggerType' \in TriggerTypes
    /\ UNCHANGED <<automation, runs, day>>

-----------------------------------------------------------------------------
(* triggerManualRun(): no draft, nothing archived.                            *)
RunNow(r) ==
    /\ automation \in {"ACTIVE", "PAUSED"}
    /\ TrigGoto(r, "idle", "lock")
    /\ UNCHANGED <<trigRows, day, target, dueFor>>

Bug_Lock(r) ==
    /\ IF Live # {} THEN Done(r, "lock")
       ELSE TrigGoto(r, "lock", "manual") /\ UNCHANGED <<target, dueFor>>
    /\ UNCHANGED <<trigRows, day>>

(* claimManualRunSlotOnce(): the lock is tried and, once it is held, the runs *)
(* are counted; whoever does not get it tries again or gives up.              *)
Lock(r) ==
    /\ \/ Live # {} /\ Done(r, "lock")
       \/ (\E o \in Requests : trigPc[o] = "manual") /\ Done(r, "lock")
       \/ /\ Live = {} /\ \A o \in Requests : trigPc[o] # "manual"
          /\ TrigGoto(r, "lock", "manual") /\ UNCHANGED <<target, dueFor>>
    /\ UNCHANGED <<trigRows, day>>

(* The run is created in the same transaction, which gives the lock back.     *)
CreateManualRun(r) ==
    /\ Done(r, "manual")
    /\ CreateRun("manual", 0)
    /\ UNCHANGED <<automation, triggerType, day>>

-----------------------------------------------------------------------------
(* dispatchSlot(): an ACTIVE automation with a trigger of the slot ...        *)
SlotPass(r) ==
    /\ automation = "ACTIVE" /\ triggerType # "manual"
    /\ TrigGoto(r, "idle", "any")
    /\ dueFor' = [dueFor EXCEPT ![r] = triggerType]
    /\ UNCHANGED <<trigRows, day, target>>

(* ... that is due: a one-time automation never ran before (isDueForSlot) ... *)
DueCheck(r) ==
    /\ \/ Done(r, "any")
       \/ /\ dueFor[r] = "once" => runs = <<>>
          /\ TrigGoto(r, "any", "active") /\ UNCHANGED <<target, dueFor>>
    /\ UNCHANGED <<trigRows, day>>

(* ... and has no run in progress ...                                         *)
HasActiveRun(r) ==
    /\ IF Live # {} THEN Done(r, "active")
       ELSE TrigGoto(r, "active", "create") /\ UNCHANGED <<target, dueFor>>
    /\ UNCHANGED <<trigRows, day>>

(* ... gets a run, unless the slot instant has one (a unique index).          *)
CreateScheduledRunIfAbsent(r) ==
    /\ Done(r, "create")
    /\ IF \E n \in Scheduled : runs[n].scheduledFor = day THEN UNCHANGED runs ELSE CreateRun(dueFor[r], day)
    /\ UNCHANGED <<automation, triggerType, day>>

-----------------------------------------------------------------------------
Ended(row) == [trigger |-> row.trigger, scheduledFor |-> row.scheduledFor, live |-> FALSE]
End(n) == runs' = [runs EXCEPT ![n] = Ended(runs[n])]

(* finalize(): the driver that ends a run also looks at the automation, whose *)
(* active version need not be the one that ran.                               *)
Finalize(r, n) ==
    /\ n \in Live /\ End(n)
    /\ TrigGoto(r, "idle", "read")
    /\ UNCHANGED <<automation, triggerType, day, target, dueFor>>

ReadAutomation(r) ==
    /\ IF automation = "ACTIVE" /\ triggerType = "once"
       THEN TrigGoto(r, "read", "book") /\ UNCHANGED <<target, dueFor>>
       ELSE Done(r, "read")
    /\ UNCHANGED <<trigRows, day>>

Bookkeeping(r) ==
    /\ Done(r, "book")
    /\ automation' = "ARCHIVED"
    /\ UNCHANGED <<triggerType, runs, day>>

(* requestRunCancellation() of a QUEUED run. *)
CancelQueued(n) ==
    /\ n \in Live /\ End(n)
    /\ UNCHANGED <<automation, triggerType, day, trigPc, target, dueFor>>

TriggerCrash(r) ==
    /\ trigPc[r] # "idle" /\ Done(r, trigPc[r])
    /\ UNCHANGED <<trigRows, day>>

(* A pass is cut off after maxDuration seconds: none outlives its day. *)
NextDay ==
    /\ day < MaxDays /\ \A r \in Requests : trigPc[r] \notin Slots
    /\ day' = day + 1
    /\ UNCHANGED <<trigRows, trigPc, target, dueFor>>

TriggerNext ==
    \/ \E r \in Requests :
         \/ \E to \in AutomationStatuses : Transition(r, to)
         \/ PatchStatus(r) \/ Update(r) \/ AddVersion(r)
         \/ RunNow(r) \/ Lock(r) \/ CreateManualRun(r)
         \/ SlotPass(r) \/ DueCheck(r) \/ HasActiveRun(r) \/ CreateScheduledRunIfAbsent(r)
         \/ \E n \in DOMAIN runs : Finalize(r, n)
         \/ ReadAutomation(r) \/ Bookkeeping(r) \/ TriggerCrash(r)
    \/ \E n \in DOMAIN runs : CancelQueued(n)
    \/ NextDay

TriggerSpec == TriggerInit /\ [][TriggerNext]_trigVars

-----------------------------------------------------------------------------
(* The automation, its runs and the requests have the shape the schema gives. *)
TriggerTypeOK ==
    /\ automation \in AutomationStatuses /\ triggerType \in TriggerTypes
    /\ day \in 1 .. MaxDays
    /\ runs \in Seq(TriggerRuns) /\ Len(runs) <= MaxRuns
    /\ trigPc \in [Requests -> TriggerPlaces]
    /\ target \in [Requests -> AutomationStatuses]
    /\ dueFor \in [Requests -> TriggerTypes]

(* The execution contract's section 7, "One active run per automation"; does  *)
(* not hold: Run Now's lock is not taken by the slots' pass, so each may look *)
(* for an active run before the other creates its own (run-dispatch.ts:206).  *)
OneActiveRun == Cardinality(Live) <= 1

(* What of it holds however requests and passes overlap: one manual and one   *)
(* scheduled run of an automation are in progress at most.                    *)
OneRunPerTrigger == Cardinality(Live \cap Manual) <= 1 /\ Cardinality(Live \cap Scheduled) <= 1

(* automation-service.ts:110, ARCHIVED allows nothing; does not hold: a       *)
(* transition writes the status it chose from what it read before.            *)
ArchivedIsFinal == [][automation = "ARCHIVED" => automation' = "ARCHIVED"]_trigVars
=============================================================================
