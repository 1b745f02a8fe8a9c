---------------------------- MODULE Subscription ----------------------------
(***************************************************************************)
(* One user's plan and Subscription rows (services/billing, the Stripe and *)
(* NOWPayments webhooks, the billing page and its admin counterpart).      *)
(* Every operation finds a row, then writes it by its id; the operations   *)
(* that change the plan write User.planId in a third statement.  A         *)
(* provider delivers its events late, more than once, in any order and     *)
(* concurrently, and again after an error.                                 *)
(*                                                                         *)
(* Rows are numbered by createdAt.  Plans are free or paid; the billing    *)
(* period is left out, and the flag cancelAtPeriodEnd, which only a        *)
(* reminder and the pages read: of the operations that set it, the status  *)
(* they write with it is here, and the admin's, which writes no other,     *)
(* is not.                                                                 *)
(***************************************************************************)
EXTENDS Integers, FiniteSets

CONSTANTS
    Handlers,    \* requests that may overlap
    StripeIds,   \* the user's subscriptions at Stripe
    Invoices,    \* the user's payments at NOWPayments
    NoId,
    MaxRows      \* bound: Subscription rows

ASSUME SubscriptionConstants ==
    /\ IsFiniteSet(Handlers) /\ Handlers # {}
    /\ NoId \notin StripeIds \cup Invoices
    /\ MaxRows \in Nat \ {0}

VARIABLES
    atStripe,            \* each subscription as Stripe has it
    subscriptions, rowCount, userPlan,   \* the Subscription rows; User.planId
    failures,            \* history: how often markPastDueByProvider() answered a row, and so
                         \* had a mail sent, since the row was last active
    subPc, task, found, status   \* of each request: place, what it does, the row it found (0: none)
                         \* and the status to write back

subRows   == <<atStripe, subscriptions, rowCount, userPlan, failures>>
subVars   == <<atStripe, subscriptions, rowCount, userPlan, failures, subPc, task, found, status>>

Plans == {"free", "paid"}
Statuses == {"active", "past_due", "canceled"}
RowNumbers == 1 .. MaxRows
SubscriptionRows ==
    [plan : Plans, status : Statuses,
     stripe : StripeIds \cup {NoId}, invoice : Invoices \cup {NoId}]
Kinds == {"none", "plan", "resume", "end", "pastDue", "canceled"}
Tasks == [kind : Kinds, plan : Plans,
          stripe : StripeIds \cup {NoId}, invoice : Invoices \cup {NoId}]

NewPlan(plan, s, i) == [kind |-> "plan", plan |-> plan, stripe |-> s, invoice |-> i]
Asked(kind, s) == [kind |-> kind, plan |-> "free", stripe |-> s, invoice |-> NoId]
NoTask == Asked("none", NoId)
NoRow == [plan |-> "free", status |-> "active", stripe |-> NoId, invoice |-> NoId]

SubscriptionInit ==
    /\ atStripe = [s \in StripeIds |-> "none"]
    /\ subscriptions = [n \in RowNumbers |-> NoRow]
    /\ rowCount = 0 /\ userPlan = "free"
    /\ failures = [n \in RowNumbers |-> 0]
    /\ subPc = [h \in Handlers |-> "idle"]
    /\ task = [h \in Handlers |-> NoTask]
    /\ found = [h \in Handlers |-> 0]
    /\ status = [h \in Handlers |-> "active"]

Saved == 1 .. rowCount
Holder(s) == {n \in Saved : subscriptions[n].stripe = s}

Begin(h, t) ==
    /\ subPc[h] = "idle" /\ subPc' = [subPc EXCEPT ![h] = "find"]
    /\ task' = [task EXCEPT ![h] = t]
    /\ UNCHANGED <<subRows, found, status>>

Finish(h, from) ==
    /\ subPc[h] = from /\ subPc' = [subPc EXCEPT ![h] = "idle"]
    /\ task' = [task EXCEPT ![h] = NoTask]
    /\ found' = [found EXCEPT ![h] = 0]
    /\ status' = [status EXCEPT ![h] = "active"]

WithStatus(row, s) == [plan |-> row.plan, status |-> s, stripe |-> row.stripe, invoice |-> row.invoice]

(* A row whose status becomes active starts a new count of failures. *)
WriteRow(n, row) ==
    /\ subscriptions' = [subscriptions EXCEPT ![n] = row]
    /\ failures' = IF row.status = "active" THEN [failures EXCEPT ![n] = 0] ELSE failures

-----------------------------------------------------------------------------
(* What the provider does, and the events it may deliver because of it.       *)
StripeMoves(s, to) ==
    /\ <<atStripe[s], to>> \in {<<"none", "live">>, <<"live", "ended">>}
    /\ atStripe' = [atStripe EXCEPT ![s] = to]
    /\ UNCHANGED <<subscriptions, rowCount, userPlan, failures, subPc, task, found, status>>

(* checkout.session.completed, customer.subscription.updated (still active):  *)
(* activateFromPayment().                                                     *)
PaymentEvent(h, s) == atStripe[s] # "none" /\ Begin(h, NewPlan("paid", s, NoId))

(* A confirmed NOWPayments IPN. *)
InvoicePaid(h, i) == Begin(h, NewPlan("paid", NoId, i))

FailedEvent(h, s) == atStripe[s] # "none" /\ Begin(h, Asked("pastDue", s))
DeletedEvent(h, s) == atStripe[s] = "ended" /\ Begin(h, Asked("canceled", s))

(* The billing page: a free plan (a paid one needs a payment), cancel at the  *)
(* end of the period, reactivate.  The admin: any plan.                       *)
ChangePlan(h) == Begin(h, NewPlan("free", NoId, NoId))
OverridePlan(h, plan) == Begin(h, NewPlan(plan, NoId, NoId))
SetCancelAtPeriodEnd(h, ending) ==
    Begin(h, Asked(IF ending THEN "end" ELSE "resume", NoId))

-----------------------------------------------------------------------------
Bug_FindLatest(h) ==
    LET open == {n \in Saved : subscriptions[n].status = "active"} IN
    /\ task[h].kind \notin {"pastDue", "canceled"}
    /\ IF open = {} /\ task[h].kind # "plan" THEN Finish(h, "find")
       ELSE /\ subPc[h] = "find" /\ subPc' = [subPc EXCEPT ![h] = "write"]
            /\ \E n \in IF open = {} THEN {0} ELSE open : found' = [found EXCEPT ![h] = n]
            /\ UNCHANGED <<task, status>>
    /\ UNCHANGED subRows

(* findActive(): the user's latest row, of whatever status.                   *)
FindLatest(h) ==
    /\ task[h].kind \notin {"pastDue", "canceled"}
    /\ IF rowCount = 0 /\ task[h].kind # "plan" THEN Finish(h, "find")
       ELSE /\ subPc[h] = "find" /\ subPc' = [subPc EXCEPT ![h] = "write"]
            /\ found' = [found EXCEPT ![h] = rowCount]
            /\ status' = [status EXCEPT ![h] = IF task[h].kind = "end" THEN subscriptions[rowCount].status ELSE @]
            /\ UNCHANGED task
    /\ UNCHANGED subRows

Bug_FindByStripeId(h) ==
    /\ task[h].kind \in {"pastDue", "canceled"}
    /\ \/ /\ Holder(task[h].stripe) = {} /\ Finish(h, "find")
       \/ \E n \in Holder(task[h].stripe) :
            /\ subPc[h] = "find" /\ subPc' = [subPc EXCEPT ![h] = "write"]
            /\ found' = [found EXCEPT ![h] = n]
            /\ UNCHANGED <<task, status>>
    /\ UNCHANGED subRows

(* markPastDueByProvider(), markCanceledByProvider(): the row of this Stripe  *)
(* id; one that is past due or canceled already is not past due again.        *)
FindByStripeId(h) ==
    /\ task[h].kind \in {"pastDue", "canceled"}
    /\ \/ /\ \/ Holder(task[h].stripe) = {}
             \/ task[h].kind = "pastDue"
                /\ \E n \in Holder(task[h].stripe) : subscriptions[n].status # "active"
          /\ Finish(h, "find")
       \/ \E n \in Holder(task[h].stripe) :
            /\ task[h].kind = "pastDue" => subscriptions[n].status = "active"
            /\ subPc[h] = "find" /\ subPc' = [subPc EXCEPT ![h] = "write"]
            /\ found' = [found EXCEPT ![h] = n]
            /\ UNCHANGED <<task, status>>
    /\ UNCHANGED subRows

(* activateFromPayment(), changePlan(), overridePlan(): an id that is not     *)
(* given stays; the unique ids make a row with another row's id fail.         *)
Planned(row, t) ==
    [plan |-> t.plan, status |-> "active",
     stripe |-> IF t.stripe = NoId THEN row.stripe ELSE t.stripe,
     invoice |-> IF t.invoice = NoId THEN row.invoice ELSE t.invoice]

Taken(t, n) ==
    \E m \in Saved \ {n} : \/ t.stripe # NoId /\ subscriptions[m].stripe = t.stripe
                           \/ t.invoice # NoId /\ subscriptions[m].invoice = t.invoice

WritePlan(h) ==
    /\ task[h].kind = "plan"
    /\ IF Taken(task[h], found[h])
       THEN Finish(h, "write") /\ UNCHANGED <<subscriptions, rowCount, failures>>
       ELSE /\ IF found[h] # 0
               THEN WriteRow(found[h], Planned(subscriptions[found[h]], task[h])) /\ UNCHANGED rowCount
               ELSE /\ rowCount < MaxRows
                    /\ rowCount' = rowCount + 1
                    /\ WriteRow(rowCount + 1, Planned(NoRow, task[h]))
            /\ subPc[h] = "write" /\ subPc' = [subPc EXCEPT ![h] = "user"]
            /\ task' = [task EXCEPT ![h] = NewPlan(task[h].plan, NoId, NoId)]
            /\ found' = [found EXCEPT ![h] = 0]
            /\ UNCHANGED status
    /\ UNCHANGED <<atStripe, userPlan>>

WriteUserPlan(h) ==
    /\ Finish(h, "user")
    /\ userPlan' = task[h].plan
    /\ UNCHANGED <<atStripe, subscriptions, rowCount, failures>>

(* setCancelAtPeriodEnd() writes the status it read, or active.               *)
WriteFlag(h) ==
    /\ task[h].kind \in {"end", "resume"}
    /\ Finish(h, "write")
    /\ WriteRow(found[h], WithStatus(subscriptions[found[h]],
                                     IF task[h].kind = "end" THEN status[h] ELSE "active"))
    /\ UNCHANGED <<atStripe, rowCount, userPlan>>

WriteStatus(h) ==
    /\ task[h].kind \in {"pastDue", "canceled"}
    /\ Finish(h, "write")
    /\ LET n == found[h] IN
       IF task[h].kind = "pastDue"
       THEN /\ subscriptions' = [subscriptions EXCEPT ![n] = WithStatus(@, "past_due")]
            /\ failures' = [failures EXCEPT ![n] = @ + 1]
       ELSE /\ subscriptions' = [subscriptions EXCEPT ![n] = WithStatus(@, "canceled")]
            /\ UNCHANGED failures
    /\ UNCHANGED <<atStripe, rowCount, userPlan>>

SubscriptionCrash(h) == subPc[h] # "idle" /\ Finish(h, subPc[h]) /\ UNCHANGED subRows

Request(h) ==
    \/ \E s \in StripeIds : PaymentEvent(h, s) \/ FailedEvent(h, s) \/ DeletedEvent(h, s)
    \/ \E i \in Invoices : InvoicePaid(h, i)
    \/ ChangePlan(h) \/ \E plan \in Plans : OverridePlan(h, plan)
    \/ \E ending \in BOOLEAN : SetCancelAtPeriodEnd(h, ending)

SubscriptionNext ==
    \/ \E h \in Handlers :
         \/ Request(h) \/ FindLatest(h) \/ FindByStripeId(h) \/ WritePlan(h) \/ WriteUserPlan(h)
         \/ WriteFlag(h) \/ WriteStatus(h) \/ SubscriptionCrash(h)
    \/ \E s \in StripeIds, to \in {"live", "ended"} : StripeMoves(s, to)

SubscriptionSpec == SubscriptionInit /\ [][SubscriptionNext]_subVars

-----------------------------------------------------------------------------
(* The rows and the requests have the shape the schema and the code give. *)
SubscriptionTypeOK ==
    /\ atStripe \in [StripeIds -> {"none", "live", "ended"}]
    /\ subscriptions \in [RowNumbers -> SubscriptionRows]
    /\ rowCount \in 0 .. MaxRows /\ userPlan \in Plans
    /\ failures \in [RowNumbers -> Nat]
    /\ subPc \in [Handlers -> {"idle", "find", "write", "user"}]
    /\ task \in [Handlers -> Tasks]
    /\ found \in [Handlers -> 0 .. MaxRows]
    /\ status \in [Handlers -> Statuses]

(* SubscriptionActionService.ts:128: a user gets a second Subscription row    *)
(* only from requests that overlapped the first one's creation.               *)
SubscriptionsBounded == rowCount <= Cardinality(Handlers)

(* SubscriptionActionService.ts:182, "only the first transition into past_due *)
(* returns non-null": until the row is active again, its buyer is told of a   *)
(* failed payment once, and once more for each delivery that overlaps.  What  *)
(* makes it active (a payment, a late update event, a write of a status read  *)
(* before) lets the same failure, delivered again, mail again.                *)
FailureMailsBounded == \A n \in RowNumbers : failures[n] <= Cardinality(Handlers)

(* SubscriptionActionService.ts:177: a subscription the provider has ended is *)
(* active again only for a new payment; does not hold (reactivate, a late     *)
(* update event, a write of a status read before).                            *)
EndedStaysEnded ==
    [][\A n \in RowNumbers : subscriptions[n].status = "canceled" /\ subscriptions'[n].status # "canceled"
         => \E h \in Handlers : task[h].kind = "plan"]_subVars
=============================================================================
