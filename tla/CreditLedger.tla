---------------------------- MODULE CreditLedger ----------------------------
(***************************************************************************)
(* The agent credit ledger of one user: charge() and refund() of           *)
(* credits/credit-ledger.ts, run by concurrent callers over either of the  *)
(* two stores the code has.  A step is what happens between two awaits.    *)
(*                                                                         *)
(* "memory" is InMemoryCreditStore, whose withUserLock() is a promise      *)
(* chain (a FIFO queue).  "prisma" is PrismaCreditStore, whose             *)
(* withUserLock() takes pg_try_advisory_xact_lock through the GLOBAL       *)
(* client: the statement is a transaction of its own, so the lock is given *)
(* back when the statement ends, before fn() runs.                         *)
(***************************************************************************)
EXTENDS Integers, Sequences, FiniteSets

CONSTANTS
    Callers,        \* concurrent callers of the ledger, all for one user
    ChargeKeys,     \* idempotency keys used with charge()
    RefundKeys,     \* idempotency keys used with refund()
    Amounts,        \* credit amounts a caller may ask for
    Terms,          \* [allowance, period] pairs the AllowanceResolver may answer
    Store,          \* "memory" or "prisma"
    MaxAttempts,    \* LOCK_RETRY_ATTEMPTS
    MaxCalls,       \* bound: calls begun in one behaviour
    MaxLapses       \* bound: lapses of the e-mail log

Keys    == ChargeKeys \cup RefundKeys
Periods == {t.period : t \in Terms}
Levels  == {"low", "exhausted"}

ASSUME LedgerConstants ==
    /\ IsFiniteSet(Callers) /\ Callers # {}
    /\ ChargeKeys \cap RefundKeys = {} /\ ChargeKeys # {}
    /\ Amounts \subseteq Nat /\ \E m \in Amounts : \A n \in Amounts : n <= m
    /\ Terms \subseteq [allowance : Nat, period : Nat] /\ Terms # {}
    /\ Store \in {"memory", "prisma"}
    /\ MaxAttempts \in Nat \ {0}
    /\ MaxCalls \in Nat /\ MaxLapses \in Nat

VARIABLES
    rows,     \* the table AgentCreditLedgerEntry
    used,     \* used[p]: what sumForPeriod(p) answers, SUM(amount) of rows since p
    terms,    \* what AllowanceResolver.resolve() answers now
    mailLog,  \* mailLog[<<level, period>>]: status of the EmailLog row, or "none"
    mailed,   \* how often each notice was really delivered
    lapses,   \* deliveries that left no row, and rows that a lookup did not find
    queue,    \* the promise chain of InMemoryCreditStore for the user
    calls,    \* calls begun so far
    pc, req, seen, tries, result    \* of each caller

ledgerVars == <<rows, used>>
mailVars   == <<mailLog, mailed, lapses>>
callVars   == <<pc, req, seen, tries, result>>
vars == <<rows, used, terms, mailLog, mailed, lapses, queue, calls, pc, req, seen, tries, result>>

Results == {"none", "charged", "applied", "insufficient", "busy", "failed"}
PCs == {"idle", "find", "lock", "queued", "recheck", "resolve", "sum", "insert",
        "notify", "send", "log", "rfind", "rresolve", "rinsert"}
Requests == [key : Keys, amount : Amounts]
Outcomes == {"SENT", "SKIPPED", "FAILED"}
Seen == [allowance : Int, period : Periods, level : Levels, outcome : Outcomes]

NoSeen == [allowance |-> 0, period |-> CHOOSE p \in Periods : TRUE, level |-> "low", outcome |-> "SKIPPED"]

(* charge() between entering and leaving the function given to withUserLock(). *)
Inside == {"resolve", "sum", "insert", "notify", "send", "log"}

HasRow(k) == \E r \in rows : r.key = k

(* sumForPeriod(p) adds up every row whose periodStart is at or after p. *)
Add(n, period) == [p \in Periods |-> IF p <= period THEN used[p] + n ELSE used[p]]

Bug_WriteRowSwapped(k, n, period) ==
    /\ rows' = rows \cup {[key |-> k, amount |-> period, period |-> n]}
    /\ used' = Add(n, period)

(* store.insert(): unique on idempotencyKey, checked by whoever calls this. *)
WriteRow(k, n, period) ==
    /\ rows' = rows \cup {[key |-> k, amount |-> n, period |-> period]}
    /\ used' = Add(n, period)

Goto(c, from, to) == pc[c] = from /\ pc' = [pc EXCEPT ![c] = to]

(* The call goes on, or returns to its caller with answer res and its locals gone. *)
GoOn(c, from, to) == Goto(c, from, to) /\ UNCHANGED <<seen, tries, result>>
Answer(c, from, res) ==
    /\ Goto(c, from, "idle")
    /\ seen' = [seen EXCEPT ![c] = NoSeen]
    /\ tries' = [tries EXCEPT ![c] = 0]
    /\ result' = [result EXCEPT ![c] = res]

(* fn() settles: the next function of the promise chain may start.  Prisma    *)
(* rejects a callback that ran past the 5s transaction timeout, although what *)
(* it wrote through the global client stays written.                          *)
SettleOK(c, from, res) ==
    /\ \/ Answer(c, from, res)
       \/ Store = "prisma" /\ Answer(c, from, "failed")
    /\ queue' = IF Store = "memory" THEN Tail(queue) ELSE queue

Bug_SettleErrorWedges(c, from, res) == Answer(c, from, res) /\ UNCHANGED queue

SettleError(c, from, res) ==
    /\ Answer(c, from, res)
    /\ queue' = IF Store = "memory" THEN Tail(queue) ELSE queue

-----------------------------------------------------------------------------
Init ==
    /\ rows = {}
    /\ used = [p \in Periods |-> 0]
    /\ terms \in Terms
    /\ mailLog = [n \in Levels \X Periods |-> "none"]
    /\ mailed = [n \in Levels \X Periods |-> 0]
    /\ lapses = 0
    /\ queue = <<>>
    /\ calls = 0
    /\ pc = [c \in Callers |-> "idle"]
    /\ req = [c \in Callers |-> CHOOSE r \in Requests : TRUE]
    /\ seen = [c \in Callers |-> NoSeen]
    /\ tries = [c \in Callers |-> 0]
    /\ result = [c \in Callers |-> "none"]

(* A caller enters charge() or refund(); a retry is a new call with an old key. *)
Begin(c, entry, k, n) ==
    /\ calls < MaxCalls
    /\ Goto(c, "idle", entry)
    /\ calls' = calls + 1
    /\ req' = [req EXCEPT ![c] = [key |-> k, amount |-> n]]
    /\ result' = [result EXCEPT ![c] = "none"]
    /\ UNCHANGED <<ledgerVars, terms, mailVars, queue, seen, tries>>

StartCharge(c) == \E k \in ChargeKeys, n \in Amounts : Begin(c, "find", k, n)
StartRefund(c) == \E k \in RefundKeys, n \in Amounts \ {0} : Begin(c, "rfind", k, n)

(* charge() and refund() first look for the key: a hit is a no-op. *)
Find(c, from, to) ==
    /\ IF HasRow(req[c].key)
         THEN Answer(c, from, "applied")
         ELSE GoOn(c, from, to)
    /\ UNCHANGED <<ledgerVars, terms, mailVars, queue, calls, req>>

FindCharge(c) == Find(c, "find", "lock")
FindRefund(c) == Find(c, "rfind", "rresolve")

(* InMemoryCreditStore.withUserLock: chain behind every earlier call ...      *)
Enqueue(c) ==
    /\ Store = "memory"
    /\ GoOn(c, "lock", "queued")
    /\ queue' = Append(queue, c)
    /\ UNCHANGED <<ledgerVars, terms, mailVars, calls, req>>

Bug_EnterAtOnce(c) ==
    /\ GoOn(c, "queued", "resolve")
    /\ UNCHANGED <<ledgerVars, terms, mailVars, queue, calls, req>>

(* ... and run when the one before it has settled.                            *)
Enter(c) ==
    /\ queue # <<>> /\ Head(queue) = c
    /\ GoOn(c, "queued", "resolve")
    /\ UNCHANGED <<ledgerVars, terms, mailVars, queue, calls, req>>

(* PrismaCreditStore.withUserLock: the lock statement succeeds and releases.  *)
TryLock(c) ==
    /\ Store = "prisma"
    /\ GoOn(c, "lock", "resolve")
    /\ UNCHANGED <<ledgerVars, terms, mailVars, queue, calls, req>>

(* The statement finds the lock taken by another caller's statement: null, so *)
(* charge() backs off and tries again, MaxAttempts times in all.              *)
LockBusy(c) ==
    /\ Store = "prisma"
    /\ \E d \in Callers \ {c} : pc[d] = "lock"
    /\ tries' = [tries EXCEPT ![c] = @ + 1]
    /\ Goto(c, "lock", IF tries[c] + 1 < MaxAttempts THEN "lock" ELSE "recheck")
    /\ UNCHANGED <<ledgerVars, terms, mailVars, queue, calls, req, seen, result>>

Bug_RecheckTrusts(c) ==
    /\ Answer(c, "recheck", "applied")
    /\ UNCHANGED <<ledgerVars, terms, mailVars, queue, calls, req>>

(* No pooled connection within maxWait (10s): the transaction never opens. *)
NoConnection(c) ==
    /\ Store = "prisma"
    /\ Answer(c, "lock", "failed")
    /\ UNCHANGED <<ledgerVars, terms, mailVars, queue, calls, req>>

(* Every attempt lost: a last look for the key, then the loud failure. *)
Recheck(c) ==
    /\ Answer(c, "recheck", IF HasRow(req[c].key) THEN "applied" ELSE "busy")
    /\ UNCHANGED <<ledgerVars, terms, mailVars, queue, calls, req>>

(* chargeOnce(): the allowance and the period in force. *)
Resolve(c, from, to) ==
    /\ Goto(c, from, to)
    /\ seen' = [seen EXCEPT ![c] = [NoSeen EXCEPT !.allowance = terms.allowance, !.period = terms.period]]
    /\ UNCHANGED <<ledgerVars, terms, mailVars, queue, calls, req, tries, result>>

ResolveCharge(c) == Resolve(c, "resolve", "sum")
ResolveRefund(c) == Resolve(c, "rresolve", "rinsert")

Bug_SumUnchecked(c) ==
    /\ GoOn(c, "sum", "insert")
    /\ UNCHANGED <<ledgerVars, terms, mailVars, queue, calls, req>>

(* chargeOnce(): what is left of it, and the balance check. *)
Sum(c) ==
    LET available == seen[c].allowance - used[seen[c].period] IN
    /\ IF req[c].amount > 0 /\ available < req[c].amount
         THEN SettleError(c, "sum", "insufficient")
         ELSE GoOn(c, "sum", "insert") /\ UNCHANGED queue
    /\ UNCHANGED <<ledgerVars, terms, mailVars, calls, req>>

(* chargeOnce(): the insert; a duplicate key was charged by someone else. *)
Insert(c) ==
    /\ IF HasRow(req[c].key)
         THEN SettleOK(c, "insert", "applied") /\ UNCHANGED ledgerVars
         ELSE /\ GoOn(c, "insert", "notify")
              /\ WriteRow(req[c].key, req[c].amount, seen[c].period)
              /\ UNCHANGED queue
    /\ UNCHANGED <<terms, mailVars, calls, req>>

(* EmailThresholdNotifier.checkThreshold() on a freshly computed balance: the *)
(* level it calls for.  The in-memory ledger has the no-op notifier.          *)
LevelFor(balance, allowance) ==
    IF balance <= 0 THEN "exhausted" ELSE IF 5 * balance <= allowance THEN "low" ELSE "none"

(* A delivery that leaves no row, or a row that is not found, counted. *)
Lapse == lapses < MaxLapses /\ lapses' = lapses + 1

Bug_LookUpNever(notice) == UNCHANGED lapses

(* wasEmailAlreadySent() says no: no row, or that of a delivery that failed.  *)
(* When its query throws it says no as well.                                  *)
LookUp(notice) ==
    \/ mailLog[notice] \in {"none", "FAILED"} /\ UNCHANGED lapses
    \/ mailLog[notice] \in {"SENT", "SKIPPED"} /\ Lapse

(* The notice is due and not sent, as far as the log says; or it is not, or a *)
(* query on the way throws, which the charge swallows.                        *)
Notify(c) ==
    LET level == LevelFor(terms.allowance - used[terms.period], terms.allowance)
        due == Store = "prisma" /\ terms.allowance > 0 /\ level # "none"
    IN
    /\ \/ SettleOK(c, "notify", "charged") /\ UNCHANGED lapses
       \/ /\ due
          /\ Goto(c, "notify", "send")
          /\ LookUp(<<level, terms.period>>)
          /\ seen' = [seen EXCEPT ![c] = [NoSeen EXCEPT !.period = terms.period, !.level = level]]
          /\ UNCHANGED <<queue, tries, result>>
    /\ UNCHANGED <<ledgerVars, terms, mailLog, mailed, calls, req>>

NoticeOf(c) == <<seen[c].level, seen[c].period>>

(* The e-mail is handed to the provider, which accepts it, or reports or      *)
(* throws an error after which it may have gone out all the same; without an  *)
(* API key nothing is sent.                                                   *)
SendNotice(c) ==
    /\ Goto(c, "send", "log")
    /\ \E outcome \in Outcomes, arrived \in 0 .. 1 :
         /\ outcome = "SENT" => arrived = 1
         /\ outcome = "SKIPPED" => arrived = 0
         /\ seen' = [seen EXCEPT ![c].outcome = outcome]
         /\ mailed' = [mailed EXCEPT ![NoticeOf(c)] = @ + arrived]
    /\ UNCHANGED <<ledgerVars, terms, mailLog, lapses, queue, calls, req, tries, result>>

(* recordEmailLog() writes the outcome down, a step later: (type, dedupeKey)  *)
(* is unique and keeps the first row, and any error of the insert is          *)
(* swallowed, so that the notice may be left without a row.                   *)
LogNotice(c) ==
    /\ \/ /\ mailLog' = IF mailLog[NoticeOf(c)] = "none"
                          THEN [mailLog EXCEPT ![NoticeOf(c)] = seen[c].outcome] ELSE mailLog
          /\ UNCHANGED lapses
       \/ Lapse /\ UNCHANGED mailLog
    /\ SettleOK(c, "log", "charged")
    /\ UNCHANGED <<ledgerVars, terms, mailed, calls, req>>

(* refund() inserts without any lock; a duplicate key is an error here. *)
InsertRefund(c) ==
    /\ IF HasRow(req[c].key)
         THEN Answer(c, "rinsert", "failed") /\ UNCHANGED ledgerVars
         ELSE /\ Answer(c, "rinsert", "charged")
              /\ WriteRow(req[c].key, 0 - req[c].amount, seen[c].period)
    /\ UNCHANGED <<terms, mailVars, queue, calls, req>>

(* The serverless function that runs the call is killed. *)
Crash(c) ==
    /\ Store = "prisma"
    /\ pc[c] # "idle"
    /\ Answer(c, pc[c], "none")
    /\ IF pc[c] = "log" THEN Lapse ELSE UNCHANGED lapses
    /\ UNCHANGED <<ledgerVars, terms, mailLog, mailed, queue, calls, req>>

(* Another plan, or another billing period, for the user. *)
ChangeTerms ==
    /\ terms' \in Terms \ {terms}
    /\ UNCHANGED <<ledgerVars, mailVars, queue, calls, callVars>>

Step(c) ==
    \/ FindCharge(c) \/ FindRefund(c)
    \/ Enqueue(c) \/ Enter(c) \/ TryLock(c) \/ LockBusy(c) \/ NoConnection(c)
    \/ Recheck(c)
    \/ ResolveCharge(c) \/ Sum(c) \/ Insert(c) \/ Notify(c) \/ SendNotice(c) \/ LogNotice(c)
    \/ ResolveRefund(c) \/ InsertRefund(c)

Next ==
    \/ \E c \in Callers : StartCharge(c) \/ StartRefund(c) \/ Step(c) \/ Crash(c)
    \/ ChangeTerms

Spec == Init /\ [][Next]_vars
(* A call that is running keeps running: the runtime schedules every promise. *)
FairSpec == Spec /\ \A c \in Callers : WF_vars(Step(c))

-----------------------------------------------------------------------------
TypeOK ==
    /\ rows \subseteq [key : Keys, amount : Int, period : Periods]
    /\ used \in [Periods -> Int]
    /\ terms \in Terms
    /\ mailLog \in [Levels \X Periods -> Outcomes \cup {"none"}]
    /\ mailed \in [Levels \X Periods -> Nat]
    /\ lapses \in Nat
    /\ queue \in Seq(Callers)
    /\ calls \in Nat
    /\ pc \in [Callers -> PCs]
    /\ req \in [Callers -> Requests]
    /\ seen \in [Callers -> Seen]
    /\ tries \in [Callers -> Nat]
    /\ result \in [Callers -> Results]

(* credit-ledger.ts:145-151, "serialized per-user via the store's exclusive   *)
(* lock": the debit a charge writes still fits the allowance it was checked   *)
(* against when it is written, whatever other calls did since the check.      *)
FitsAllowance(c) ==
    (pc[c] = "insert" /\ pc'[c] = "notify" /\ req[c].amount > 0)
        => used'[seen[c].period] <= seen[c].allowance
NeverOverdraws == [][\A c \in Callers : FitsAllowance(c)]_vars

(* What charge() and refund() answered is what the table says: a call that    *)
(* claims the effect owns the row of its key with its own amount, at most one *)
(* call claims a key, and a call told "already applied" finds a row.          *)
AnswersMatchRows ==
    /\ \A c \in Callers : result[c] = "charged" =>
         \E r \in rows : r.key = req[c].key /\ r.amount \in {req[c].amount, 0 - req[c].amount}
    /\ \A c \in Callers : result[c] = "applied" => HasRow(req[c].key)
    /\ \A c, d \in Callers :
         (c # d /\ result[c] = "charged" /\ result[d] = "charged") => req[c].key # req[d].key

(* "charge = atomic, idempotent (unique idempotencyKey), never negative"      *)
(* (credit-ledger.ts:12): under fixed terms the balance is never negative.    *)
NeverNegative == used[terms.period] <= terms.allowance

(* What is left of the guarantee when charges are not serialized: with fixed  *)
(* terms the overdraft is at most one largest charge for each OTHER caller.   *)
LargestAmount == CHOOSE m \in Amounts : \A n \in Amounts : n <= m
OverdrawBounded ==
    used[terms.period] <= terms.allowance + (Cardinality(Callers) - 1) * LargestAmount

(* threshold-notifier.ts:6, "Fires at most once per user per billing period   *)
(* per threshold".                                                            *)
OneNoticePerPeriod == \A n \in Levels \X Periods : mailed[n] <= 1

(* What is left of it (EmailLogService.ts:46 keeps the first row of a notice, *)
(* :20-34 swallows a row that is not written, :47-50 answers "not sent" when  *)
(* it cannot look): unless the row says that its delivery failed, a notice    *)
(* goes out at most once for each caller, all of which may have looked before *)
(* the first row was written, and once more for each lapse of the log.        *)
NoticesBounded ==
    \A n \in Levels \X Periods : mailLog[n] # "FAILED" => mailed[n] <= Cardinality(Callers) + lapses

(* Every call returns: no failing call wedges the queue, no retry loop turns  *)
(* for ever.                                                                  *)
CallsReturn == \A c \in Callers : pc[c] # "idle" ~> pc[c] = "idle"

(* credit-ledger.ts:9-14: concurrent charges and refunds are, in the table,   *)
(* atomic debits and credits of one account, one for each key, a debit only   *)
(* if the allowance covers it.                                                *)
Account == INSTANCE CreditAccount WITH entries <- rows, spent <- used
ImplementsAccount == Account!Spec
=============================================================================
