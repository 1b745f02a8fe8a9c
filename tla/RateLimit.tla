----------------------------- MODULE RateLimit -----------------------------
(***************************************************************************)
(* The limits on expensive requests (lib/security): a request is admitted  *)
(* when the RequestLog rows of its window are few enough, and logged, in   *)
(* one transaction under advisory locks that are tried and never waited    *)
(* for.  The AI limiter counts the user's rows and then everybody's, the   *)
(* checkout limiter the user's only.  A transaction may fail anywhere, and *)
(* at its commit without a word on whether it took place; it is then tried *)
(* again, with the window of the first attempt.                            *)
(*                                                                         *)
(* Left out: the back-off between attempts, the types of AI requests (one  *)
(* stands for all), and the login limiter, which counts without a lock.    *)
(***************************************************************************)
EXTENDS Integers, Sequences, FiniteSets

CONSTANTS
    Visitors,              \* users of the platform
    Visits,                \* requests that may overlap
    Window,                \* USER_BURST_WINDOW_MS, GLOBAL_GUARD_WINDOW_MS
    USER_BURST_LIMIT,      \* MAX_PER_USER of the checkout limiter
    GLOBAL_GUARD_LIMIT,
    LOCK_RETRY_ATTEMPTS,
    MaxClock, MaxLogged    \* bounds: the clock; rows logged

ASSUME RateConstants ==
    /\ Visitors # {} /\ Window \in Nat /\ USER_BURST_LIMIT \in Nat /\ GLOBAL_GUARD_LIMIT \in Nat
    /\ LOCK_RETRY_ATTEMPTS \in Nat \ {0} /\ MaxClock \in Nat /\ MaxLogged \in Nat

VARIABLES
    limiter,    \* "ai" or "checkout"
    wallClock,
    requestLog, \* the RequestLog rows in the order they were committed: userId, createdAt
    rlPc, visitor, came, attempt, createdAt   \* of each request: place, userId, now, attempt, its row's time

rlCall == <<visitor, came, attempt, createdAt>>
rlVars == <<limiter, wallClock, requestLog, rlPc, visitor, came, attempt, createdAt>>

AnyVisitor == CHOOSE u \in Visitors : TRUE

RateInit ==
    /\ limiter \in {"ai", "checkout"} /\ wallClock = 0 /\ requestLog = <<>>
    /\ rlPc = [v \in Visits |-> "idle"]
    /\ visitor = [v \in Visits |-> AnyVisitor]
    /\ came = [v \in Visits |-> 0]
    /\ attempt = [v \in Visits |-> 0]
    /\ createdAt = [v \in Visits |-> 0]

VisitGoto(v, from, to) == rlPc[v] = from /\ rlPc' = [rlPc EXCEPT ![v] = to]

(* The request is answered, admitted or not, or dies. *)
VisitEnds(v) ==
    /\ rlPc' = [rlPc EXCEPT ![v] = "idle"]
    /\ visitor' = [visitor EXCEPT ![v] = AnyVisitor]
    /\ came' = [came EXCEPT ![v] = 0]
    /\ attempt' = [attempt EXCEPT ![v] = 0]
    /\ createdAt' = [createdAt EXCEPT ![v] = 0]

(* tryOnce() gave null: the next attempt, or refused after the last one.      *)
TryAgain(v) ==
    IF attempt[v] + 1 = LOCK_RETRY_ATTEMPTS THEN VisitEnds(v)
    ELSE /\ rlPc' = [rlPc EXCEPT ![v] = "user lock"]
         /\ attempt' = [attempt EXCEPT ![v] = @ + 1]
         /\ createdAt' = [createdAt EXCEPT ![v] = 0]
         /\ UNCHANGED <<visitor, came>>

(* A lock is held until its transaction ends. *)
InGlobalLock == {v \in Visits : limiter = "ai" /\ rlPc[v] \in {"count all", "create", "commit"}}
InUserLock(u) == {v \in Visits : visitor[v] = u /\ rlPc[v] \in {"count", "global lock", "count all", "create", "commit"}}

Since(time) == {k \in 1 .. Len(requestLog) : requestLog[k].at >= time}
SinceOf(u, time) == {k \in Since(time) : requestLog[k].user = u}

-----------------------------------------------------------------------------
CheckAndRecord(v, u) ==
    /\ VisitGoto(v, "idle", "user lock")
    /\ visitor' = [visitor EXCEPT ![v] = u]
    /\ came' = [came EXCEPT ![v] = wallClock]
    /\ UNCHANGED <<limiter, wallClock, requestLog, attempt, createdAt>>

Bug_TryUserLock(v) ==
    /\ VisitGoto(v, "user lock", "count") /\ UNCHANGED rlCall
    /\ UNCHANGED <<limiter, wallClock, requestLog>>

TryUserLock(v) ==
    /\ rlPc[v] = "user lock"
    /\ IF InUserLock(visitor[v]) # {} THEN TryAgain(v)
       ELSE VisitGoto(v, "user lock", "count") /\ UNCHANGED rlCall
    /\ UNCHANGED <<limiter, wallClock, requestLog>>

CountUser(v) ==
    /\ rlPc[v] = "count"
    /\ IF Cardinality(SinceOf(visitor[v], came[v] - Window)) >= USER_BURST_LIMIT THEN VisitEnds(v)
       ELSE /\ VisitGoto(v, "count", IF limiter = "ai" THEN "global lock" ELSE "create")
            /\ UNCHANGED rlCall
    /\ UNCHANGED <<limiter, wallClock, requestLog>>

TryGlobalLock(v) ==
    /\ rlPc[v] = "global lock"
    /\ IF InGlobalLock # {} THEN TryAgain(v)
       ELSE VisitGoto(v, "global lock", "count all") /\ UNCHANGED rlCall
    /\ UNCHANGED <<limiter, wallClock, requestLog>>

CountAll(v) ==
    /\ rlPc[v] = "count all"
    /\ IF Cardinality(Since(came[v] - Window)) >= GLOBAL_GUARD_LIMIT THEN VisitEnds(v)
       ELSE VisitGoto(v, "count all", "create") /\ UNCHANGED rlCall
    /\ UNCHANGED <<limiter, wallClock, requestLog>>

(* createdAt is now(), which may be the time the transaction began.           *)
CreateLog(v) ==
    /\ VisitGoto(v, "create", "commit")
    /\ \E now \in came[v] .. wallClock : createdAt' = [createdAt EXCEPT ![v] = now]
    /\ UNCHANGED <<limiter, wallClock, requestLog, visitor, came, attempt>>

(* The row is there for all to see; the request may not learn of it.          *)
CommitLog(v) ==
    /\ rlPc[v] = "commit" /\ Len(requestLog) < MaxLogged
    /\ requestLog' = Append(requestLog, [user |-> visitor[v], at |-> createdAt[v]])
    /\ VisitEnds(v) \/ TryAgain(v)
    /\ UNCHANGED <<limiter, wallClock>>

(* No connection, a timeout, or a broken connection: nothing is written.      *)
TransactionFails(v) ==
    /\ rlPc[v] # "idle" /\ TryAgain(v)
    /\ UNCHANGED <<limiter, wallClock, requestLog>>

VisitDies(v) ==
    /\ rlPc[v] # "idle" /\ VisitEnds(v)
    /\ UNCHANGED <<limiter, wallClock, requestLog>>

ClockTicks ==
    /\ wallClock < MaxClock /\ wallClock' = wallClock + 1
    /\ UNCHANGED <<limiter, requestLog, rlPc, rlCall>>

RateNext ==
    \/ \E v \in Visits :
         \/ \E u \in Visitors : CheckAndRecord(v, u)
         \/ TryUserLock(v) \/ CountUser(v) \/ TryGlobalLock(v) \/ CountAll(v)
         \/ CreateLog(v) \/ CommitLog(v) \/ TransactionFails(v) \/ VisitDies(v)
    \/ ClockTicks

RateSpec == RateInit /\ [][RateNext]_rlVars

-----------------------------------------------------------------------------
(* The rows and the requests have the shape the schema and the code give them. *)
RateTypeOK ==
    /\ limiter \in {"ai", "checkout"} /\ wallClock \in Nat
    /\ requestLog \in Seq([user : Visitors, at : Nat])
    /\ rlPc \in [Visits -> {"idle", "user lock", "count", "global lock", "count all", "create", "commit"}]
    /\ visitor \in [Visits -> Visitors] /\ came \in [Visits -> Nat]
    /\ attempt \in [Visits -> Nat] /\ createdAt \in [Visits -> Nat]

(* aiRateLimit.ts:20, "count-then-insert has an inherent TOCTOU race": no     *)
(* burst of requests, whose transactions fail, are tried again under an old   *)
(* window and commit unheard, leaves more rows in a window than the limits.   *)
BurstsAreHeld ==
    /\ \A u \in Visitors : Cardinality(SinceOf(u, wallClock - Window)) <= USER_BURST_LIMIT
    /\ limiter = "ai" => Cardinality(Since(wallClock - Window)) <= GLOBAL_GUARD_LIMIT
=============================================================================
