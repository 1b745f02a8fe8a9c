--------------------------- MODULE PublishingJobs ---------------------------
(***************************************************************************)
(* One article and its PublishingJobs for the internal blog               *)
(* (services/publishing): the invocations that create and run jobs - the   *)
(* Publish button, POST publish-jobs, the dispatch cron - beside the       *)
(* author's edits of the article, and what the public blog serves of it.   *)
(* A step is what happens between two awaits; an invocation may die        *)
(* between any two.                                                        *)
(*                                                                         *)
(* A job is identified by (article, destination, content hash), so by its  *)
(* content here.  Every error of the one destination there is, the blog,   *)
(* is NON_RETRYABLE, so the dispatcher's scan fetches FAILED rows only to  *)
(* drop them.  It looks at a bounded number of the oldest rows, those of   *)
(* other articles among them: `others' counts the ones requested before    *)
(* any of this article's; those between this article's jobs are left out.  *)
(***************************************************************************)
EXTENDS Integers, FiniteSets

CONSTANTS
    Runners,      \* concurrent invocations
    Contents,     \* versions of the article's content
    Ready,        \* those validateArticle() accepts
    Publishable,  \* those InternalBlogAdapter.validate() accepts
    Slotted,      \* those that may be queued for a later time
    MaxAttempts,  \* MAX_PUBLISH_ATTEMPTS
    Limit,        \* jobs that one dispatch() runs
    Window,       \* rows that it looks at for them, in the code 3 * Limit
    MaxCrashes,   \* bound: invocations that die or throw
    MaxOthers     \* bound: other articles' job rows that wait or have failed

ASSUME PublishingConstants ==
    /\ IsFiniteSet(Runners) /\ Runners # {}
    /\ Contents # {} /\ Ready \subseteq Contents /\ Publishable \subseteq Contents
    /\ Slotted \subseteq Contents
    /\ MaxAttempts \in Nat \ {0} /\ Limit \in Nat \ {0} /\ Window \in Nat /\ Window >= Limit
    /\ MaxCrashes \in Nat /\ MaxOthers \in Nat

VARIABLES
    article,   \* the Article row: content, status, soft-deleted or not
    jobs,      \* the PublishingJob rows: status and attemptCount
    before,    \* before[c]: the jobs whose completedAt, if any, is earlier than c's
    attempts,  \* the PublishingAttempt rows of each job, by attemptNumber
    older,     \* older[c]: the jobs that were requested before c's
    due,       \* jobs whose scheduledFor, if any, has passed
    others,    \* other articles' jobs, requested earlier, that are due: how many wait, how many failed
    author,    \* "edit" while an update() has been let through and not yet written
    crashes,
    pc, mode, job, batch, number, verdict  \* of each runner: place, entry point, job it is at,
                                           \* jobs left of its scan, attemptNumber, outcome to record

line   == <<older, due, others>>
rows   == <<article, jobs, before, attempts, older, due, others>>
locals == <<mode, job, batch, number, verdict>>
vars   == <<article, jobs, before, attempts, older, due, others, author, crashes, pc, mode, job, batch, number, verdict>>

Numbers == 1 .. (MaxAttempts + Cardinality(Runners) - 1)
ArticleStatuses == {"draft", "scheduled", "published"}
JobStatuses == {"none", "PENDING", "RUNNING", "SUCCEEDED", "FAILED"}
Articles == [content : Contents, status : ArticleStatuses, deleted : BOOLEAN]
Jobs == [status : JobStatuses, count : Nat]
Attempts == [Numbers -> {"none", "RUNNING", "SUCCEEDED", "FAILED"}]
PCs == {"idle", "create", "find", "insert", "load", "check", "mark", "count", "append", "settle"}
Modes == {"none", "publish", "queue"}
AnyContent == CHOOSE c \in Contents : TRUE

Init ==
    /\ article \in [content : Contents, status : {"draft"}, deleted : {FALSE}]
    /\ jobs = [c \in Contents |-> [status |-> "none", count |-> 0]]
    /\ before = [c \in Contents |-> {}]
    /\ attempts = [c \in Contents |-> [n \in Numbers |-> "none"]]
    /\ older = [c \in Contents |-> {}]
    /\ due = {}
    /\ others \in {o \in [waiting : 0 .. MaxOthers, failed : 0 .. MaxOthers] : o.waiting + o.failed <= MaxOthers}
    /\ author = "idle"
    /\ crashes = 0
    /\ pc = [r \in Runners |-> "idle"]
    /\ mode = [r \in Runners |-> "none"]
    /\ job = [r \in Runners |-> AnyContent]
    /\ batch = [r \in Runners |-> {}]
    /\ number = [r \in Runners |-> 0]
    /\ verdict = [r \in Runners |-> "FAILED"]

Goto(r, from, to) == pc[r] = from /\ pc' = [pc EXCEPT ![r] = to]
Put(f, r, v) == [f EXCEPT ![r] = v]
SetJob(r, row) == jobs' = Put(jobs, job[r], row)
SetAttempt(r, status) == attempts' = Put(attempts, job[r], Put(attempts[job[r]], number[r], status))

Reset(r) ==
    /\ mode' = Put(mode, r, "none")
    /\ number' = Put(number, r, 0)
    /\ verdict' = Put(verdict, r, "FAILED")

Return(r, from) ==
    /\ Goto(r, from, "idle")
    /\ Reset(r)
    /\ job' = Put(job, r, AnyContent)
    /\ batch' = Put(batch, r, {})

(* runAttempt({jobId}) begins for the job of those left that was requested first. *)
Take(r, from, left) ==
    /\ Goto(r, from, "load")
    /\ Reset(r)
    /\ \E c \in left : /\ \A b \in left : b \notin older[c]
                       /\ job' = Put(job, r, c) /\ batch' = Put(batch, r, left \ {c})

(* runAttempt() is over, or threw: dispatch() catches that and takes its next *)
(* job, the other callers return.                                             *)
Leave(r, from) == IF batch[r] # {} THEN Take(r, from, batch[r]) ELSE Return(r, from)

-----------------------------------------------------------------------------
(* publishArticleNow(): both validations of the article as it reads it first. *)
PressPublish(r) ==
    /\ ~article.deleted /\ article.content \in Ready \cap Publishable
    /\ Goto(r, "idle", "create")
    /\ mode' = Put(mode, r, "publish")
    /\ UNCHANGED <<rows, author, crashes, job, batch, number, verdict>>

(* POST publish-jobs: createJob() alone, for now or for a later time. *)
QueueJob(r) ==
    /\ Goto(r, "idle", "create")
    /\ mode' = Put(mode, r, "queue")
    /\ UNCHANGED <<rows, author, crashes, job, batch, number, verdict>>

(* createJob(): 404, or the identity of the content as it is now ...          *)
Create(r) ==
    /\ IF article.deleted THEN Return(r, "create")
       ELSE Goto(r, "create", "find") /\ job' = Put(job, r, article.content)
            /\ UNCHANGED <<mode, batch, number, verdict>>
    /\ UNCHANGED <<rows, author, crashes>>

(* ... whose job is returned, in whatever state it is ...                     *)
UseJob(r, from, status) ==
    IF mode[r] = "queue" \/ status = "SUCCEEDED" THEN Return(r, from)
    ELSE Take(r, from, {job[r]})

FindJob(r) ==
    /\ IF jobs[job[r]].status = "none" THEN Goto(r, "find", "insert") /\ UNCHANGED locals
       ELSE UseJob(r, "find", jobs[job[r]].status)
    /\ UNCHANGED <<rows, author, crashes>>

(* ... or created; the unique identity makes the second of two inserts throw. *)
(* A job that is queued may be scheduled for later.                           *)
InsertJob(r) ==
    /\ IF jobs[job[r]].status # "none" THEN Return(r, "insert") /\ UNCHANGED <<jobs, older, due>>
       ELSE /\ SetJob(r, [status |-> "PENDING", count |-> 0]) /\ UseJob(r, "insert", "PENDING")
            /\ older' = Put(older, job[r], {b \in Contents : jobs[b].status # "none"})
            /\ \/ due' = due \cup {job[r]}
               \/ mode[r] = "queue" /\ job[r] \in Slotted /\ UNCHANGED due
    /\ UNCHANGED <<article, before, attempts, others, author, crashes>>

(* What the dispatcher's query finds due before a job: rows that wait, and    *)
(* FAILED ones below the cap, of this article and of the others.              *)
Waiting(c) == c \in due /\ jobs[c].status = "PENDING"
Failed(c) == c \in due /\ jobs[c].status = "FAILED" /\ jobs[c].count < MaxAttempts
WaitingAhead(c) == Cardinality({b \in older[c] : Waiting(b)}) + others.waiting
FailedAhead(c) == Cardinality({b \in older[c] : Failed(b)}) + others.failed

Bug_FoundOfLimit ==
    {c \in Contents : Waiting(c) /\ WaitingAhead(c) + FailedAhead(c) < Limit}

(* findDispatchableJobs(): the oldest rows are fetched, the FAILED among them   *)
(* dropped, and what is left cut to the limit.                                *)
Found ==
    {c \in Contents : /\ Waiting(c)
                      /\ WaitingAhead(c) + FailedAhead(c) < Window
                      /\ WaitingAhead(c) < Limit}

(* dispatch() runs them one after the other. *)
Scan(r) ==
    /\ Found # {}
    /\ Take(r, "idle", Found)
    /\ UNCHANGED <<rows, author, crashes>>

-----------------------------------------------------------------------------
Bug_LoadUncapped(r) ==
    /\ IF jobs[job[r]].status \in {"PENDING", "FAILED"}
         THEN Goto(r, "load", "check") /\ UNCHANGED locals
         ELSE Leave(r, "load")
    /\ UNCHANGED <<rows, author, crashes>>

(* runAttempt(): the job must be runnable and below its cap when it is read. *)
Load(r) ==
    /\ IF jobs[job[r]].status \in {"PENDING", "FAILED"} /\ jobs[job[r]].count < MaxAttempts
         THEN Goto(r, "load", "check") /\ UNCHANGED locals
         ELSE Leave(r, "load")
    /\ UNCHANGED <<rows, author, crashes>>

Bug_CheckHashOnly(r) ==
    /\ IF article.deleted THEN Leave(r, "check")
       ELSE /\ Goto(r, "check", "mark")
            /\ verdict' = Put(verdict, r, IF article.content = job[r] THEN "SUCCEEDED" ELSE "FAILED")
            /\ UNCHANGED <<mode, job, batch, number>>
    /\ UNCHANGED <<rows, author, crashes>>

(* The article is read once; its hash and the adapter's verdict on it decide  *)
(* the outcome, both failures are recorded as an attempt.                     *)
Check(r) ==
    LET accepted == article.content = job[r] /\ article.content \in Publishable IN
    /\ IF article.deleted THEN Leave(r, "check")
       ELSE /\ Goto(r, "check", "mark")
            /\ verdict' = Put(verdict, r, IF accepted THEN "SUCCEEDED" ELSE "FAILED")
            /\ UNCHANGED <<mode, job, batch, number>>
    /\ UNCHANGED <<rows, author, crashes>>

Bug_MarkArticle(r) ==
    /\ Goto(r, "mark", "count")
    /\ jobs' = [c \in Contents |-> IF jobs[c].status = "none" THEN jobs[c] ELSE [jobs[c] EXCEPT !.status = "RUNNING"]]
    /\ UNCHANGED <<article, before, attempts, line, author, crashes, locals>>

(* patchJob(RUNNING), whatever the job has become since it was read. *)
Mark(r) ==
    /\ Goto(r, "mark", "count")
    /\ SetJob(r, [jobs[job[r]] EXCEPT !.status = "RUNNING"])
    /\ UNCHANGED <<article, before, attempts, line, author, crashes, locals>>

Count(r) ==
    /\ Goto(r, "count", "append")
    /\ SetJob(r, [jobs[job[r]] EXCEPT !.count = @ + 1])
    /\ number' = Put(number, r, jobs[job[r]].count + 1)
    /\ UNCHANGED <<article, before, attempts, line, author, crashes, mode, job, batch, verdict>>

AppendAttempt(r) ==
    /\ Goto(r, "append", "settle")
    /\ SetAttempt(r, "RUNNING")
    /\ UNCHANGED <<article, jobs, before, line, author, crashes, locals>>

Settle(r, status) ==
    /\ verdict[r] = status
    /\ Leave(r, "settle")
    /\ SetJob(r, [jobs[job[r]] EXCEPT !.status = status])
    /\ before' = [c \in Contents |-> IF c = job[r] THEN Contents \ {c} ELSE before[c] \ {job[r]}]
    /\ SetAttempt(r, status)
    /\ UNCHANGED <<line, author, crashes>>

(* commitSuccess(): attempt, job and article in one transaction, which checks *)
(* only that the article still exists.                                        *)
CommitSuccess(r) ==
    /\ Settle(r, "SUCCEEDED")
    /\ article' = IF article.deleted THEN article ELSE [article EXCEPT !.status = "published"]

(* commitFailure(): attempt and job, the article is not touched. *)
CommitFailure(r) ==
    /\ Settle(r, "FAILED")
    /\ UNCHANGED article

(* The invocation is killed, or an await of runAttempt() throws. *)
Crash(r) ==
    /\ crashes < MaxCrashes
    /\ pc[r] # "idle"
    /\ Return(r, pc[r]) \/ (pc[r] \notin {"create", "find", "insert"} /\ Leave(r, pc[r]))
    /\ crashes' = crashes + 1
    /\ UNCHANGED <<rows, author>>

-----------------------------------------------------------------------------
(* update() reads the article, refuses a published one, then writes by id.    *)
EditRead ==
    /\ author = "idle"
    /\ ~article.deleted /\ article.status # "published"
    /\ author' = "edit"
    /\ UNCHANGED <<rows, crashes, pc, locals>>

EditWrite ==
    /\ author = "edit"
    /\ author' = "idle"
    /\ \E c \in Contents \ {article.content} : article' = [article EXCEPT !.content = c]
    /\ UNCHANGED <<jobs, before, attempts, line, crashes, pc, locals>>

(* schedule(), gated by validateArticle() alone, and remove().  What they read *)
(* first only the author changes, so each is one step.                        *)
Schedule ==
    /\ author = "idle"
    /\ ~article.deleted /\ article.content \in Ready
    /\ article' = [article EXCEPT !.status = "scheduled"]
    /\ UNCHANGED <<jobs, before, attempts, line, author, crashes, pc, locals>>

Remove ==
    /\ author = "idle"
    /\ ~article.deleted
    /\ article' = [article EXCEPT !.deleted = TRUE]
    /\ UNCHANGED <<jobs, before, attempts, line, author, crashes, pc, locals>>

-----------------------------------------------------------------------------
(* The time of a scheduled job comes; the scan asks it of rows that may run.  *)
FallDue ==
    /\ \E c \in Contents \ due : jobs[c].status \in {"PENDING", "FAILED"} /\ due' = due \cup {c}
    /\ UNCHANGED <<article, jobs, before, attempts, older, others, author, crashes, pc, locals>>

(* An older job of another article fails, below the cap, or leaves what the   *)
(* scan looks at: it succeeds, is given up, is tried as often as the cap      *)
(* allows.  One whose attempt throws each time goes on waiting.               *)
OtherMoves ==
    /\ \/ others.waiting > 0 /\ others' = [others EXCEPT !.waiting = @ - 1]
       \/ others.waiting > 0 /\ others' = [waiting |-> others.waiting - 1, failed |-> others.failed + 1]
       \/ others.failed > 0 /\ others' = [others EXCEPT !.failed = @ - 1]
    /\ UNCHANGED <<article, jobs, before, attempts, older, due, author, crashes, pc, locals>>

-----------------------------------------------------------------------------
Succeeded == {c \in Contents : jobs[c].status = "SUCCEEDED"}

(* What /blog serves: the content of an article, if it is the content of the  *)
(* article's SUCCEEDED job that completed last.                               *)
Served == {c \in Succeeded \cap {article.content} : ~article.deleted /\ Succeeded \ {c} \subseteq before[c]}

CreateJob(r) == Create(r) \/ FindJob(r) \/ InsertJob(r)
RunAttempt(r) == \/ Load(r) \/ Check(r) \/ Mark(r) \/ Count(r) \/ AppendAttempt(r)
                 \/ CommitSuccess(r) \/ CommitFailure(r)
Start(r) == PressPublish(r) \/ QueueJob(r) \/ Scan(r)
Go(r) == CreateJob(r) \/ RunAttempt(r)
Author == EditRead \/ EditWrite \/ Schedule \/ Remove
Around == FallDue \/ OtherMoves

Next == \/ \E r \in Runners : Start(r) \/ Go(r) \/ Crash(r)
        \/ Author \/ Around

Spec == Init /\ [][Next]_vars

(* An invocation that is not killed goes on, and the dispatch cron comes back *)
(* whatever else is asked for: which jobs it finds is the scan's own affair.  *)
FairSpec ==
    /\ Spec
    /\ \A r \in Runners : WF_vars(Go(r))
    /\ SF_vars(\E r \in Runners : Scan(r))
-----------------------------------------------------------------------------
(* The rows hold the statuses of their own type; attempt numbers stay within  *)
(* what the cap and the overlapping runners allow.                            *)
JobsTyped ==
    /\ article \in Articles
    /\ jobs \in [Contents -> Jobs]
    /\ before \in [Contents -> SUBSET Contents]
    /\ attempts \in [Contents -> Attempts]
    /\ author \in {"idle", "edit"}
    /\ crashes \in Nat
    /\ pc \in [Runners -> PCs]
    /\ mode \in [Runners -> Modes]
    /\ job \in [Runners -> Contents]
    /\ batch \in [Runners -> SUBSET Contents]
    /\ number \in [Runners -> Nat]
    /\ verdict \in [Runners -> {"SUCCEEDED", "FAILED"}]

QueueTyped ==
    /\ older \in [Contents -> SUBSET Contents]
    /\ due \in SUBSET Contents
    /\ others \in [waiting : Nat, failed : Nat]

TypeOK == JobsTyped /\ QueueTyped

(* publishing.service.ts:86, "hard cap on attempts per job": checked before   *)
(* the increment, so it holds up to one attempt for each other runner.        *)
AttemptsBounded == \A c \in Contents : jobs[c].count <= MaxAttempts + Cardinality(Runners) - 1

(* publishing.service.ts:174, the engine "produces a real PublishingJob": an  *)
(* article is published, and a job SUCCEEDED, only on an attempt on record    *)
(* that succeeded with content the blog accepts.                              *)
Backed(c) == c \in Publishable /\ \E n \in Numbers : attempts[c][n] = "SUCCEEDED"
PublicationIsBacked ==
    /\ article.status = "published" => \E c \in Contents : Backed(c)
    /\ \A c \in Contents : jobs[c].status = "SUCCEEDED" => Backed(c)

(* No reader is served content the blog did not accept in a successful        *)
(* attempt, however edits, overlapping runs and crashes are ordered.          *)
ServedIsBacked == \A c \in Served : Backed(c)

(* publishing.service.ts:66, "publish in the next dispatcher run", as far as   *)
(* it holds: a job that is due is taken up, unless its article is deleted or   *)
(* rows requested before it fill the scan for good: jobs of other articles    *)
(* that wait (their attempts throw) as many as are run, or these and FAILED   *)
(* rows below the cap as many as are fetched.  Older jobs of its own article   *)
(* delay it only.                                                             *)
Starved(c) == \/ others.waiting >= Limit
              \/ others.waiting + FailedAhead(c) >= Window
QueueDrains ==
    \A c \in Contents : Waiting(c) ~> (jobs[c].status # "PENDING" \/ article.deleted \/ []Starved(c))

(* The promise itself, which old rows break. *)
NextRunPublishes == \A c \in Contents : Waiting(c) ~> (jobs[c].status # "PENDING" \/ article.deleted)

(* blog-reader.service.ts:7, "visible on /blog iff it has a SUCCEEDED          *)
(* PublishingJob" and "its current content still hashes to that job's         *)
(* contentHash".                                                              *)
VisibleIffSucceeded ==
    Served = {c \in {article.content} : ~article.deleted /\ jobs[c].status = "SUCCEEDED"}

(* publishing.repository.ts:268, "a job can never be SUCCEEDED while its      *)
(* Article is still editable".                                                *)
SucceededClosesTheArticle ==
    (~article.deleted /\ \E c \in Contents : jobs[c].status = "SUCCEEDED") => article.status = "published"

(* article.service.ts:215, "once published, a row is read-only".              *)
PublishedIsReadOnly ==
    [][article.status = "published" => article'.content = article.content]_article

(* job-contract.ts:55, "Terminal = no further transitions, ever".             *)
SucceededIsFinal == [][\A c \in Contents : jobs[c].status = "SUCCEEDED" => jobs'[c].status = "SUCCEEDED"]_jobs

(* job-contract.ts:66-74 and attempt-contract.ts: what invocations do to the  *)
(* jobs is what attempts made one after another do.                           *)
AtWork(c, place) == \E r \in Runners : job[r] = c /\ pc[r] = place
Stage(c) ==
    CASE jobs[c].status # "RUNNING" -> jobs[c].status
      [] jobs[c].status = "RUNNING" /\ AtWork(c, "count") -> "begun"
      [] jobs[c].status = "RUNNING" /\ AtWork(c, "append") -> "counted"
      [] jobs[c].status = "RUNNING" /\ AtWork(c, "settle") -> "open"
      [] OTHER -> "lost"
Contract == INSTANCE JobContract WITH
    Jobs <- Contents, Accepted <- Publishable,
    stage <- [c \in Contents |-> Stage(c)], count <- [c \in Contents |-> jobs[c].count], outcomes <- attempts
ImplementsJobContract == Contract!Spec
=============================================================================
