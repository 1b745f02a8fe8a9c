------------------------ MODULE PublishingJobsProofs ------------------------
(* Theorems about PublishingJobs, for every value of its constants. *)
EXTENDS PublishingJobs, FiniteSetTheorems, TLAPS

(***************************************************************************)
(* The inductive invariant.  A runner that has passed the cap and not yet  *)
(* counted its attempt is an increment to come; a runner that has counted  *)
(* owns its attempt number until it returns, so no two write one attempt   *)
(* and no finished attempt is written again.                               *)
(***************************************************************************)
Coming(c) == {r \in Runners : job[r] = c /\ pc[r] \in {"check", "mark", "count"}}
Cap == MaxAttempts + Cardinality(Runners) - 1
Capped == \A c \in Contents : jobs[c].count + Cardinality(Coming(c)) <= Cap

Numbered(r) == pc[r] \in {"append", "settle"}
Decided(r) == pc[r] \in {"mark", "count", "append", "settle"}

Local(r) ==
    /\ Numbered(r) => number[r] >= 1 /\ number[r] <= jobs[job[r]].count
    /\ Numbered(r) => attempts[job[r]][number[r]] # "SUCCEEDED"
    /\ Numbered(r) \/ pc[r] = "count" => jobs[job[r]].status # "none"
    /\ Decided(r) /\ verdict[r] = "SUCCEEDED" => job[r] \in Publishable

OwnNumbers ==
    \A r, s \in Runners : r # s /\ Numbered(r) /\ Numbered(s) /\ job[r] = job[s] => number[r] # number[s]

Tables ==
    /\ \A c \in Contents : jobs[c].status = "none" => jobs[c].count = 0
    /\ \A c \in Contents, n \in Numbers : n > jobs[c].count => attempts[c][n] = "none"

Inv == JobsTyped /\ Capped /\ (\A r \in Runners : Local(r)) /\ OwnNumbers /\ Tables /\ PublicationIsBacked

-----------------------------------------------------------------------------
LEMMA RunnerCount == IsFiniteSet(Runners) /\ Cardinality(Runners) \in Nat /\ Cardinality(Runners) >= 1
<1>1. IsFiniteSet(Runners) /\ Runners # {}  BY PublishingConstants
<1> QED BY <1>1, FS_CardinalityType, FS_EmptySet

LEMMA CapFacts == Cap \in Nat /\ MaxAttempts \in Nat /\ Cap >= MaxAttempts /\ Numbers = 1 .. Cap
BY RunnerCount, PublishingConstants DEF Cap, Numbers

LEMMA ComingFacts ==
    ASSUME NEW c \in Contents
    PROVE  /\ IsFiniteSet(Coming(c)) /\ Cardinality(Coming(c)) \in Nat
           /\ IsFiniteSet(Coming(c)') /\ Cardinality(Coming(c)') \in Nat
           /\ Cardinality(Coming(c)') <= Cardinality(Runners)
           /\ Coming(c)' \subseteq Coming(c) => Cardinality(Coming(c)') <= Cardinality(Coming(c))
           /\ \A r \in Coming(c) : Coming(c)' \subseteq Coming(c) \ {r} =>
                Cardinality(Coming(c)') + 1 <= Cardinality(Coming(c))
<1>1. Coming(c) \subseteq Runners /\ Coming(c)' \subseteq Runners  BY DEF Coming
<1>2. IsFiniteSet(Coming(c)) /\ IsFiniteSet(Coming(c)')
      /\ Cardinality(Coming(c)') <= Cardinality(Runners)
    BY <1>1, RunnerCount, FS_Subset
<1>3. Cardinality(Coming(c)) \in Nat /\ Cardinality(Coming(c)') \in Nat
    BY <1>2, FS_CardinalityType
<1>4. Coming(c)' \subseteq Coming(c) => Cardinality(Coming(c)') <= Cardinality(Coming(c))
    BY <1>2, FS_Subset
<1>5. ASSUME NEW r \in Coming(c), Coming(c)' \subseteq Coming(c) \ {r}
      PROVE  Cardinality(Coming(c)') + 1 <= Cardinality(Coming(c))
  <2>1. IsFiniteSet(Coming(c) \ {r}) /\ Cardinality(Coming(c) \ {r}) = Cardinality(Coming(c)) - 1
      BY <1>2, FS_RemoveElement
  <2>2. Cardinality(Coming(c)') <= Cardinality(Coming(c) \ {r})
      BY <1>5, <2>1, FS_Subset
  <2> QED BY <1>3, <2>1, <2>2
<1> QED BY <1>2, <1>3, <1>4, <1>5

LEMMA InvInit == Init => Inv
<1> SUFFICES ASSUME Init PROVE Inv  OBVIOUS
<1>1. AnyContent \in Contents  BY PublishingConstants DEF AnyContent
<1>2. JobsTyped
    BY <1>1 DEF Init, JobsTyped, Articles, ArticleStatuses, Jobs, JobStatuses, Attempts, PCs, Modes
<1>3. Capped
  <2> SUFFICES ASSUME NEW c \in Contents PROVE jobs[c].count + Cardinality(Coming(c)) <= Cap
      BY DEF Capped
  <2>1. Coming(c) = {} /\ jobs[c].count = 0  BY DEF Init, Coming
  <2> QED BY <2>1, FS_EmptySet, CapFacts
<1>4. \A r \in Runners : Local(r)  BY DEF Init, Local, Numbered, Decided
<1>5. OwnNumbers /\ Tables /\ PublicationIsBacked
    BY DEF Init, OwnNumbers, Numbered, Tables, PublicationIsBacked
<1> QED BY <1>2, <1>3, <1>4, <1>5 DEF Inv

-----------------------------------------------------------------------------
(* A step of runner r leaves the locals of the others alone. *)
Moves(r) ==
    /\ pc' \in [Runners -> PCs] /\ mode' \in [Runners -> Modes]
    /\ job' \in [Runners -> Contents] /\ batch' \in [Runners -> SUBSET Contents]
    /\ number' \in [Runners -> Nat] /\ verdict' \in [Runners -> {"SUCCEEDED", "FAILED"}]
    /\ \A s \in Runners \ {r} :
         pc'[s] = pc[s] /\ job'[s] = job[s] /\ number'[s] = number[s] /\ verdict'[s] = verdict[s]

(* It owes no increment that it did not owe before. *)
NoNewIncrement(r) ==
    pc'[r] \in {"check", "mark", "count"} => pc[r] \in {"check", "mark", "count"} /\ job'[r] = job[r]

Resting(r) == pc[r] \in {"idle", "create", "find", "insert", "load"}

LEMMA RestingLocal == \A r \in Runners : Resting(r)' => Local(r)' /\ ~ Numbered(r)' /\ NoNewIncrement(r)
BY DEF Resting, Local, Numbered, Decided, NoNewIncrement

(* Where runAttempt() ends, and where the next one begins. *)
LEMMA EndsRest ==
    ASSUME JobsTyped, NEW r \in Runners, NEW from
    PROVE  /\ Return(r, from) => Moves(r) /\ Resting(r)'
           /\ \A left \in SUBSET Contents : Take(r, from, left) => Moves(r) /\ Resting(r)'
           /\ Leave(r, from) => Moves(r) /\ Resting(r)'
<1>1. AnyContent \in Contents  BY PublishingConstants DEF AnyContent
<1>2. Return(r, from) => Moves(r) /\ Resting(r)'
    BY <1>1 DEF JobsTyped, Return, Goto, Reset, Put, Moves, Resting, PCs, Modes
<1>3. \A left \in SUBSET Contents : Take(r, from, left) => Moves(r) /\ Resting(r)'
    BY DEF JobsTyped, Take, Goto, Reset, Put, Moves, Resting, PCs, Modes
<1>4. batch[r] \in SUBSET Contents  BY DEF JobsTyped
<1> QED BY <1>2, <1>3, <1>4 DEF Leave

LEMMA FoundFacts == Found \in SUBSET Contents
BY DEF Found

(* A step that keeps every count keeps the cap. *)
LEMMA CappedStays ==
    ASSUME Inv, NEW r \in Runners, Moves(r), NoNewIncrement(r), JobsTyped',
           \A c \in Contents : jobs'[c].count = jobs[c].count
    PROVE  Capped'
<1> SUFFICES ASSUME NEW c \in Contents PROVE jobs'[c].count + Cardinality(Coming(c)') <= Cap
    BY DEF Capped, Cap
<1>1. Coming(c)' \subseteq Coming(c)  BY DEF Coming, Moves, NoNewIncrement
<1>2. jobs[c].count \in Nat /\ jobs'[c].count = jobs[c].count  BY DEF Inv, JobsTyped, Jobs
<1>3. jobs[c].count + Cardinality(Coming(c)) <= Cap  BY DEF Inv, Capped
<1> QED BY <1>1, <1>2, <1>3, ComingFacts, CapFacts

(* What the other runners know stays true. *)
LEMMA OthersKeep ==
    ASSUME Inv, NEW r \in Runners, Moves(r), JobsTyped',
           \A c \in Contents : jobs'[c].status = "none" => jobs[c].status = "none",
           \A c \in Contents : jobs'[c].count >= jobs[c].count,
           \A s \in Runners \ {r} : Numbered(s) =>
               attempts'[job[s]][number[s]] = attempts[job[s]][number[s]]
    PROVE  \A s \in Runners \ {r} : Local(s)'
<1> SUFFICES ASSUME NEW s \in Runners \ {r} PROVE Local(s)'  OBVIOUS
<1>1. Local(s)  BY DEF Inv
<1>2. pc'[s] = pc[s] /\ job'[s] = job[s] /\ number'[s] = number[s] /\ verdict'[s] = verdict[s]
    BY DEF Moves
<1>3. job[s] \in Contents /\ number[s] \in Nat  BY DEF Inv, JobsTyped
<1>4. jobs[job[s]].count \in Nat /\ jobs'[job[s]].count \in Nat
    BY <1>3 DEF Inv, JobsTyped, Jobs
<1> QED BY <1>1, <1>2, <1>3, <1>4 DEF Local, Numbered, Decided

(* An attempt that succeeded stays on record. *)
LEMMA BackedStays ==
    ASSUME Inv, NEW c \in Contents, Backed(c),
           \A n \in Numbers : attempts[c][n] = "SUCCEEDED" => attempts'[c][n] = "SUCCEEDED"
    PROVE  Backed(c)'
BY DEF Backed

(* Steps that write neither a job nor an attempt. *)
LEMMA RowsStay ==
    ASSUME Inv, NEW r \in Runners, Moves(r), UNCHANGED <<article, jobs, before, attempts, author>>,
           crashes' \in Nat, ~ Numbered(r)', Local(r)', NoNewIncrement(r) \/ Capped'
    PROVE  Inv'
<1>1. JobsTyped'  BY DEF Inv, JobsTyped, Moves
<1>2. Capped'  BY <1>1, CappedStays
<1>3. \A s \in Runners : Local(s)'
  <2>1. \A c \in Contents : jobs'[c].count >= jobs[c].count  BY DEF Inv, JobsTyped, Jobs
  <2> QED BY <1>1, <2>1, OthersKeep
<1>4. OwnNumbers'  BY DEF Inv, OwnNumbers, Numbered, Moves
<1>5. Tables' /\ PublicationIsBacked'
    BY DEF Inv, Tables, PublicationIsBacked, Backed, Numbers
<1> QED BY <1>1, <1>2, <1>3, <1>4, <1>5 DEF Inv

LEMMA EntriesKeepInv ==
    ASSUME Inv, NEW r \in Runners
    PROVE  PressPublish(r) \/ QueueJob(r) \/ Create(r) \/ FindJob(r) \/ Scan(r) \/ Crash(r) => Inv'
<1> USE DEF Inv
<1>0. ASSUME Moves(r), Resting(r)', UNCHANGED <<article, jobs, before, attempts, author>>, crashes' \in Nat
      PROVE  Inv'
    BY <1>0, RestingLocal, RowsStay
<1>1. ASSUME PressPublish(r) \/ QueueJob(r) PROVE Inv'
  <2>1. Moves(r) /\ Resting(r)'
      BY <1>1 DEF PressPublish, QueueJob, Goto, Put, JobsTyped, Moves, Resting, PCs, Modes
  <2> QED BY <1>0, <1>1, <2>1 DEF PressPublish, QueueJob, rows, JobsTyped
<1>2. ASSUME Create(r) PROVE Inv'
  <2>1. CASE article.deleted
    <3>1. Moves(r) /\ Resting(r)'  BY <1>2, <2>1, EndsRest DEF Create
    <3> QED BY <1>0, <1>2, <3>1 DEF Create, rows, JobsTyped
  <2>2. CASE ~ article.deleted
    <3>1. article.content \in Contents  BY DEF JobsTyped, Articles
    <3>2. Moves(r) /\ Resting(r)'
        BY <1>2, <2>2, <3>1 DEF Create, Goto, Put, JobsTyped, Moves, Resting, PCs
    <3> QED BY <1>0, <1>2, <3>2 DEF Create, rows, JobsTyped
  <2> QED BY <2>1, <2>2
<1>3. ASSUME FindJob(r) PROVE Inv'
  <2>1. CASE jobs[job[r]].status = "none"
    <3>1. Moves(r) /\ Resting(r)'
        BY <1>3, <2>1 DEF FindJob, Goto, locals, JobsTyped, Moves, Resting, PCs
    <3> QED BY <1>0, <1>3, <3>1 DEF FindJob, rows, JobsTyped
  <2>2. CASE jobs[job[r]].status # "none"
    <3>1. {job[r]} \in SUBSET Contents  BY DEF JobsTyped
    <3>2. Moves(r) /\ Resting(r)'  BY <1>3, <2>2, <3>1, EndsRest DEF FindJob, UseJob
    <3> QED BY <1>0, <1>3, <3>2 DEF FindJob, rows, JobsTyped
  <2> QED BY <2>1, <2>2
<1>4. ASSUME Crash(r) PROVE Inv'
  <2>1. Moves(r) /\ Resting(r)'  BY <1>4, EndsRest DEF Crash
  <2> QED BY <1>0, <1>4, <2>1 DEF Crash, rows, JobsTyped
<1>5. ASSUME Scan(r) PROVE Inv'
  <2>1. Moves(r) /\ Resting(r)'  BY <1>5, EndsRest, FoundFacts DEF Scan
  <2> QED BY <1>0, <1>5, <2>1 DEF Scan, rows, JobsTyped
<1> QED BY <1>1, <1>2, <1>3, <1>4, <1>5

(* The cap is checked against the count as it is now, so one more increment  *)
(* still fits beside those every other runner may owe.                       *)
LEMMA LoadKeepsInv == ASSUME Inv, NEW r \in Runners, Load(r) PROVE Inv'
<1> USE DEF Inv
<1>1. CASE Leave(r, "load")
  <2>1. Moves(r) /\ Resting(r)'  BY <1>1, EndsRest
  <2> QED BY <2>1, RestingLocal, RowsStay DEF Load, rows, JobsTyped
<1>2. CASE ~ Leave(r, "load")
  <2>1. /\ pc' = [pc EXCEPT ![r] = "check"] /\ pc[r] = "load"
        /\ UNCHANGED <<mode, job, batch, number, verdict>>
        /\ jobs[job[r]].count < MaxAttempts
      BY <1>2 DEF Load, Goto, locals
  <2>2. Moves(r)  BY <2>1 DEF JobsTyped, Moves, PCs
  <2>3. pc'[r] = "check"  BY <2>1 DEF JobsTyped
  <2>4. ~ Numbered(r)' /\ Local(r)'  BY <2>3 DEF Numbered, Decided, Local
  <2>5. Capped'
    <3> SUFFICES ASSUME NEW c \in Contents PROVE jobs'[c].count + Cardinality(Coming(c)') <= Cap
        BY DEF Capped, Cap
    <3>1. jobs' = jobs /\ jobs[c].count \in Nat  BY DEF Load, rows, JobsTyped, Jobs
    <3>2. jobs[c].count + Cardinality(Coming(c)) <= Cap  BY DEF Capped
    <3>3. CASE c = job[r]
      <4>1. jobs[c].count < MaxAttempts  BY <2>1, <3>3
      <4>2. Cap = MaxAttempts + Cardinality(Runners) - 1 /\ Cardinality(Runners) \in Nat
          BY RunnerCount DEF Cap
      <4> QED BY <3>1, <4>1, <4>2, ComingFacts, CapFacts
    <3>4. CASE c # job[r]
      <4>1. Coming(c)' \subseteq Coming(c)  BY <2>1, <3>4 DEF Coming, JobsTyped
      <4> QED BY <3>1, <3>2, <4>1, ComingFacts, CapFacts
    <3> QED BY <3>3, <3>4
  <2> QED BY <2>2, <2>4, <2>5, RowsStay DEF Load, rows, JobsTyped
<1> QED BY <1>1, <1>2

LEMMA CheckKeepsInv == ASSUME Inv, NEW r \in Runners, Check(r) PROVE Inv'
<1> USE DEF Inv
<1>1. CASE article.deleted
  <2>1. Moves(r) /\ Resting(r)'  BY <1>1, EndsRest DEF Check
  <2> QED BY <2>1, RestingLocal, RowsStay DEF Check, rows, JobsTyped
<1>2. CASE ~ article.deleted
  <2>1. /\ pc' = [pc EXCEPT ![r] = "mark"] /\ pc[r] = "check"
        /\ UNCHANGED <<mode, job, batch, number>>
      BY <1>2 DEF Check, Goto
  <2>2. /\ verdict' \in [Runners -> {"SUCCEEDED", "FAILED"}]
        /\ \A s \in Runners \ {r} : verdict'[s] = verdict[s]
        /\ verdict'[r] = "SUCCEEDED" => job[r] \in Publishable
      BY <1>2 DEF Check, Put, JobsTyped
  <2>3. Moves(r)  BY <2>1, <2>2 DEF JobsTyped, Moves, PCs
  <2>4. pc'[r] = "mark"  BY <2>1 DEF JobsTyped
  <2>5. ~ Numbered(r)' /\ Local(r)' /\ NoNewIncrement(r)
      BY <2>1, <2>2, <2>4 DEF Numbered, Decided, Local, NoNewIncrement
  <2> QED BY <2>3, <2>5, RowsStay DEF Check, rows, JobsTyped
<1> QED BY <1>1, <1>2

-----------------------------------------------------------------------------
(* Steps that write the job's row and no attempt. *)
LEMMA JobRowWritten ==
    ASSUME Inv, NEW r \in Runners, Moves(r), UNCHANGED <<article, before, attempts, author, crashes>>,
           NEW row \in Jobs, SetJob(r, row), row.status # "none",
           row.status = "SUCCEEDED" => jobs[job[r]].status = "SUCCEEDED",
           row.count >= jobs[job[r]].count,
           (NoNewIncrement(r) /\ row.count = jobs[job[r]].count) \/ Capped',
           Local(r)', Numbered(r)' => job'[r] = job[r] /\ number'[r] > jobs[job[r]].count
    PROVE  Inv'
<1> USE DEF Inv
<1>1. job[r] \in Contents /\ jobs \in [Contents -> Jobs]  BY DEF JobsTyped
<1>2. /\ jobs' \in [Contents -> Jobs] /\ jobs'[job[r]] = row
      /\ \A c \in Contents \ {job[r]} : jobs'[c] = jobs[c]
    BY <1>1 DEF SetJob, Put
<1>3. JobsTyped'  BY <1>2 DEF JobsTyped, Moves
<1>4. \A c \in Contents : jobs[c].count \in Nat /\ jobs'[c].count \in Nat /\ jobs'[c].count >= jobs[c].count
    BY <1>1, <1>2 DEF Jobs
<1>5. Capped'  BY <1>2, <1>3, CappedStays
<1>6. \A s \in Runners : Local(s)'
    BY <1>2, <1>3, <1>4, OthersKeep
<1>7. OwnNumbers'
  <2> SUFFICES ASSUME NEW s \in Runners, NEW t \in Runners, s # t, Numbered(s)', Numbered(t)', job'[s] = job'[t]
               PROVE  number'[s] # number'[t]
      BY DEF OwnNumbers, Numbered
  <2>1. \A u \in Runners \ {r} : Numbered(u)' =>
            Numbered(u) /\ job'[u] = job[u] /\ number'[u] = number[u] /\ number[u] <= jobs[job[u]].count
      BY DEF Moves, Numbered, Local
  <2>2. number'[r] \in Nat /\ \A u \in Runners : number[u] \in Nat /\ job[u] \in Contents
      BY DEF JobsTyped, Moves
  <2>3. CASE s = r  BY <1>4, <2>1, <2>2, <2>3
  <2>4. CASE t = r  BY <1>4, <2>1, <2>2, <2>4
  <2>5. CASE s # r /\ t # r  BY <2>1, <2>5 DEF OwnNumbers
  <2> QED BY <2>3, <2>4, <2>5
<1>8. Tables'
  <2>1. \A c \in Contents : jobs'[c].status = "none" => jobs'[c].count = 0
      BY <1>2 DEF Tables
  <2>2. \A c \in Contents, n \in Numbers : n > jobs'[c].count => attempts[c][n] = "none"
    <3> SUFFICES ASSUME NEW c \in Contents, NEW n \in Numbers, n > jobs'[c].count
                 PROVE  attempts[c][n] = "none"
        OBVIOUS
    <3>1. n \in Nat  BY CapFacts
    <3>2. n > jobs[c].count  BY <1>4, <3>1
    <3> QED BY <3>2 DEF Tables
  <2> QED BY <2>1, <2>2 DEF Tables, Numbers
<1>9. PublicationIsBacked'
  <2>1. \A c \in Contents : jobs'[c].status = "SUCCEEDED" => jobs[c].status = "SUCCEEDED"
      BY <1>2
  <2> QED BY <2>1 DEF PublicationIsBacked, Backed, Numbers
<1> QED BY <1>3, <1>5, <1>6, <1>7, <1>8, <1>9

LEMMA JobStepsKeepInv ==
    ASSUME Inv, NEW r \in Runners
    PROVE  InsertJob(r) \/ Mark(r) \/ Count(r) => Inv'
<1> USE DEF Inv
<1>0. /\ job[r] \in Contents /\ jobs[job[r]] \in Jobs
      /\ jobs[job[r]].count \in Nat /\ number[r] \in Nat
    BY DEF JobsTyped, Jobs
<1>1. ASSUME InsertJob(r) PROVE Inv'
  <2>1. CASE jobs[job[r]].status # "none"
    <3>1. Moves(r) /\ Resting(r)' /\ UNCHANGED jobs  BY <1>1, <2>1, EndsRest DEF InsertJob
    <3> QED BY <1>1, <3>1, RestingLocal, RowsStay DEF InsertJob, JobsTyped
  <2>2. CASE jobs[job[r]].status = "none"
    <3> DEFINE fresh == [status |-> "PENDING", count |-> 0]
    <3>1. fresh \in Jobs /\ fresh.count = jobs[job[r]].count
        BY <1>0, <2>2 DEF Tables, Jobs, JobStatuses
    <3>2. SetJob(r, fresh) /\ UseJob(r, "insert", "PENDING")  BY <1>1, <2>2 DEF InsertJob
    <3>3. {job[r]} \in SUBSET Contents  BY <1>0
    <3>4. Moves(r) /\ Resting(r)'  BY <3>2, <3>3, EndsRest DEF UseJob
    <3>5. Local(r)' /\ ~ Numbered(r)' /\ NoNewIncrement(r)  BY <3>4, RestingLocal
    <3>6. UNCHANGED <<article, before, attempts, author, crashes>>  BY <1>1 DEF InsertJob
    <3>7. fresh.status = "PENDING" /\ fresh.count >= jobs[job[r]].count
        BY <1>0, <3>1
    <3> HIDE DEF fresh
    <3> QED BY <3>1, <3>2, <3>4, <3>5, <3>6, <3>7, JobRowWritten
  <2> QED BY <2>1, <2>2
<1>2. ASSUME Mark(r) PROVE Inv'
  <2> DEFINE running == [jobs[job[r]] EXCEPT !.status = "RUNNING"]
  <2>1. /\ running \in Jobs /\ running.count = jobs[job[r]].count
        /\ running.status = "RUNNING"
      BY <1>0 DEF Jobs, JobStatuses
  <2>2. SetJob(r, running) /\ UNCHANGED <<article, before, attempts, author, crashes>>
      BY <1>2 DEF Mark
  <2>3. /\ pc' = [pc EXCEPT ![r] = "count"] /\ pc[r] = "mark"
        /\ UNCHANGED <<mode, job, batch, number, verdict>>
      BY <1>2 DEF Mark, Goto, locals
  <2>4. Moves(r) /\ pc'[r] = "count"  BY <2>3 DEF JobsTyped, Moves, PCs
  <2>5. jobs'[job[r]].status = "RUNNING"  BY <1>0, <2>1, <2>2 DEF SetJob, Put, JobsTyped
  <2>6. Local(r)  OBVIOUS
  <2>7. Local(r)' /\ ~ Numbered(r)' /\ NoNewIncrement(r)
      BY <2>3, <2>4, <2>5, <2>6 DEF Local, Numbered, Decided, NoNewIncrement
  <2> HIDE DEF running
  <2> QED BY <1>0, <2>1, <2>2, <2>4, <2>7, JobRowWritten
<1>3. ASSUME Count(r) PROVE Inv'
  <2> DEFINE counted == [jobs[job[r]] EXCEPT !.count = @ + 1]
  <2>1. /\ counted \in Jobs /\ counted.count = jobs[job[r]].count + 1
        /\ counted.status = jobs[job[r]].status
      BY <1>0 DEF Jobs
  <2>2. SetJob(r, counted) /\ UNCHANGED <<article, before, attempts, author, crashes>>
      BY <1>3 DEF Count
  <2>3. /\ pc' = [pc EXCEPT ![r] = "append"] /\ pc[r] = "count"
        /\ number' = [number EXCEPT ![r] = jobs[job[r]].count + 1]
        /\ UNCHANGED <<mode, job, batch, verdict>>
      BY <1>3 DEF Count, Goto, Put
  <2>4. /\ Moves(r) /\ pc'[r] = "append" /\ number'[r] = jobs[job[r]].count + 1
        /\ job'[r] = job[r]
      BY <1>0, <2>3 DEF JobsTyped, Moves, PCs
  <2>5. /\ jobs'[job[r]] = counted
        /\ \A c \in Contents \ {job[r]} : jobs'[c] = jobs[c]
      BY <1>0, <2>2 DEF SetJob, Put, JobsTyped
  <2>6. counted.count >= jobs[job[r]].count /\ counted.count > jobs[job[r]].count  BY <1>0, <2>1
  <2>7. Local(r) /\ counted.status # "none"  BY <2>1, <2>3 DEF Local
  <2>8. number'[r] >= 1 /\ number'[r] <= counted.count /\ number'[r] > jobs[job[r]].count
      BY <1>0, <2>1, <2>4
  <2>9. Capped'
    <3> SUFFICES ASSUME NEW c \in Contents PROVE jobs'[c].count + Cardinality(Coming(c)') <= Cap
        BY DEF Capped, Cap
    <3>1. jobs[c].count \in Nat /\ jobs[c].count + Cardinality(Coming(c)) <= Cap
        BY DEF JobsTyped, Jobs, Capped
    <3>2. Coming(c)' \subseteq Coming(c) \ {r}  BY <2>3, <2>4 DEF Coming, Moves
    <3>3. CASE c = job[r]
      <4>1. r \in Coming(c)  BY <2>3, <3>3 DEF Coming
      <4>2. jobs'[c].count = jobs[c].count + 1  BY <2>1, <2>5, <3>3
      <4> QED BY <3>1, <3>2, <4>1, <4>2, ComingFacts, CapFacts
    <3>4. CASE c # job[r]
      <4>1. jobs'[c] = jobs[c] /\ Coming(c)' \subseteq Coming(c)  BY <2>5, <3>2, <3>4
      <4> QED BY <3>1, <4>1, ComingFacts, CapFacts
    <3> QED BY <3>3, <3>4
  <2>10. number'[r] \in Numbers /\ number'[r] > jobs[job[r]].count
    <3>1. r \in Coming(job[r]) /\ Coming(job[r])' \subseteq Coming(job[r]) \ {r}
        BY <2>3, <2>4 DEF Coming, Moves
    <3>2. jobs[job[r]].count + Cardinality(Coming(job[r])) <= Cap  BY <1>0 DEF Capped
    <3> QED BY <1>0, <2>4, <2>8, <3>1, <3>2, ComingFacts, CapFacts
  <2>11. attempts[job[r]][number'[r]] = "none"  BY <1>0, <2>10 DEF Tables
  <2>12. Local(r)'
    <3>1. jobs'[job'[r]] = counted /\ attempts'[job'[r]][number'[r]] = "none"
        BY <1>3, <2>4, <2>5, <2>11 DEF Count
    <3> HIDE DEF counted
    <3> QED BY <2>3, <2>4, <2>7, <2>8, <3>1 DEF Local, Numbered, Decided
  <2> HIDE DEF counted
  <2> QED BY <2>1, <2>2, <2>4, <2>6, <2>7, <2>8, <2>9, <2>12, JobRowWritten
<1> QED BY <1>1, <1>2, <1>3

(* A number that r owns: no other attempt is written by it. *)
LEMMA AttemptWritten ==
    ASSUME Inv, NEW r \in Runners, Numbered(r), NEW status, SetAttempt(r, status)
    PROVE  /\ number[r] \in Numbers /\ job[r] \in Contents
           /\ status \in {"RUNNING", "SUCCEEDED", "FAILED"} => attempts' \in [Contents -> Attempts]
           /\ attempts'[job[r]][number[r]] = status
           /\ \A c \in Contents, n \in Numbers :
                c # job[r] \/ n # number[r] => attempts'[c][n] = attempts[c][n]
           /\ \A c \in Contents, n \in Numbers :
                attempts[c][n] = "SUCCEEDED" => attempts'[c][n] = "SUCCEEDED"
           /\ \A s \in Runners \ {r} : Numbered(s) =>
                attempts'[job[s]][number[s]] = attempts[job[s]][number[s]]
<1> USE DEF Inv
<1>1. job[r] \in Contents /\ attempts \in [Contents -> Attempts]  BY DEF JobsTyped
<1>2. \A s \in Runners : Numbered(s) => number[s] \in Numbers /\ job[s] \in Contents
  <2> SUFFICES ASSUME NEW s \in Runners, Numbered(s) PROVE number[s] \in Numbers /\ job[s] \in Contents
      OBVIOUS
  <2>1. job[s] \in Contents /\ number[s] \in Nat /\ jobs[job[s]].count \in Nat  BY DEF JobsTyped, Jobs
  <2>2. jobs[job[s]].count + Cardinality(Coming(job[s])) <= Cap  BY <2>1 DEF Capped
  <2>3. number[s] >= 1 /\ number[s] <= jobs[job[s]].count  BY DEF Local
  <2> QED BY <2>1, <2>2, <2>3, ComingFacts, CapFacts
<1>3. attempts' = [attempts EXCEPT ![job[r]] = [attempts[job[r]] EXCEPT ![number[r]] = status]]
    BY DEF SetAttempt, Put
<1>4. attempts[job[r]] \in Attempts /\ number[r] \in Numbers  BY <1>1, <1>2
<1>5. attempts'[job[r]][number[r]] = status  BY <1>1, <1>3, <1>4 DEF Attempts
<1>6. \A c \in Contents, n \in Numbers :
        c # job[r] \/ n # number[r] => attempts'[c][n] = attempts[c][n]
    BY <1>1, <1>3, <1>4 DEF Attempts
<1>7. attempts[job[r]][number[r]] # "SUCCEEDED"  BY DEF Local
<1>8. \A s \in Runners \ {r} : Numbered(s) => attempts'[job[s]][number[s]] = attempts[job[s]][number[s]]
    BY <1>2, <1>6 DEF OwnNumbers
<1>9. status \in {"RUNNING", "SUCCEEDED", "FAILED"} => attempts' \in [Contents -> Attempts]
    BY <1>1, <1>3, <1>4 DEF Attempts
<1> QED BY <1>1, <1>4, <1>5, <1>6, <1>7, <1>8, <1>9

LEMMA AppendKeepsInv == ASSUME Inv, NEW r \in Runners, AppendAttempt(r) PROVE Inv'
<1> USE DEF Inv
<1>1. /\ pc' = [pc EXCEPT ![r] = "settle"] /\ pc[r] = "append"
      /\ UNCHANGED <<article, jobs, before, author, crashes, mode, job, batch, number, verdict>>
    BY DEF AppendAttempt, Goto, locals
<1>2. Moves(r) /\ pc'[r] = "settle" /\ Numbered(r)  BY <1>1 DEF JobsTyped, Moves, PCs, Numbered
<1>3. SetAttempt(r, "RUNNING")  BY DEF AppendAttempt
<1>4. /\ number[r] \in Numbers /\ job[r] \in Contents /\ attempts' \in [Contents -> Attempts]
      /\ attempts'[job[r]][number[r]] = "RUNNING"
    BY <1>2, <1>3, AttemptWritten
<1>5. JobsTyped'  BY <1>1, <1>2, <1>4 DEF JobsTyped, Moves
<1>6. NoNewIncrement(r)  BY <1>2 DEF NoNewIncrement
<1>7. Capped'  BY <1>1, <1>2, <1>5, <1>6, CappedStays
<1>8. Local(r)'  BY <1>1, <1>2, <1>4 DEF Local, Numbered, Decided
<1>9. \A s \in Runners : Local(s)'
  <2>1. \A c \in Contents : jobs'[c].count >= jobs[c].count  BY <1>1 DEF JobsTyped, Jobs
  <2>2. \A s \in Runners \ {r} : Numbered(s) =>
            attempts'[job[s]][number[s]] = attempts[job[s]][number[s]]
      BY <1>2, <1>3, AttemptWritten
  <2>3. \A s \in Runners \ {r} : Local(s)'  BY <1>1, <1>2, <1>5, <2>1, <2>2, OthersKeep
  <2> QED BY <1>8, <2>3
<1>10. OwnNumbers'  BY <1>1, <1>2 DEF OwnNumbers, Numbered, Moves
<1>11. Tables'
  <2>1. \A c \in Contents, n \in Numbers :
            c # job[r] \/ n # number[r] => attempts'[c][n] = attempts[c][n]
      BY <1>2, <1>3, AttemptWritten
  <2>2. ~ number[r] > jobs[job[r]].count
    <3>1. number[r] \in Nat /\ jobs[job[r]].count \in Nat  BY <1>4 DEF JobsTyped, Jobs
    <3>2. number[r] <= jobs[job[r]].count  BY <1>2 DEF Local
    <3> QED BY <3>1, <3>2
  <2> QED BY <1>1, <2>1, <2>2 DEF Tables, Numbers
<1>12. PublicationIsBacked'
  <2>1. \A c \in Contents : Backed(c) => Backed(c)'  BY <1>2, <1>3, AttemptWritten, BackedStays
  <2> QED BY <1>1, <2>1 DEF PublicationIsBacked
<1> QED BY <1>5, <1>7, <1>9, <1>10, <1>11, <1>12

LEMMA SettleKeepsInv ==
    ASSUME Inv, NEW r \in Runners, CommitSuccess(r) \/ CommitFailure(r)
    PROVE  Inv'
<1> USE DEF Inv
<1>1. PICK status \in {"SUCCEEDED", "FAILED"} :
        /\ Settle(r, status)
        /\ article' \in Articles
        /\ article'.status = "published" => article.status = "published" \/ status = "SUCCEEDED"
  <2>1. CASE CommitSuccess(r)
    <3>1. article' \in Articles  BY <2>1 DEF CommitSuccess, JobsTyped, Articles, ArticleStatuses
    <3> QED BY <2>1, <3>1 DEF CommitSuccess
  <2>2. CASE CommitFailure(r)  BY <2>2 DEF CommitFailure, JobsTyped
  <2> QED BY <2>1, <2>2
<1>2. pc[r] = "settle" /\ Leave(r, "settle")
    BY <1>1 DEF Settle, Leave, Take, Return, Goto
<1>3. Moves(r) /\ Resting(r)'  BY <1>2, EndsRest
<1>4. Local(r)' /\ ~ Numbered(r)' /\ NoNewIncrement(r)  BY <1>3, RestingLocal
<1>5. Numbered(r) /\ Decided(r)  BY <1>2 DEF Numbered, Decided
<1>6. SetAttempt(r, status) /\ verdict[r] = status /\ UNCHANGED <<author, crashes>>  BY <1>1 DEF Settle
<1>7. /\ number[r] \in Numbers /\ job[r] \in Contents /\ attempts' \in [Contents -> Attempts]
      /\ attempts'[job[r]][number[r]] = status
    BY <1>1, <1>5, <1>6, AttemptWritten
<1>8. /\ jobs' \in [Contents -> Jobs]
      /\ jobs'[job[r]].status = status /\ jobs'[job[r]].count = jobs[job[r]].count
      /\ \A c \in Contents \ {job[r]} : jobs'[c] = jobs[c]
  <2>1. jobs' = [jobs EXCEPT ![job[r]] = [jobs[job[r]] EXCEPT !.status = status]]
      BY <1>1 DEF Settle, SetJob, Put
  <2>2. jobs \in [Contents -> Jobs] /\ jobs[job[r]] \in Jobs  BY <1>7 DEF JobsTyped
  <2>3. [jobs[job[r]] EXCEPT !.status = status] \in Jobs  BY <1>1, <2>2 DEF Jobs, JobStatuses
  <2>4. jobs'[job[r]] = [jobs[job[r]] EXCEPT !.status = status]  BY <1>7, <2>1, <2>2
  <2>5. jobs'[job[r]].status = status /\ jobs'[job[r]].count = jobs[job[r]].count
      BY <2>2, <2>4 DEF Jobs
  <2> QED BY <1>7, <2>1, <2>2, <2>3, <2>5
<1>9. before' \in [Contents -> SUBSET Contents]
    BY <1>1, <1>7 DEF Settle, JobsTyped
<1>10. JobsTyped'  BY <1>1, <1>3, <1>6, <1>7, <1>8, <1>9 DEF JobsTyped, Moves
<1>11. \A c \in Contents : jobs'[c].count = jobs[c].count  BY <1>8
<1>12. Capped'  BY <1>3, <1>4, <1>10, <1>11, CappedStays
<1>13. \A s \in Runners : Local(s)'
  <2>1. \A c \in Contents : jobs'[c].count >= jobs[c].count  BY <1>11 DEF JobsTyped, Jobs
  <2>2. \A c \in Contents : jobs'[c].status = "none" => jobs[c].status = "none"  BY <1>1, <1>8
  <2>3. \A s \in Runners \ {r} : Numbered(s) =>
            attempts'[job[s]][number[s]] = attempts[job[s]][number[s]]
      BY <1>5, <1>6, AttemptWritten
  <2>4. \A s \in Runners \ {r} : Local(s)'  BY <1>3, <1>10, <2>1, <2>2, <2>3, OthersKeep
  <2> QED BY <1>4, <2>4
<1>14. OwnNumbers'  BY <1>3, <1>4 DEF OwnNumbers, Numbered, Moves
<1>15. Tables'
  <2>1. \A c \in Contents, n \in Numbers :
            c # job[r] \/ n # number[r] => attempts'[c][n] = attempts[c][n]
      BY <1>5, <1>6, AttemptWritten
  <2>2. ~ number[r] > jobs[job[r]].count
    <3>1. number[r] \in Nat /\ jobs[job[r]].count \in Nat  BY <1>7 DEF JobsTyped, Jobs
    <3>2. number[r] <= jobs[job[r]].count  BY <1>5 DEF Local
    <3> QED BY <3>1, <3>2
  <2>3. \A c \in Contents : jobs'[c].status = "none" => jobs'[c].count = 0
      BY <1>1, <1>8 DEF Tables
  <2> QED BY <1>11, <2>1, <2>2, <2>3 DEF Tables, Numbers
<1>16. PublicationIsBacked'
  <2>1. \A c \in Contents : Backed(c) => Backed(c)'  BY <1>5, <1>6, AttemptWritten, BackedStays
  <2>2. \A c \in Contents : c = job[r] /\ status = "SUCCEEDED" => Backed(c)'
      BY <1>5, <1>6, <1>7 DEF Local, Backed, Numbers
  <2>3. article'.status = "published" => \E c \in Contents : Backed(c)'
      BY <1>1, <1>7, <2>1, <2>2 DEF PublicationIsBacked
  <2>4. \A c \in Contents : jobs'[c].status = "SUCCEEDED" => Backed(c)'
      BY <1>8, <2>1, <2>2 DEF PublicationIsBacked
  <2> QED BY <2>3, <2>4 DEF PublicationIsBacked
<1> QED BY <1>10, <1>12, <1>13, <1>14, <1>15, <1>16

(* The author writes the article only, and never marks it published. *)
LEMMA AuthorKeepsInv ==
    ASSUME Inv, Author \/ Around \/ UNCHANGED vars
    PROVE  Inv'
<1> USE DEF Inv
<1>1. UNCHANGED <<jobs, before, attempts, crashes, pc, mode, job, batch, number, verdict>>
    BY DEF Author, EditRead, EditWrite, Schedule, Remove, Around, FallDue, OtherMoves, rows, locals, vars
<1>2. article' \in Articles /\ (article'.status = "published" => article.status = "published")
    BY DEF Author, EditRead, EditWrite, Schedule, Remove, Around, FallDue, OtherMoves, rows, vars, JobsTyped, Articles, ArticleStatuses
<1>3. author' \in {"idle", "edit"}
    BY DEF Author, EditRead, EditWrite, Schedule, Remove, Around, FallDue, OtherMoves, vars, JobsTyped
<1>4. JobsTyped'  BY <1>1, <1>2, <1>3 DEF JobsTyped
<1>5. \A c \in Contents : Coming(c)' = Coming(c)  BY <1>1 DEF Coming
<1>6. Capped'  BY <1>1, <1>5 DEF Capped, Cap
<1>7. (\A r \in Runners : Local(r)') /\ OwnNumbers' /\ Tables'
    BY <1>1 DEF Local, Numbered, Decided, OwnNumbers, Tables, Numbers
<1>8. PublicationIsBacked'  BY <1>1, <1>2 DEF PublicationIsBacked, Backed, Numbers
<1> QED BY <1>4, <1>6, <1>7, <1>8

-----------------------------------------------------------------------------
LEMMA InvStep == Inv /\ [Next]_vars => Inv'
<1> SUFFICES ASSUME Inv, [Next]_vars PROVE Inv'  OBVIOUS
<1>1. ASSUME NEW r \in Runners, Start(r) PROVE Inv'  BY <1>1, EntriesKeepInv DEF Start
<1>2. ASSUME NEW r \in Runners, Go(r) PROVE Inv'
    BY <1>2, EntriesKeepInv, LoadKeepsInv, CheckKeepsInv, JobStepsKeepInv, AppendKeepsInv, SettleKeepsInv
       DEF Go, CreateJob, RunAttempt
<1>3. ASSUME NEW r \in Runners, Crash(r) PROVE Inv'  BY <1>3, EntriesKeepInv
<1>4. ASSUME Author \/ Around \/ UNCHANGED vars PROVE Inv'  BY <1>4, AuthorKeepsInv
<1> QED BY <1>1, <1>2, <1>3, <1>4 DEF Next

LEMMA InvHolds == Spec => []Inv
BY InvInit, InvStep, PTL DEF Spec

(* The order in which jobs were requested, and what is due, keep their types.  *)
LEMMA QueueInit == Init => QueueTyped
<1> SUFFICES ASSUME Init PROVE QueueTyped  OBVIOUS
<1>1. older \in [Contents -> SUBSET Contents] /\ due \in SUBSET Contents  BY DEF Init
<1>2. others \in [waiting : Nat, failed : Nat]  BY PublishingConstants DEF Init
<1> QED BY <1>1, <1>2 DEF QueueTyped

LEMMA QueueStep == ASSUME Inv, QueueTyped, [Next]_vars PROVE QueueTyped'
<1>1. CASE UNCHANGED line  BY <1>1 DEF line, QueueTyped
<1>2. ASSUME NEW r \in Runners, InsertJob(r) PROVE QueueTyped'
  <2>1. job[r] \in Contents /\ others' = others  BY <1>2 DEF Inv, JobsTyped, InsertJob
  <2>2. \/ UNCHANGED <<older, due>>
        \/ /\ older' = Put(older, job[r], {b \in Contents : jobs[b].status # "none"})
           /\ due' \in {due, due \cup {job[r]}}
      BY <1>2 DEF InsertJob
  <2>3. older' \in [Contents -> SUBSET Contents]  BY <2>1, <2>2 DEF QueueTyped, Put
  <2>4. due' \in SUBSET Contents  BY <2>1, <2>2 DEF QueueTyped
  <2> QED BY <2>1, <2>3, <2>4 DEF QueueTyped
<1>3. CASE FallDue  BY <1>3 DEF FallDue, QueueTyped
<1>4. CASE OtherMoves
  <2>1. others.waiting \in Nat /\ others.failed \in Nat  BY DEF QueueTyped
  <2>2. others' \in [waiting : Nat, failed : Nat]  BY <1>4, <2>1 DEF OtherMoves, QueueTyped
  <2> QED BY <1>4, <2>2 DEF OtherMoves, QueueTyped
<1>5. ASSUME NEW r \in Runners, Start(r) \/ Go(r) \/ Crash(r), ~ InsertJob(r) PROVE UNCHANGED line
    BY <1>5 DEF Start, PressPublish, QueueJob, Scan, Go, CreateJob, Create, FindJob, RunAttempt, Load, Check, Mark,
       Count, AppendAttempt, CommitSuccess, CommitFailure, Settle, Crash, rows, line
<1>6. CASE Author \/ UNCHANGED vars
    BY <1>1, <1>6 DEF Author, EditRead, EditWrite, Schedule, Remove, rows, line, vars
<1> QED BY <1>1, <1>2, <1>3, <1>4, <1>5, <1>6 DEF Next, Around

(* Article, jobs and attempts keep their types, and every attempt number is   *)
(* one the cap and the overlapping runners allow.                             *)
THEOREM TypeCorrect == Spec => []TypeOK
<1>1. Init => QueueTyped  BY QueueInit
<1>2. Inv /\ QueueTyped /\ [Next]_vars => QueueTyped'  BY QueueStep
<1>3. Inv /\ QueueTyped => TypeOK  BY DEF Inv, TypeOK
<1> QED BY <1>1, <1>2, <1>3, InvHolds, PTL DEF Spec

(* publishing.service.ts:86 and :252: the cap on attempts is exceeded by at   *)
(* most one attempt for each runner but one, in any order of any number of    *)
(* invocations, and wherever they die.                                        *)
THEOREM CapHolds == Spec => []AttemptsBounded
<1>1. Inv => AttemptsBounded
  <2> SUFFICES ASSUME Inv, NEW c \in Contents PROVE jobs[c].count <= Cap
      BY DEF AttemptsBounded, Cap
  <2>1. jobs[c].count \in Nat /\ jobs[c].count + Cardinality(Coming(c)) <= Cap
      BY DEF Inv, JobsTyped, Jobs, Capped
  <2> QED BY <2>1, ComingFacts, CapFacts
<1> QED BY <1>1, InvHolds, PTL

(* publishing.service.ts:174: a published article and a SUCCEEDED job rest on *)
(* an attempt that succeeded with content the blog accepts.                   *)
THEOREM PublicationRestsOnAttempt == Spec => []PublicationIsBacked
<1>1. Inv => PublicationIsBacked  BY DEF Inv
<1> QED BY <1>1, InvHolds, PTL

(* blog-reader.service.ts:7 and :66-84: whatever the blog serves passed such  *)
(* an attempt.                                                                *)
THEOREM ReadersSeeBackedContent == Spec => []ServedIsBacked
<1>1. Inv => ServedIsBacked
    BY DEF Inv, PublicationIsBacked, ServedIsBacked, Served, Succeeded
<1> QED BY <1>1, InvHolds, PTL

-----------------------------------------------------------------------------
(***************************************************************************)
(* One invocation at a time: nobody else writes the job between the read   *)
(* that found it runnable and the commit, so what a runner has read of its *)
(* job is still so, and the attempt it works on is the last one counted.   *)
(***************************************************************************)
OneRunner == \E r \in Runners : Runners = {r}
Runnable(c) == jobs[c].status \in {"PENDING", "FAILED"} /\ jobs[c].count < MaxAttempts
Open(r) ==
    /\ pc[r] \in {"check", "mark"} => Runnable(job[r])
    /\ pc[r] = "count" => jobs[job[r]].status = "RUNNING" /\ jobs[job[r]].count < MaxAttempts
    /\ pc[r] \in {"append", "settle"} =>
         jobs[job[r]].status = "RUNNING" /\ number[r] = jobs[job[r]].count
AloneInv == Inv /\ \A r \in Runners : Open(r)

Busy == {"count", "append", "settle"}
Serial == [Contract!Next]_(Contract!contractVars)

(* Writing the status of one's own job leaves that status, and the others.    *)
LEMMA StatusWritten ==
    ASSUME Inv, NEW r \in Runners, NEW status \in JobStatuses,
           SetJob(r, [jobs[job[r]] EXCEPT !.status = status])
    PROVE  /\ jobs'[job[r]].status = status /\ jobs'[job[r]].count = jobs[job[r]].count
           /\ \A c \in Contents \ {job[r]} : jobs'[c] = jobs[c]
<1>1. jobs \in [Contents -> Jobs] /\ job[r] \in Contents  BY DEF Inv, JobsTyped
<1> QED BY <1>1 DEF SetJob, Put, Jobs

(* The stage of a job where there is one runner, now and after a step.        *)
LEMMA StageOfOne ==
    ASSUME NEW r, Runners = {r}, NEW c \in Contents
    PROVE  /\ jobs[c].status # "RUNNING" => Stage(c) = jobs[c].status
           /\ jobs[c].status = "RUNNING" /\ (job[r] # c \/ pc[r] \notin Busy) => Stage(c) = "lost"
           /\ jobs[c].status = "RUNNING" /\ job[r] = c =>
                /\ pc[r] = "count" => Stage(c) = "begun"
                /\ pc[r] = "append" => Stage(c) = "counted"
                /\ pc[r] = "settle" => Stage(c) = "open"
BY DEF Stage, AtWork, Busy

LEMMA StageOfOneNext ==
    ASSUME NEW r, Runners = {r}, NEW c \in Contents
    PROVE  /\ jobs'[c].status # "RUNNING" => Stage(c)' = jobs'[c].status
           /\ jobs'[c].status = "RUNNING" /\ (job'[r] # c \/ pc'[r] \notin Busy) => Stage(c)' = "lost"
           /\ jobs'[c].status = "RUNNING" /\ job'[r] = c =>
                /\ pc'[r] = "count" => Stage(c)' = "begun"
                /\ pc'[r] = "append" => Stage(c)' = "counted"
                /\ pc'[r] = "settle" => Stage(c)' = "open"
BY DEF Stage, AtWork, Busy

LEMMA StagesStay ==
    ASSUME \A c \in Contents : Stage(c)' = Stage(c) /\ jobs'[c].count = jobs[c].count,
           attempts' = attempts
    PROVE  Serial
BY DEF Serial, Contract!contractVars

LEMMA StageMoves ==
    ASSUME NEW c \in Contents, NEW from, NEW to, Stage(c) \in from, Stage(c)' = to,
           \A e \in Contents \ {c} : Stage(e)' = Stage(e)
    PROVE  Contract!Move(c, from, to)
<1>1. [e \in Contents |-> Stage(e)]' = [[e \in Contents |-> Stage(e)] EXCEPT ![c] = to]  OBVIOUS
<1> QED BY <1>1 DEF Contract!Move

(* A step outside the attempt changes no stage, leaving one loses the job.    *)
LEMMA QuietIsSerial ==
    ASSUME JobsTyped, NEW r \in Runners, Runners = {r}, UNCHANGED <<jobs, attempts>>,
           pc[r] \notin Busy, pc'[r] \notin Busy
    PROVE  Serial
<1>1. \A c \in Contents : Stage(c)' = Stage(c)  BY StageOfOne, StageOfOneNext
<1> QED BY <1>1, StagesStay

LEMMA LostIsSerial ==
    ASSUME JobsTyped, NEW r \in Runners, Runners = {r}, Open(r), UNCHANGED <<jobs, attempts>>,
           pc[r] \in Busy, pc'[r] \notin Busy
    PROVE  Serial
<1>1. PICK c \in Contents : c = job[r]  BY DEF JobsTyped
<1>2. Stage(c) \in {"begun", "counted", "open"} /\ Stage(c)' = "lost"
    BY <1>1, StageOfOne, StageOfOneNext DEF Open, Busy
<1>3. \A e \in Contents \ {c} : Stage(e)' = Stage(e)
    BY <1>1, StageOfOne, StageOfOneNext
<1>4. Contract!Lose(c)
  <2>1. Contract!Move(c, {"begun", "counted", "open"}, "lost")  BY <1>1, <1>2, <1>3, StageMoves
  <2> QED BY <2>1 DEF Contract!Lose
<1> QED BY <1>1, <1>4 DEF Serial, Contract!Next

(* The attempt itself, a move of the job at hand.                             *)
LEMMA WorkIsSerial ==
    ASSUME JobsTyped, NEW r \in Runners, Runners = {r}, NEW c \in Contents, c = job[r],
           NEW from, NEW to, Stage(c) \in from, Stage(c)' = to,
           \A e \in Contents \ {c} : jobs'[e] = jobs[e] /\ (pc'[r] \in Busy => e # job'[r])
    PROVE  Contract!Move(c, from, to)
<1>1. \A e \in Contents \ {c} : Stage(e)' = Stage(e)
  <2> SUFFICES ASSUME NEW e \in Contents \ {c} PROVE Stage(e)' = Stage(e)  OBVIOUS
  <2>1. jobs[e].status = "RUNNING" => Stage(e) = "lost"  BY StageOfOne
  <2>2. jobs'[e].status = "RUNNING" => Stage(e)' = "lost"  BY StageOfOneNext
  <2> QED BY <2>1, <2>2, StageOfOne, StageOfOneNext
<1> QED BY <1>1, StageMoves

LEMMA StartsAlone ==
    ASSUME AloneInv, NEW r \in Runners, Runners = {r},
           Start(r) \/ Create(r) \/ FindJob(r) \/ InsertJob(r) \/ Load(r) \/ Check(r)
    PROVE  Open(r)' /\ Serial
<1> USE DEF AloneInv
<1>0. JobsTyped /\ Open(r) /\ {job[r]} \in SUBSET Contents  BY DEF Inv, JobsTyped
<1>1. ASSUME Resting(r)', UNCHANGED <<jobs, attempts>>, pc[r] \notin Busy PROVE Open(r)' /\ Serial
  <2>1. Open(r)' /\ pc'[r] \notin Busy  BY <1>1 DEF Resting, Open, Busy
  <2> QED BY <1>0, <1>1, <2>1, QuietIsSerial
<1>2. CASE PressPublish(r) \/ QueueJob(r)
  <2>1. Resting(r)' /\ pc[r] \notin Busy
      BY <1>0, <1>2 DEF PressPublish, QueueJob, Goto, Resting, Busy, JobsTyped
  <2> QED BY <1>1, <1>2, <2>1 DEF PressPublish, QueueJob, rows
<1>3. CASE Create(r)
  <2>1. Resting(r)' /\ pc[r] \notin Busy
      BY <1>0, <1>3, EndsRest DEF Create, Goto, Resting, Return, Busy, JobsTyped
  <2> QED BY <1>1, <1>3, <2>1 DEF Create, rows
<1>4. CASE FindJob(r)
  <2>1. Resting(r)' /\ pc[r] \notin Busy
      BY <1>0, <1>4, EndsRest DEF FindJob, UseJob, Goto, Resting, Return, Take, Busy, JobsTyped
  <2> QED BY <1>1, <1>4, <2>1 DEF FindJob, rows
<1>5. CASE InsertJob(r)
  <2>1. Resting(r)' /\ pc[r] \notin Busy /\ attempts' = attempts
      BY <1>0, <1>5, EndsRest DEF InsertJob, UseJob, Goto, Return, Take, Busy, Resting
  <2>2. CASE jobs[job[r]].status # "none"
    <3>1. jobs' = jobs  BY <1>5, <2>2 DEF InsertJob
    <3> QED BY <1>1, <2>1, <3>1
  <2>3. CASE jobs[job[r]].status = "none"
    <3>1. PICK c \in Contents : c = job[r]  BY <1>0
    <3>2. /\ jobs'[c] = [status |-> "PENDING", count |-> 0] /\ jobs[c].count = 0
          /\ \A e \in Contents \ {c} : jobs'[e] = jobs[e]
        BY <1>0, <1>5, <2>3, <3>1 DEF InsertJob, SetJob, Put, JobsTyped, Inv, Tables
    <3>3. Stage(c) = "none" /\ Stage(c)' = "PENDING"
        BY <2>3, <3>1, <3>2, StageOfOne, StageOfOneNext
    <3>4. pc'[r] \notin Busy  BY <2>1 DEF Resting, Busy
    <3>5. Contract!Move(c, {"none"}, "PENDING")
        BY <1>0, <3>1, <3>2, <3>3, <3>4, WorkIsSerial
    <3>6. Contract!Create(c)
      <4>1. \A e \in Contents : jobs'[e].count = jobs[e].count  BY <3>2
      <4> QED BY <2>1, <3>5, <4>1 DEF Contract!Create
    <3> QED BY <2>1, <3>6 DEF Serial, Contract!Next, Resting, Open
  <2> QED BY <2>2, <2>3
<1>6. CASE Scan(r)
  <2>1. Resting(r)' /\ pc[r] \notin Busy
      BY <1>0, <1>6, EndsRest, FoundFacts DEF Scan, Take, Goto, Busy
  <2> QED BY <1>1, <1>6, <2>1 DEF Scan, rows
<1>7. CASE Load(r)
  <2>0. pc[r] = "load" /\ UNCHANGED <<jobs, attempts>>
      BY <1>7 DEF Load, Leave, Take, Return, Goto, rows
  <2>1. CASE Runnable(job[r])
    <3>1. pc'[r] = "check" /\ job' = job
        BY <1>0, <1>7, <2>1 DEF Load, Goto, locals, JobsTyped, Runnable
    <3>2. Open(r)'  BY <2>0, <2>1, <3>1 DEF Open, Runnable
    <3> QED BY <1>0, <2>0, <3>1, <3>2, QuietIsSerial DEF Busy
  <2>2. CASE ~ Runnable(job[r])
    <3>1. Resting(r)'  BY <1>0, <1>7, <2>2, EndsRest DEF Load, Runnable
    <3> QED BY <1>1, <2>0, <3>1 DEF Busy
  <2> QED BY <2>1, <2>2
<1>8. CASE Check(r)
  <2>0. pc[r] = "check" /\ UNCHANGED <<jobs, attempts>>
      BY <1>8 DEF Check, Leave, Take, Return, Goto, rows
  <2>1. CASE article.deleted
    <3>1. Resting(r)'  BY <1>0, <1>8, <2>1, EndsRest DEF Check
    <3> QED BY <1>1, <2>0, <3>1 DEF Busy
  <2>2. CASE ~ article.deleted
    <3>1. pc'[r] = "mark" /\ job' = job  BY <1>0, <1>8, <2>2 DEF Check, Goto, JobsTyped
    <3>2. Open(r)'  BY <1>0, <2>0, <3>1 DEF Open, Runnable
    <3> QED BY <1>0, <2>0, <3>1, <3>2, QuietIsSerial DEF Busy
  <2> QED BY <2>1, <2>2
<1> QED BY <1>2, <1>3, <1>4, <1>5, <1>6, <1>7, <1>8 DEF Start

LEMMA AttemptAlone ==
    ASSUME AloneInv, NEW r \in Runners, Runners = {r},
           Mark(r) \/ Count(r) \/ AppendAttempt(r) \/ CommitSuccess(r) \/ CommitFailure(r)
    PROVE  Open(r)' /\ Serial
<1> USE DEF AloneInv
<1>0. JobsTyped /\ Open(r)  BY DEF Inv
<1>p. PICK c \in Contents : c = job[r]  BY <1>0 DEF JobsTyped
<1>n. jobs[c].count \in Nat /\ jobs[c].status \in JobStatuses /\ number[r] \in Nat
    BY <1>0 DEF JobsTyped, Jobs
<1>1. CASE Mark(r)
  <2>1. pc[r] = "mark" /\ pc'[r] = "count" /\ job' = job /\ attempts' = attempts
      BY <1>0, <1>1 DEF Mark, Goto, locals, JobsTyped
  <2>2. /\ jobs'[c].status = "RUNNING" /\ jobs'[c].count = jobs[c].count
        /\ \A e \in Contents \ {c} : jobs'[e] = jobs[e]
      BY <1>1, <1>p, StatusWritten DEF Mark, JobStatuses
  <2>3. Runnable(c)  BY <1>0, <1>p, <2>1 DEF Open
  <2>4. Open(r)'  BY <1>p, <2>1, <2>2, <2>3 DEF Open, Runnable
  <2>5. Stage(c) \in {"PENDING", "FAILED"} /\ Stage(c)' = "begun"
      BY <1>p, <2>1, <2>2, <2>3, StageOfOne, StageOfOneNext DEF Runnable
  <2>6. Contract!Move(c, {"PENDING", "FAILED"}, "begun")
      BY <1>0, <1>p, <2>1, <2>2, <2>5, WorkIsSerial
  <2>7. Contract!Begin(c)
    <3>1. \A e \in Contents : jobs'[e].count = jobs[e].count  BY <2>2
    <3> QED BY <2>1, <2>3, <2>6, <3>1 DEF Contract!Begin, Runnable
  <2> QED BY <2>4, <2>7 DEF Serial, Contract!Next
<1>2. CASE Count(r)
  <2>1. /\ pc[r] = "count" /\ pc'[r] = "append" /\ job' = job /\ attempts' = attempts
        /\ number'[r] = jobs[c].count + 1
      BY <1>0, <1>p, <1>2 DEF Count, Goto, Put, JobsTyped
  <2>2. /\ jobs'[c].status = jobs[c].status /\ jobs'[c].count = jobs[c].count + 1
        /\ \A e \in Contents \ {c} : jobs'[e] = jobs[e]
      BY <1>0, <1>p, <1>2 DEF Count, SetJob, Put, JobsTyped, Jobs
  <2>3. jobs[c].status = "RUNNING"  BY <1>0, <1>p, <2>1 DEF Open
  <2>4. Open(r)'  BY <1>p, <2>1, <2>2, <2>3 DEF Open
  <2>5. Stage(c) \in {"begun"} /\ Stage(c)' = "counted"
      BY <1>p, <2>1, <2>2, <2>3, StageOfOne, StageOfOneNext
  <2>6. Contract!Move(c, {"begun"}, "counted")
      BY <1>0, <1>p, <2>1, <2>2, <2>5, WorkIsSerial
  <2>7. Contract!Number(c)
    <3>1. [e \in Contents |-> jobs[e].count]' = [[e \in Contents |-> jobs[e].count] EXCEPT ![c] = jobs[c].count + 1]
        BY <2>2
    <3> QED BY <2>1, <2>6, <3>1 DEF Contract!Number
  <2> QED BY <2>4, <2>7 DEF Serial, Contract!Next
<1>3. CASE AppendAttempt(r)
  <2>1. /\ pc[r] = "append" /\ pc'[r] = "settle" /\ UNCHANGED <<job, jobs, number>>
        /\ attempts' = Put(attempts, c, Put(attempts[c], number[r], "RUNNING"))
      BY <1>0, <1>p, <1>3 DEF AppendAttempt, SetAttempt, Goto, locals, JobsTyped
  <2>2. jobs[c].status = "RUNNING" /\ number[r] = jobs[c].count  BY <1>0, <1>p, <2>1 DEF Open
  <2>3. Open(r)'  BY <1>p, <2>1, <2>2 DEF Open
  <2>4. Stage(c) \in {"counted"} /\ Stage(c)' = "open"
      BY <1>p, <2>1, <2>2, StageOfOne, StageOfOneNext
  <2>5. Contract!Move(c, {"counted"}, "open")
      BY <1>0, <1>p, <2>1, <2>4, WorkIsSerial
  <2>6. Contract!Record(c, "RUNNING")  BY <2>1, <2>2 DEF Contract!Record, Put
  <2>7. Contract!Open(c)  BY <2>1, <2>5, <2>6 DEF Contract!Open
  <2> QED BY <2>3, <2>7 DEF Serial, Contract!Next
<1>4. CASE CommitSuccess(r) \/ CommitFailure(r)
  <2>1. PICK status \in {"SUCCEEDED", "FAILED"} : Settle(r, status)
      BY <1>4 DEF CommitSuccess, CommitFailure
  <2>2. pc[r] = "settle" /\ Resting(r)' /\ verdict[r] = status
    <3>1. Leave(r, "settle")  BY <2>1 DEF Settle
    <3> QED BY <1>0, <2>1, <3>1, EndsRest DEF Leave, Take, Return, Goto, Settle
  <2>3. /\ jobs'[c].status = status /\ jobs'[c].count = jobs[c].count
        /\ \A e \in Contents \ {c} : jobs'[e] = jobs[e]
      BY <1>p, <2>1, StatusWritten DEF Settle, JobStatuses
  <2>4. jobs[c].status = "RUNNING" /\ number[r] = jobs[c].count  BY <1>0, <1>p, <2>2 DEF Open
  <2>5. Open(r)' /\ pc'[r] \notin Busy  BY <2>2 DEF Resting, Open, Busy
  <2>6. Stage(c) \in {"open"} /\ Stage(c)' = status
      BY <1>p, <2>2, <2>3, <2>4, StageOfOne, StageOfOneNext
  <2>7. Contract!Move(c, {"open"}, status)
      BY <1>0, <1>p, <2>3, <2>5, <2>6, WorkIsSerial
  <2>8. Contract!Record(c, status)
    <3>1. attempts' = Put(attempts, c, Put(attempts[c], number[r], status))
        BY <1>p, <2>1 DEF Settle, SetAttempt
    <3> QED BY <2>4, <3>1 DEF Contract!Record, Put
  <2>9. status = "SUCCEEDED" => c \in Publishable
      BY <1>p, <2>2 DEF Inv, Local, Decided
  <2>10. Contract!End(c, status)
    <3>1. \A e \in Contents : jobs'[e].count = jobs[e].count  BY <2>3
    <3> QED BY <2>7, <2>8, <2>9, <3>1 DEF Contract!End
  <2> QED BY <2>1, <2>5, <2>10 DEF Serial, Contract!Next
<1> QED BY <1>1, <1>2, <1>3, <1>4

LEMMA CrashAlone ==
    ASSUME AloneInv, NEW r \in Runners, Runners = {r}, Crash(r)
    PROVE  Open(r)' /\ Serial
<1>0. JobsTyped /\ Open(r)  BY DEF AloneInv, Inv
<1>1. Resting(r)' /\ UNCHANGED <<jobs, attempts>>
    BY <1>0, EndsRest DEF Crash, rows
<1>2. Open(r)' /\ pc'[r] \notin Busy  BY <1>1 DEF Resting, Open, Busy
<1> QED BY <1>0, <1>1, <1>2, QuietIsSerial, LostIsSerial

LEMMA AloneStep == ASSUME OneRunner, AloneInv, [Next]_vars PROVE AloneInv' /\ Serial
<1>1. Inv'  BY InvStep DEF AloneInv
<1>2. \A r \in Runners : Runners = {r}  BY DEF OneRunner
<1>3. ASSUME NEW r \in Runners, Start(r) \/ Go(r) \/ Crash(r) PROVE AloneInv' /\ Serial
  <2>1. Runners = {r}  BY <1>2
  <2>2. Open(r)' /\ Serial
      BY <1>3, <2>1, StartsAlone, AttemptAlone, CrashAlone DEF Go, CreateJob, RunAttempt
  <2> QED BY <1>1, <2>1, <2>2 DEF AloneInv
<1>4. CASE Author \/ Around \/ UNCHANGED vars
  <2>1. UNCHANGED <<jobs, attempts, pc, job, number>>
      BY <1>4 DEF Author, EditRead, EditWrite, Schedule, Remove, Around, FallDue, OtherMoves, rows, locals, vars
  <2>2. \A c \in Contents : Stage(c)' = Stage(c)  BY <2>1 DEF Stage, AtWork
  <2>3. Serial  BY <2>1, <2>2, StagesStay
  <2> QED BY <1>1, <2>1, <2>3 DEF AloneInv, Open, Runnable
<1> QED BY <1>3, <1>4 DEF Next

(* job-contract.ts:55-74 and attempt-contract.ts:13, :70: invocations that do  *)
(* not overlap, whoever starts them and wherever they die, carry a job out by  *)
(* one attempt after another, numbered without a gap and never past the cap;   *)
(* a finished attempt is never written again and a job that succeeded is       *)
(* closed.                                                                     *)
THEOREM AloneImplementsJobContract == ASSUME OneRunner PROVE Spec => ImplementsJobContract
<1>1. Init => AloneInv  BY InvInit DEF Init, AloneInv, Open
<1>2. AloneInv /\ [Next]_vars => AloneInv'  BY AloneStep
<1>3. AloneInv /\ [Next]_vars => [Contract!Next]_(Contract!contractVars)  BY AloneStep DEF Serial
<1>4. Init => Contract!Init
  <2> SUFFICES ASSUME Init PROVE Contract!Init  OBVIOUS
  <2>1. \A c \in Contents : jobs[c] = [status |-> "none", count |-> 0]  BY DEF Init
  <2>2. \A c \in Contents : Stage(c) = "none" /\ jobs[c].count = 0  BY <2>1 DEF Stage
  <2> QED BY <2>2 DEF Init, Contract!Init
<1> QED BY <1>1, <1>2, <1>3, <1>4, PTL DEF Spec, ImplementsJobContract, Contract!Spec

(* job-contract.ts:55, "Terminal = no further transitions, ever": it holds of  *)
(* SUCCEEDED when invocations do not overlap, crashes and retries included    *)
(* (overlap breaks it: publishing.service.ts:249 patches by id).              *)
THEOREM SuccessIsFinalAlone == ASSUME OneRunner PROVE Spec => SucceededIsFinal
<1>1. Init => AloneInv  BY InvInit DEF Init, AloneInv, Open
<1>2. AloneInv /\ [Next]_vars => AloneInv'  BY AloneStep
<1>3. AloneInv /\ [Next]_vars
        => [\A c \in Contents : jobs[c].status = "SUCCEEDED" => jobs'[c].status = "SUCCEEDED"]_jobs
  <2> SUFFICES ASSUME AloneInv, [Next]_vars, NEW c \in Contents, jobs[c].status = "SUCCEEDED"
               PROVE  jobs'[c].status = "SUCCEEDED"
      OBVIOUS
  <2>1. Stage(c) = "SUCCEEDED"  BY DEF Stage
  <2>2. Stage(c)' = Stage(c)
    <3>1. [e \in Contents |-> Stage(e)]' = [e \in Contents |-> Stage(e)]
          \/ \E e \in Contents, from \in {{"none"}, {"PENDING", "FAILED"}, {"begun"}, {"counted"}, {"open"},
                                         {"begun", "counted", "open"}} : \E to : Contract!Move(e, from, to)
        BY AloneStep DEF Serial, Contract!Next, Contract!contractVars, Contract!Create, Contract!Begin,
           Contract!Number, Contract!Open, Contract!End, Contract!Lose
    <3>2. [e \in Contents |-> Stage(e)]'[c] = [e \in Contents |-> Stage(e)][c]
        BY <2>1, <3>1 DEF Contract!Move
    <3> QED BY <3>2
  <2> QED BY <2>1, <2>2 DEF Stage
<1> QED BY <1>1, <1>2, <1>3, PTL DEF Spec, SucceededIsFinal
=============================================================================
