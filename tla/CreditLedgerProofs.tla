------------------------- MODULE CreditLedgerProofs -------------------------
(* Theorems about CreditLedger, for every value of its constants. *)
EXTENDS CreditLedger, SetSums, SequenceTheorems, TLAPS

LEMMA ConstantFacts ==
    /\ Periods # {} /\ Periods \subseteq Nat
    /\ NoSeen \in Seen
    /\ (CHOOSE r \in Requests : TRUE) \in Requests
    /\ \A t \in Terms : t.period \in Periods /\ t.allowance \in Nat
    /\ Amounts \subseteq Nat
    /\ Store \in {"memory", "prisma"}
<1>1. PICK t \in Terms : TRUE  BY LedgerConstants
<1>2. t.period \in Periods  BY <1>1 DEF Periods
<1>3. Periods # {} /\ Periods \subseteq Nat  BY <1>2, LedgerConstants DEF Periods
<1>4. PICK k \in ChargeKeys : TRUE  BY LedgerConstants
<1>5. PICK n \in Amounts : TRUE  BY LedgerConstants
<1>6. [key |-> k, amount |-> n] \in Requests  BY <1>4, <1>5 DEF Requests, Keys
<1>7. NoSeen \in Seen
  <2>1. (CHOOSE p \in Periods : TRUE) \in Periods  BY <1>3
  <2> QED BY <2>1 DEF NoSeen, Seen, Levels, Outcomes
<1> QED BY <1>3, <1>6, <1>7, LedgerConstants DEF Periods

-----------------------------------------------------------------------------
(* Type correctness.  The three ways a step of a call can end are typed once. *)

LEMMA AnswerType ==
    ASSUME TypeOK, NEW c \in Callers, NEW from, NEW res \in Results, Answer(c, from, res)
    PROVE  /\ pc' \in [Callers -> PCs] /\ seen' \in [Callers -> Seen]
           /\ tries' \in [Callers -> Nat] /\ result' \in [Callers -> Results]
BY ConstantFacts DEF TypeOK, Answer, Goto, PCs

LEMMA SettleType ==
    ASSUME TypeOK, NEW c \in Callers, NEW from, NEW res \in Results,
           SettleOK(c, from, res) \/ SettleError(c, from, res),
           Store = "memory" => queue # <<>>
    PROVE  /\ pc' \in [Callers -> PCs] /\ seen' \in [Callers -> Seen]
           /\ tries' \in [Callers -> Nat] /\ result' \in [Callers -> Results]
           /\ queue' \in Seq(Callers)
<1>1. \E r \in Results : Answer(c, from, r)
    BY DEF SettleOK, SettleError, Results
<1>2. queue' \in Seq(Callers)
  <2>1. queue \in Seq(Callers)  BY DEF TypeOK
  <2>2. CASE Store = "memory"
    <3>1. queue' = Tail(queue)  BY <2>2 DEF SettleOK, SettleError
    <3> QED BY <2>1, <2>2, <3>1, HeadTailProperties
  <2>3. CASE Store # "memory"  BY <2>1, <2>3 DEF SettleOK, SettleError
  <2> QED BY <2>2, <2>3
<1> QED BY <1>1, <1>2, AnswerType

LEMMA FieldTypes ==
    ASSUME TypeOK, NEW c \in Callers
    PROVE  /\ req[c].key \in Keys /\ req[c].amount \in Amounts /\ req[c].amount \in Nat
           /\ seen[c].allowance \in Int /\ seen[c].period \in Periods /\ seen[c].period \in Nat
           /\ seen[c].level \in Levels /\ seen[c].outcome \in Outcomes
<1>1. req[c] \in Requests /\ seen[c] \in Seen  BY DEF TypeOK
<1> QED BY <1>1, ConstantFacts DEF Requests, Seen

LEMMA WriteRowType ==
    ASSUME TypeOK, NEW k \in Keys, NEW n \in Int, NEW p \in Periods, WriteRow(k, n, p)
    PROVE  /\ rows' \subseteq [key : Keys, amount : Int, period : Periods]
           /\ used' \in [Periods -> Int]
BY ConstantFacts DEF TypeOK, WriteRow, Add

(* The promise chain of the in-memory store: whoever runs inside               *)
(* withUserLock() is at its head.                                              *)
AtHead ==
    Store = "memory" =>
        \A c \in Callers : pc[c] \in Inside => queue # <<>> /\ Head(queue) = c

(* What a call holds in its request and its locals, by the step it is at. *)
Held ==
    /\ \A c \in Callers : pc[c] \in {"sum", "insert", "rinsert"} =>
         [allowance |-> seen[c].allowance, period |-> seen[c].period] \in Terms
    /\ \A c \in Callers : pc[c] \in Inside \cup {"find", "lock", "queued", "recheck"} =>
         req[c].key \in ChargeKeys
    /\ \A c \in Callers : pc[c] \in {"rfind", "rresolve", "rinsert"} =>
         req[c].key \in RefundKeys /\ req[c].amount > 0

Structure == TypeOK /\ AtHead /\ Held

LEMMA StructureInit == Init => Structure
<1> SUFFICES ASSUME Init PROVE Structure  OBVIOUS
<1>1. TypeOK  BY ConstantFacts DEF Init, TypeOK, PCs, Results, Levels, Outcomes
<1>2. AtHead /\ Held  BY DEF Init, AtHead, Held, Inside
<1> QED BY <1>1, <1>2 DEF Structure

LEMMA StructureStep == Structure /\ [Next]_vars => Structure'
<1> SUFFICES ASSUME Structure, [Next]_vars PROVE Structure'  OBVIOUS
<1> USE ConstantFacts DEF Structure
<1>1. ASSUME NEW c \in Callers, StartCharge(c) PROVE Structure'
  <2> PICK k \in ChargeKeys, n \in Amounts : Begin(c, "find", k, n)
      BY <1>1 DEF StartCharge
  <2>1. TypeOK'  BY DEF TypeOK, Begin, Goto, ledgerVars, mailVars, PCs, Results, Requests, Keys
  <2>2. AtHead' /\ Held'  BY DEF TypeOK, AtHead, Held, Inside, Begin, Goto, Requests
  <2> QED BY <2>1, <2>2
<1>2. ASSUME NEW c \in Callers, StartRefund(c) PROVE Structure'
  <2> PICK k \in RefundKeys, n \in Amounts \ {0} : Begin(c, "rfind", k, n)
      BY <1>2 DEF StartRefund
  <2>1. TypeOK'  BY DEF TypeOK, Begin, Goto, ledgerVars, mailVars, PCs, Results, Requests, Keys
  <2>2. AtHead' /\ Held'  BY DEF TypeOK, AtHead, Held, Inside, Begin, Goto, Requests
  <2> QED BY <2>1, <2>2
<1>3. ASSUME NEW c \in Callers, FindCharge(c) \/ FindRefund(c) PROVE Structure'
  <2>1. TypeOK'
    <3> PICK from, to \in PCs : Find(c, from, to)  BY <1>3 DEF FindCharge, FindRefund, PCs
    <3>1. CASE Answer(c, from, "applied")
        BY <3>1, AnswerType DEF TypeOK, Find, ledgerVars, mailVars, Results
    <3>2. CASE GoOn(c, from, to)
        BY <3>2 DEF TypeOK, Find, GoOn, Goto, ledgerVars, mailVars
    <3> QED BY <3>1, <3>2 DEF Find
  <2>2. AtHead' /\ Held'  BY <1>3 DEF TypeOK, AtHead, Held, Inside, FindCharge, FindRefund, Find, GoOn, Answer, Goto
  <2> QED BY <2>1, <2>2
<1>4. ASSUME NEW c \in Callers, Enqueue(c) PROVE Structure'
  <2>1. TypeOK'  BY <1>4 DEF TypeOK, Enqueue, GoOn, Goto, ledgerVars, mailVars, PCs
  <2>2. AtHead' /\ Held'  BY <1>4 DEF TypeOK, AtHead, Held, Inside, Enqueue, GoOn, Goto
  <2> QED BY <2>1, <2>2
<1>5. ASSUME NEW c \in Callers, Enter(c) \/ TryLock(c) PROVE Structure'
  <2>1. TypeOK'  BY <1>5 DEF TypeOK, Enter, TryLock, GoOn, Goto, ledgerVars, mailVars, PCs
  <2>2. AtHead' /\ Held'  BY <1>5 DEF TypeOK, AtHead, Held, Inside, Enter, TryLock, GoOn, Goto
  <2> QED BY <2>1, <2>2
<1>6. ASSUME NEW c \in Callers, LockBusy(c) PROVE Structure'
  <2>1. TypeOK'  BY <1>6 DEF TypeOK, LockBusy, Goto, ledgerVars, mailVars, PCs
  <2>2. AtHead' /\ Held'  BY <1>6 DEF TypeOK, AtHead, Held, Inside, LockBusy, Goto
  <2> QED BY <2>1, <2>2
<1>7. ASSUME NEW c \in Callers, NoConnection(c) \/ Recheck(c) \/ Crash(c) PROVE Structure'
  <2>1. PICK res \in Results : Answer(c, pc[c], res)
      BY <1>7 DEF NoConnection, Recheck, Crash, Results, Answer, Goto
  <2>2. UNCHANGED <<ledgerVars, terms, mailLog, mailed, queue, calls, req>> /\ lapses' \in Nat
      BY <1>7 DEF NoConnection, Recheck, Crash, Lapse, mailVars, TypeOK
  <2>3. TypeOK'  BY <2>1, <2>2, AnswerType DEF TypeOK, ledgerVars
  <2>4. AtHead' /\ Held'  BY <2>1, <2>2 DEF TypeOK, AtHead, Held, Inside, Answer, Goto
  <2> QED BY <2>3, <2>4
<1>8. ASSUME NEW c \in Callers, ResolveCharge(c) \/ ResolveRefund(c) PROVE Structure'
  <2> DEFINE now == [NoSeen EXCEPT !.allowance = terms.allowance, !.period = terms.period]
  <2>1. /\ pc' = [pc EXCEPT ![c] = IF pc[c] = "resolve" THEN "sum" ELSE "rinsert"]
        /\ pc[c] \in {"resolve", "rresolve"}
        /\ seen' = [seen EXCEPT ![c] = now]
        /\ UNCHANGED <<ledgerVars, terms, mailVars, queue, calls, req, tries, result>>
      BY <1>8 DEF ResolveCharge, ResolveRefund, Resolve, Goto
  <2>2. now \in Seen
    <3>1. terms.period \in Periods /\ terms.allowance \in Int  BY DEF TypeOK
    <3>2. NoSeen \in Seen  OBVIOUS
    <3> QED BY <3>1, <3>2 DEF Seen
  <2>3. [allowance |-> now.allowance, period |-> now.period] \in Terms
    <3>1. terms \in Terms /\ terms \in [allowance : Nat, period : Nat]
        BY LedgerConstants DEF TypeOK
    <3>2. now.allowance = terms.allowance /\ now.period = terms.period  BY DEF Seen
    <3> QED BY <3>1, <3>2
  <2> HIDE DEF now
  <2>4. TypeOK'  BY <2>1, <2>2 DEF TypeOK, ledgerVars, mailVars, PCs
  <2>5. AtHead'  BY <2>1 DEF TypeOK, AtHead, Inside
  <2>6. Held'  BY <2>1, <2>3 DEF TypeOK, Held, Inside
  <2> QED BY <2>4, <2>5, <2>6
<1>9. ASSUME NEW c \in Callers, Sum(c) PROVE Structure'
  <2>1. pc[c] = "sum" /\ (Store = "memory" => queue # <<>> /\ Head(queue) = c)
      BY <1>9 DEF Sum, SettleError, Answer, GoOn, Goto, AtHead, Inside
  <2>2. CASE SettleError(c, "sum", "insufficient")
    <3>1. TypeOK'  BY <1>9, <2>1, <2>2, SettleType DEF TypeOK, Sum, Results, ledgerVars, mailVars
    <3>2. AtHead' /\ Held'  BY <1>9, <2>1, <2>2 DEF TypeOK, AtHead, Held, Inside, Sum, SettleError, Answer, Goto
    <3> QED BY <3>1, <3>2
  <2>3. CASE GoOn(c, "sum", "insert") /\ UNCHANGED queue
    <3>1. TypeOK'  BY <1>9, <2>3 DEF TypeOK, Sum, GoOn, Goto, ledgerVars, mailVars, PCs
    <3>2. AtHead' /\ Held'  BY <1>9, <2>3 DEF TypeOK, AtHead, Held, Inside, Sum, GoOn, Goto
    <3> QED BY <3>1, <3>2
  <2> QED BY <1>9, <2>2, <2>3 DEF Sum
<1>10. ASSUME NEW c \in Callers, Insert(c) PROVE Structure'
  <2>1. pc[c] = "insert" /\ (Store = "memory" => queue # <<>> /\ Head(queue) = c)
      BY <1>10 DEF Insert, SettleOK, Answer, GoOn, Goto, AtHead, Inside
  <2>2. CASE SettleOK(c, "insert", "applied") /\ UNCHANGED ledgerVars
    <3>1. TypeOK'  BY <1>10, <2>1, <2>2, SettleType DEF TypeOK, Insert, Results, ledgerVars, mailVars
    <3>2. AtHead' /\ Held'  BY <1>10, <2>1, <2>2 DEF TypeOK, AtHead, Held, Inside, Insert, SettleOK, Answer, Goto
    <3> QED BY <3>1, <3>2
  <2>3. CASE /\ GoOn(c, "insert", "notify")
             /\ WriteRow(req[c].key, req[c].amount, seen[c].period)
             /\ UNCHANGED queue
    <3>1. req[c].key \in Keys /\ req[c].amount \in Int /\ seen[c].period \in Periods
        BY FieldTypes
    <3>2. TypeOK'  BY <1>10, <2>3, <3>1, WriteRowType DEF TypeOK, Insert, GoOn, Goto, mailVars, PCs
    <3>3. AtHead' /\ Held'  BY <1>10, <2>3 DEF TypeOK, AtHead, Held, Inside, Insert, GoOn, Goto
    <3> QED BY <3>2, <3>3
  <2> QED BY <1>10, <2>2, <2>3 DEF Insert
<1>11. ASSUME NEW c \in Callers, Notify(c) PROVE Structure'
  <2>1. /\ pc[c] = "notify" /\ (Store = "memory" => queue # <<>> /\ Head(queue) = c)
        /\ UNCHANGED <<ledgerVars, terms, mailLog, mailed, calls, req>>
      BY <1>11 DEF Notify, SettleOK, Answer, Goto, AtHead, Inside
  <2>2. CASE SettleOK(c, "notify", "charged") /\ UNCHANGED lapses
    <3>1. TypeOK'  BY <2>1, <2>2, SettleType DEF TypeOK, Results, ledgerVars
    <3>2. AtHead' /\ Held'  BY <2>1, <2>2 DEF TypeOK, AtHead, Held, Inside, SettleOK, Answer, Goto
    <3> QED BY <3>1, <3>2
  <2>3. CASE ~ (SettleOK(c, "notify", "charged") /\ UNCHANGED lapses)
    <3> DEFINE level == LevelFor(terms.allowance - used[terms.period], terms.allowance)
               new == [NoSeen EXCEPT !.period = terms.period, !.level = level]
    <3>1. /\ Goto(c, "notify", "send") /\ LookUp(<<level, terms.period>>) /\ level # "none"
          /\ seen' = [seen EXCEPT ![c] = new]
          /\ UNCHANGED <<queue, tries, result>>
        BY <1>11, <2>3 DEF Notify
    <3>2. level \in Levels  BY <3>1 DEF LevelFor, Levels
    <3> HIDE DEF level
    <3>3. seen' \in [Callers -> Seen]  BY <3>1, <3>2 DEF TypeOK, Seen
    <3>4. lapses' \in Nat  BY <3>1 DEF LookUp, Lapse, TypeOK
    <3> HIDE DEF new
    <3>5. TypeOK'  BY <2>1, <3>1, <3>3, <3>4 DEF TypeOK, Goto, ledgerVars, PCs
    <3>6. AtHead' /\ Held'  BY <2>1, <3>1 DEF TypeOK, AtHead, Held, Inside, Goto
    <3> QED BY <3>5, <3>6
  <2> QED BY <2>2, <2>3
<1>12. ASSUME NEW c \in Callers, SendNotice(c) PROVE Structure'
  <2>1. PICK outcome \in Outcomes, arrived \in 0 .. 1 :
            /\ seen' = [seen EXCEPT ![c].outcome = outcome]
            /\ mailed' = [mailed EXCEPT ![NoticeOf(c)] = @ + arrived]
      BY <1>12 DEF SendNotice
  <2>2. /\ Goto(c, "send", "log")
        /\ UNCHANGED <<ledgerVars, terms, mailLog, lapses, queue, calls, req, tries, result>>
      BY <1>12 DEF SendNotice
  <2>3. NoticeOf(c) \in Levels \X Periods  BY FieldTypes DEF NoticeOf
  <2>4. mailed' \in [Levels \X Periods -> Nat] /\ seen' \in [Callers -> Seen]
    <3>1. mailed \in [Levels \X Periods -> Nat] /\ seen \in [Callers -> Seen]  BY DEF TypeOK
    <3>2. mailed' \in [Levels \X Periods -> Nat]  BY <2>1, <2>3, <3>1
    <3>3. [seen[c] EXCEPT !.outcome = outcome] \in Seen  BY <3>1 DEF Seen
    <3>4. seen' \in [Callers -> Seen]  BY <2>1, <3>1, <3>3
    <3> QED BY <3>2, <3>4
  <2>5. TypeOK'  BY <2>2, <2>4 DEF TypeOK, Goto, PCs, ledgerVars
  <2>6. AtHead' /\ Held'  BY <2>1, <2>2 DEF TypeOK, AtHead, Held, Inside, Goto
  <2> QED BY <2>5, <2>6
<1>16. ASSUME NEW c \in Callers, LogNotice(c) PROVE Structure'
  <2>1. pc[c] = "log" /\ (Store = "memory" => queue # <<>> /\ Head(queue) = c)
      BY <1>16 DEF LogNotice, SettleOK, Answer, Goto, AtHead, Inside
  <2>2. SettleOK(c, "log", "charged") /\ UNCHANGED <<ledgerVars, terms, mailed, calls, req>>
      BY <1>16 DEF LogNotice
  <2>3. mailLog' \in [Levels \X Periods -> Outcomes \cup {"none"}] /\ lapses' \in Nat
    <3>1. seen[c].outcome \in Outcomes  BY FieldTypes
    <3>2. mailLog' \in {mailLog, [mailLog EXCEPT ![NoticeOf(c)] = seen[c].outcome]}
        BY <1>16 DEF LogNotice
    <3>3. lapses' \in Nat  BY <1>16 DEF LogNotice, Lapse, TypeOK
    <3>4. mailLog \in [Levels \X Periods -> Outcomes \cup {"none"}]  BY DEF TypeOK
    <3>5. mailLog' \in [Levels \X Periods -> Outcomes \cup {"none"}]  BY <3>1, <3>2, <3>4
    <3> QED BY <3>3, <3>5
  <2>4. TypeOK'  BY <2>1, <2>2, <2>3, SettleType DEF TypeOK, Results, ledgerVars
  <2>5. AtHead' /\ Held'  BY <2>1, <2>2 DEF TypeOK, AtHead, Held, Inside, SettleOK, Answer, Goto
  <2> QED BY <2>4, <2>5
<1>13. ASSUME NEW c \in Callers, InsertRefund(c) PROVE Structure'
  <2>1. PICK res \in Results : Answer(c, "rinsert", res)
      BY <1>13 DEF InsertRefund, Results
  <2>2. UNCHANGED <<terms, mailVars, queue, calls, req>>  BY <1>13 DEF InsertRefund
  <2>3. rows' \subseteq [key : Keys, amount : Int, period : Periods] /\ used' \in [Periods -> Int]
    <3>1. req[c].key \in Keys /\ 0 - req[c].amount \in Int /\ seen[c].period \in Periods
        BY FieldTypes
    <3>2. CASE UNCHANGED ledgerVars  BY <3>2 DEF TypeOK, ledgerVars
    <3>3. CASE WriteRow(req[c].key, 0 - req[c].amount, seen[c].period)  BY <3>1, <3>3, WriteRowType
    <3> QED BY <1>13, <3>2, <3>3 DEF InsertRefund
  <2>4. TypeOK'  BY <2>1, <2>2, <2>3, AnswerType DEF TypeOK, mailVars
  <2>5. AtHead' /\ Held'  BY <2>1, <2>2 DEF TypeOK, AtHead, Held, Inside, Answer, Goto
  <2> QED BY <2>4, <2>5
<1>14. ASSUME ChangeTerms PROVE Structure'
  <2>1. TypeOK'  BY <1>14 DEF TypeOK, ChangeTerms, ledgerVars, mailVars, callVars
  <2>2. AtHead' /\ Held'  BY <1>14 DEF AtHead, Held, ChangeTerms, callVars
  <2> QED BY <2>1, <2>2
<1>15. ASSUME UNCHANGED vars PROVE Structure'
  BY <1>15 DEF vars, TypeOK, AtHead, Held
<1> QED BY <1>1, <1>2, <1>3, <1>4, <1>5, <1>6, <1>7, <1>8, <1>9, <1>10, <1>11, <1>12, <1>13,
           <1>14, <1>15, <1>16 DEF Next, Step

LEMMA StructureInvariant == Spec => []Structure
BY StructureInit, StructureStep, PTL DEF Spec

(* Every variable of the ledger keeps its type: a row names a known key and a     *)
(* period the resolver answered, the queue holds callers, a call has one answer.  *)
THEOREM TypeCorrect == Spec => []TypeOK
<1>1. Structure => TypeOK  BY DEF Structure
<1> QED BY <1>1, StructureInvariant, PTL

-----------------------------------------------------------------------------
(* What a step does to the table and to the callers' claims on it. *)

Debits(c) ==
    /\ pc[c] = "insert" /\ ~ HasRow(req[c].key)
    /\ WriteRow(req[c].key, req[c].amount, seen[c].period)
    /\ pc' = [pc EXCEPT ![c] = "notify"]
    /\ UNCHANGED <<terms, req, seen, result>>

Credits(c) ==
    /\ pc[c] = "rinsert" /\ ~ HasRow(req[c].key)
    /\ WriteRow(req[c].key, 0 - req[c].amount, seen[c].period)
    /\ pc' = [pc EXCEPT ![c] = "idle"]
    /\ seen' = [seen EXCEPT ![c] = NoSeen]
    /\ result' = [result EXCEPT ![c] = "charged"]
    /\ UNCHANGED <<terms, req>>

Checks(c) ==
    /\ pc[c] = "sum"
    /\ req[c].amount > 0 => used[seen[c].period] + req[c].amount <= seen[c].allowance
    /\ pc' = [pc EXCEPT ![c] = "insert"]
    /\ UNCHANGED <<ledgerVars, terms, req, seen, result>>

(* The caller owns the effect of its key, or has been told so. *)
Owns(c) == pc[c] \in {"notify", "send", "log"} \/ result[c] = "charged"

Quiet ==
    /\ UNCHANGED ledgerVars
    /\ \A c \in Callers : pc'[c] = "insert" =>
         pc[c] = "insert" /\ req'[c] = req[c] /\ seen'[c] = seen[c]
    /\ \A c \in Callers : pc'[c] = "notify" => pc[c] = "notify"
    /\ \A c \in Callers : Owns(c)' => Owns(c) /\ req'[c] = req[c]
    /\ \A c \in Callers : result'[c] = "applied" =>
         (result[c] = "applied" \/ HasRow(req[c].key)) /\ req'[c] = req[c]

LEMMA QuietAnswer ==
    ASSUME TypeOK, NEW c \in Callers, NEW res \in Results, Answer(c, pc[c], res),
           UNCHANGED <<ledgerVars, req>>,
           res = "charged" => Owns(c),
           res = "applied" => HasRow(req[c].key)
    PROVE  Quiet
BY DEF TypeOK, Answer, Goto, Quiet, Owns

LEMMA QuietMove ==
    ASSUME TypeOK, NEW c \in Callers, NEW to \in PCs, Goto(c, pc[c], to),
           UNCHANGED <<ledgerVars, req, result>>,
           \A d \in Callers \ {c} : seen'[d] = seen[d],
           to \notin {"insert", "notify"}, to \in {"send", "log"} => Owns(c)
    PROVE  Quiet
BY DEF TypeOK, Goto, Quiet, Owns

LEMMA StepKinds ==
    ASSUME Structure, [Next]_vars
    PROVE  Quiet \/ \E c \in Callers : Debits(c) \/ Credits(c) \/ Checks(c)
<1> USE ConstantFacts DEF Structure
<1>1. ASSUME NEW c \in Callers, StartCharge(c) \/ StartRefund(c) PROVE Quiet
    BY <1>1 DEF TypeOK, StartCharge, StartRefund, Begin, Goto, Quiet, Owns
<1>2. ASSUME NEW c \in Callers, FindCharge(c) \/ FindRefund(c) PROVE Quiet
  <2>1. \/ HasRow(req[c].key) /\ Answer(c, pc[c], "applied")
        \/ \E to \in {"lock", "rresolve"} : GoOn(c, pc[c], to)
      BY <1>2 DEF FindCharge, FindRefund, Find, GoOn, Answer, Goto
  <2>2. UNCHANGED <<ledgerVars, req>>  BY <1>2 DEF FindCharge, FindRefund, Find
  <2> QED BY <2>1, <2>2, QuietAnswer, QuietMove DEF GoOn, PCs, Results
<1>3. ASSUME NEW c \in Callers, Enqueue(c) \/ Enter(c) \/ TryLock(c) \/ LockBusy(c) PROVE Quiet
  <2>1. /\ \E to \in {"queued", "resolve", "lock", "recheck"} : Goto(c, pc[c], to)
        /\ UNCHANGED <<ledgerVars, req, result, seen>>
      BY <1>3 DEF Enqueue, Enter, TryLock, LockBusy, GoOn, Goto
  <2> QED BY <2>1, QuietMove DEF PCs
<1>4. ASSUME NEW c \in Callers, NoConnection(c) \/ Recheck(c) \/ Crash(c) PROVE Quiet
  <2>1. \/ \E res \in {"failed", "busy", "none"} : Answer(c, pc[c], res)
        \/ HasRow(req[c].key) /\ Answer(c, pc[c], "applied")
      BY <1>4 DEF NoConnection, Recheck, Crash, Answer, Goto
  <2>2. UNCHANGED <<ledgerVars, req>>  BY <1>4 DEF NoConnection, Recheck, Crash
  <2> QED BY <2>1, <2>2, QuietAnswer DEF Results
<1>5. ASSUME NEW c \in Callers, ResolveCharge(c) \/ ResolveRefund(c) PROVE Quiet
  <2>1. /\ \E to \in {"sum", "rinsert"} : Goto(c, pc[c], to)
        /\ UNCHANGED <<ledgerVars, req, result>>
        /\ \A d \in Callers \ {c} : seen'[d] = seen[d]
      BY <1>5 DEF ResolveCharge, ResolveRefund, Resolve, Goto, TypeOK
  <2> QED BY <2>1, QuietMove DEF PCs
<1>6. ASSUME NEW c \in Callers, Sum(c) PROVE Quiet \/ Checks(c)
  <2>1. CASE SettleError(c, "sum", "insufficient")
    <3>1. Answer(c, pc[c], "insufficient") /\ UNCHANGED <<ledgerVars, req>>
        BY <1>6, <2>1 DEF Sum, SettleError, Answer, Goto
    <3> QED BY <3>1, QuietAnswer DEF Results
  <2>2. CASE GoOn(c, "sum", "insert") /\ ~ SettleError(c, "sum", "insufficient")
    <3>1. req[c].amount > 0 => ~ (seen[c].allowance - used[seen[c].period] < req[c].amount)
        BY <1>6, <2>2 DEF Sum
    <3>2. used[seen[c].period] \in Int  BY FieldTypes DEF TypeOK
    <3>3. req[c].amount > 0 => used[seen[c].period] + req[c].amount <= seen[c].allowance
        BY <3>1, <3>2, FieldTypes
    <3> QED BY <1>6, <2>2, <3>3 DEF Sum, GoOn, Goto, Checks
  <2> QED BY <1>6, <2>1, <2>2 DEF Sum
<1>7. ASSUME NEW c \in Callers, Insert(c) PROVE Quiet \/ Debits(c)
  <2>1. CASE HasRow(req[c].key)
    <3>1. /\ \/ Answer(c, pc[c], "applied") \/ Answer(c, pc[c], "failed")
          /\ UNCHANGED <<ledgerVars, req>>
        BY <1>7, <2>1 DEF Insert, SettleOK, Answer, Goto
    <3> QED BY <2>1, <3>1, QuietAnswer DEF Results
  <2>2. CASE ~ HasRow(req[c].key)
      BY <1>7, <2>2 DEF Insert, GoOn, Goto, Debits
  <2> QED BY <2>1, <2>2
<1>8. ASSUME NEW c \in Callers, Notify(c) \/ LogNotice(c) PROVE Quiet
  <2>1. Owns(c) /\ UNCHANGED <<ledgerVars, req>>
      BY <1>8 DEF Notify, LogNotice, SettleOK, Answer, Goto, Owns
  <2>2. CASE Answer(c, pc[c], "charged") \/ Answer(c, pc[c], "failed")
      BY <2>1, <2>2, QuietAnswer DEF Results
  <2>3. CASE Goto(c, pc[c], "send") /\ UNCHANGED result /\ \A d \in Callers \ {c} : seen'[d] = seen[d]
      BY <2>1, <2>3, QuietMove DEF PCs
  <2>4. \/ Answer(c, pc[c], "charged") \/ Answer(c, pc[c], "failed")
        \/ Goto(c, pc[c], "send") /\ UNCHANGED result /\ \A d \in Callers \ {c} : seen'[d] = seen[d]
      BY <1>8 DEF Notify, LogNotice, SettleOK, Answer, Goto, TypeOK
  <2> QED BY <2>2, <2>3, <2>4
<1>9. ASSUME NEW c \in Callers, SendNotice(c) PROVE Quiet
  <2>1. /\ Goto(c, pc[c], "log") /\ Owns(c) /\ UNCHANGED <<ledgerVars, req, result>>
        /\ \A d \in Callers \ {c} : seen'[d] = seen[d]
      BY <1>9 DEF SendNotice, Goto, Owns, TypeOK
  <2> QED BY <2>1, QuietMove DEF PCs
<1>10. ASSUME NEW c \in Callers, InsertRefund(c) PROVE Quiet \/ Credits(c)
  <2>1. CASE HasRow(req[c].key)
    <3>1. Answer(c, pc[c], "failed") /\ UNCHANGED <<ledgerVars, req>>
        BY <1>10, <2>1 DEF InsertRefund, Answer, Goto
    <3> QED BY <3>1, QuietAnswer DEF Results
  <2>2. CASE ~ HasRow(req[c].key)
      BY <1>10, <2>2 DEF InsertRefund, Answer, Goto, Credits
  <2> QED BY <2>1, <2>2
<1>11. ASSUME ChangeTerms \/ UNCHANGED vars PROVE Quiet
    BY <1>11 DEF ChangeTerms, vars, callVars, Quiet, Owns, ledgerVars, HasRow
<1> QED BY <1>1, <1>2, <1>3, <1>4, <1>5, <1>6, <1>7, <1>8, <1>9, <1>10, <1>11 DEF Next, Step

-----------------------------------------------------------------------------
(* Over the in-memory store a charge that passed its balance check still fits   *)
(* when it inserts: nobody else is between check and insert, and refunds, which *)
(* take no lock, only lower the sum.                                            *)
Covered ==
    Store = "memory" => \A c \in Callers :
        (pc[c] = "insert" /\ req[c].amount > 0)
            => used[seen[c].period] + req[c].amount <= seen[c].allowance

LEMMA AlonePastTheCheck ==
    ASSUME Structure, Store = "memory", NEW c \in Callers, NEW d \in Callers,
           pc[c] \in Inside, pc[d] \in Inside
    PROVE  c = d
BY DEF Structure, AtHead

LEMMA CoveredStep == Structure /\ Covered /\ [Next]_vars => Covered'
<1> SUFFICES ASSUME Structure, Covered, [Next]_vars, Store = "memory", NEW d \in Callers,
                    pc'[d] = "insert", req'[d].amount > 0
             PROVE  used'[seen'[d].period] + req'[d].amount <= seen'[d].allowance
    BY DEF Covered
<1> USE DEF Structure
<1>1. CASE Quiet
  <2>1. pc[d] = "insert" /\ req'[d] = req[d] /\ seen'[d] = seen[d] /\ used' = used
      BY <1>1 DEF Quiet, ledgerVars
  <2> QED BY <2>1 DEF Covered
<1>2. ASSUME NEW c \in Callers, Debits(c) PROVE FALSE
  <2>1. pc[c] = "insert" /\ pc[d] = "insert" /\ c # d  BY <1>2 DEF Debits, TypeOK
  <2> QED BY <2>1, AlonePastTheCheck DEF Inside
<1>3. ASSUME NEW c \in Callers, Credits(c)
      PROVE  used'[seen'[d].period] + req'[d].amount <= seen'[d].allowance
  <2>1. d # c /\ pc[d] = "insert" /\ req'[d] = req[d] /\ seen'[d] = seen[d]
      BY <1>3 DEF Credits, TypeOK
  <2>2. used[seen[d].period] + req[d].amount <= seen[d].allowance  BY <2>1 DEF Covered
  <2>3. used'[seen[d].period] <= used[seen[d].period] /\ used'[seen[d].period] \in Int
      BY <1>3, FieldTypes DEF Credits, WriteRow, Add, TypeOK
  <2> QED BY <2>1, <2>2, <2>3, FieldTypes DEF TypeOK
<1>4. ASSUME NEW c \in Callers, Checks(c)
      PROVE  used'[seen'[d].period] + req'[d].amount <= seen'[d].allowance
  <2>1. used' = used /\ req' = req /\ seen' = seen  BY <1>4 DEF Checks, ledgerVars
  <2>2. CASE d = c  BY <1>4, <2>1, <2>2 DEF Checks
  <2>3. CASE d # c  BY <1>4, <2>1, <2>3 DEF Checks, Covered, TypeOK
  <2> QED BY <2>2, <2>3
<1> QED BY <1>1, <1>2, <1>3, <1>4, StepKinds

(* credit-ledger.ts:145-151: with the in-memory store's lock, whatever callers,  *)
(* plans and refunds do, no charge is written past the allowance it was checked  *)
(* against.                                                                      *)
THEOREM MemoryNeverOverdraws == ASSUME Store = "memory" PROVE Spec => NeverOverdraws
<1>1. Init => Covered  BY DEF Init, Covered
<1>2. Spec => []Covered
    BY <1>1, CoveredStep, StructureInvariant, PTL DEF Spec
<1>3. ASSUME Structure, Covered, [Next]_vars PROVE \A c \in Callers : FitsAllowance(c)
  <2> SUFFICES ASSUME NEW c \in Callers, pc[c] = "insert", pc'[c] = "notify", req[c].amount > 0
               PROVE  used'[seen[c].period] <= seen[c].allowance
      BY DEF FitsAllowance
  <2>1. Debits(c)
    <3>1. ~ Quiet  BY DEF Quiet
    <3>2. PICK d \in Callers : Debits(d) \/ Credits(d) \/ Checks(d)  BY <1>3, <3>1, StepKinds
    <3>3. d = c  BY <1>3, <3>2 DEF Debits, Credits, Checks, Structure, TypeOK
    <3> QED BY <3>2, <3>3 DEF Credits, Checks
  <2>2. used[seen[c].period] + req[c].amount <= seen[c].allowance  BY <1>3 DEF Covered
  <2>3. used'[seen[c].period] = used[seen[c].period] + req[c].amount
      BY <1>3, <2>1, FieldTypes DEF Debits, WriteRow, Add, Structure, TypeOK
  <2> QED BY <2>2, <2>3
<1>4. Structure /\ Covered /\ [Next]_vars => [\A c \in Callers : FitsAllowance(c)]_vars
    BY <1>3
<1> QED BY <1>2, <1>4, StructureInvariant, PTL DEF Spec, NeverOverdraws

-----------------------------------------------------------------------------
(* The ledger over the in-memory store is the atomic account: an insert is the *)
(* debit or the credit, every other step changes no entry.                     *)
LEMMA DebitsPost ==
    ASSUME Structure, Covered, Store = "memory", NEW c \in Callers, Debits(c)
    PROVE  Account!Debit(req[c].key, req[c].amount)
<1> DEFINE t == [allowance |-> seen[c].allowance, period |-> seen[c].period]
<1>1. t \in Terms  BY DEF Debits, Structure, Held
<1>2. req[c].amount = 0 \/ used[t.period] + req[c].amount <= t.allowance
    BY FieldTypes DEF Debits, Covered, Structure
<1>3. Account!Post(req[c].key, req[c].amount, t.period)
    BY DEF Debits, HasRow, WriteRow, Add, Account!Post, Account!Periods, Periods
<1> QED BY <1>1, <1>2, <1>3 DEF Account!Debit

LEMMA CreditsPost ==
    ASSUME Structure, NEW c \in Callers, Credits(c)
    PROVE  Account!Credit(req[c].key, req[c].amount)
<1> DEFINE t == [allowance |-> seen[c].allowance, period |-> seen[c].period]
<1>1. t \in Terms /\ req[c].amount > 0  BY DEF Credits, Structure, Held
<1>2. Account!Post(req[c].key, 0 - req[c].amount, t.period)
    BY DEF Credits, HasRow, WriteRow, Add, Account!Post, Account!Periods, Periods
<1> QED BY <1>1, <1>2 DEF Account!Credit

(* credit-ledger.ts:9-14: over the in-memory store, concurrent charges and        *)
(* refunds are indistinguishable in the table from atomic debits and credits, a   *)
(* debit only if the allowance covers it, one for each key.                       *)
THEOREM MemoryImplementsAccount == ASSUME Store = "memory" PROVE Spec => ImplementsAccount
<1>1. Init => Account!Init  BY DEF Init, Account!Init, Account!Periods, Periods
<1>2. Init => Covered  BY DEF Init, Covered
<1>3. ASSUME Structure, Covered, [Next]_vars PROVE [Account!Next]_<<rows, used>>
  <2>1. CASE Quiet  BY <2>1 DEF Quiet, ledgerVars
  <2>2. ASSUME NEW c \in Callers, Checks(c) PROVE UNCHANGED <<rows, used>>
      BY <2>2 DEF Checks, ledgerVars
  <2>3. ASSUME NEW c \in Callers, Debits(c) PROVE Account!Next
    <3>1. req[c].key \in ChargeKeys /\ req[c].amount \in Amounts
        BY <1>3, <2>3, FieldTypes DEF Debits, Structure, Held, Inside
    <3> QED BY <1>3, <2>3, <3>1, DebitsPost DEF Account!Next
  <2>4. ASSUME NEW c \in Callers, Credits(c) PROVE Account!Next
    <3>1. req[c].key \in RefundKeys /\ req[c].amount \in Amounts
        BY <1>3, <2>4, FieldTypes DEF Credits, Structure, Held
    <3> QED BY <1>3, <2>4, <3>1, CreditsPost DEF Account!Next
  <2> QED BY <1>3, <2>1, <2>2, <2>3, <2>4, StepKinds
<1> QED BY <1>1, <1>2, <1>3, CoveredStep, StructureInvariant, PTL
    DEF Spec, Account!Spec, ImplementsAccount

-----------------------------------------------------------------------------
(* Over either store, answers agree with the table.  The invariant adds the    *)
(* calls that own a row and have not answered yet.                             *)
OwnersHaveRows ==
    \A c \in Callers : Owns(c) =>
        \E r \in rows : r.key = req[c].key /\ r.amount \in {req[c].amount, 0 - req[c].amount}
OneOwner == \A c, d \in Callers : (c # d /\ Owns(c) /\ Owns(d)) => req[c].key # req[d].key
AppliedHasRow == \A c \in Callers : result[c] = "applied" => HasRow(req[c].key)
Answers == OwnersHaveRows /\ OneOwner /\ AppliedHasRow

LEMMA AnswersStep == Structure /\ Answers /\ [Next]_vars => Answers'
<1> SUFFICES ASSUME Structure, Answers, [Next]_vars PROVE Answers'  OBVIOUS
<1> USE DEF Structure, Answers
<1>1. CASE Quiet
    BY <1>1 DEF Quiet, ledgerVars, OwnersHaveRows, OneOwner, AppliedHasRow, HasRow
<1>2. ASSUME NEW c \in Callers, Checks(c) PROVE Answers'
  <2>1. \A d \in Callers : Owns(d)' <=> Owns(d)  BY <1>2 DEF Checks, Owns, TypeOK
  <2> QED BY <1>2, <2>1 DEF Checks, ledgerVars, OwnersHaveRows, OneOwner, AppliedHasRow, HasRow
<1>3. ASSUME NEW c \in Callers, Debits(c) \/ Credits(c) PROVE Answers'
  <2>1. PICK n \in {req[c].amount, 0 - req[c].amount} :
          rows' = rows \cup {[key |-> req[c].key, amount |-> n, period |-> seen[c].period]}
      BY <1>3 DEF Debits, Credits, WriteRow
  <2>2. ~ HasRow(req[c].key) /\ req' = req  BY <1>3 DEF Debits, Credits
  <2>3. \A d \in Callers \ {c} : Owns(d)' <=> Owns(d)
      BY <1>3 DEF Debits, Credits, Owns, TypeOK
  <2>4. \A d \in Callers \ {c} : Owns(d) => req[d].key # req[c].key
      BY <2>2 DEF OwnersHaveRows, HasRow
  <2>5. \E r \in rows' : r.key = req[c].key /\ r.amount \in {req[c].amount, 0 - req[c].amount}
    <3> DEFINE row == [key |-> req[c].key, amount |-> n, period |-> seen[c].period]
    <3>1. row \in rows'  BY <2>1
    <3>2. row.key = req[c].key /\ row.amount = n  OBVIOUS
    <3> QED BY <3>1, <3>2
  <2>6. OwnersHaveRows'  BY <2>1, <2>2, <2>3, <2>5 DEF OwnersHaveRows
  <2>7. OneOwner'  BY <2>2, <2>3, <2>4 DEF OneOwner
  <2>8. AppliedHasRow'  BY <1>3, <2>1, <2>2 DEF Debits, Credits, AppliedHasRow, HasRow, TypeOK
  <2> QED BY <2>6, <2>7, <2>8
<1> QED BY <1>1, <1>2, <1>3, StepKinds

(* Over either store, with crashes, timeouts and lost lock attempts: a call that *)
(* claims the effect owns the one row of its key, with its own amount, and a call *)
(* told "already applied" finds a row.                                            *)
THEOREM AnswersAreTrue == Spec => []AnswersMatchRows
<1>1. Init => Answers
    BY DEF Init, Answers, OwnersHaveRows, OneOwner, AppliedHasRow, Owns
<1>2. Answers => AnswersMatchRows
    BY DEF Answers, OwnersHaveRows, OneOwner, AppliedHasRow, Owns, AnswersMatchRows
<1> QED BY <1>1, <1>2, AnswersStep, StructureInvariant, PTL DEF Spec

-----------------------------------------------------------------------------
(* Over either store the overdraft is bounded.  The callers past their check    *)
(* may all insert; the witness of Slack is one of them whose own check bounded  *)
(* what was there, every other adds at most a largest charge.                   *)
InFlight == {c \in Callers : pc[c] = "insert" /\ req[c].amount > 0}
Others(n) == (n - 1) * LargestAmount
Limit == terms.allowance + Others(Cardinality(Callers))
Slack ==
    /\ InFlight = {} => used[terms.period] <= Limit
    /\ InFlight # {} => \E f \in InFlight :
         used[terms.period] + req[f].amount + Others(Cardinality(InFlight)) <= Limit

LEMMA LargestIsLargest ==
    LargestAmount \in Nat /\ \A n \in Amounts : n <= LargestAmount
<1>1. \E m \in Amounts : \A n \in Amounts : n <= m  BY LedgerConstants
<1>2. LargestAmount \in Amounts /\ \A n \in Amounts : n <= LargestAmount
    BY <1>1 DEF LargestAmount
<1> QED BY <1>2, LedgerConstants

LEMMA OthersGrow ==
    /\ \A n \in Nat : Others(n) \in Int /\ Others(n + 1) = Others(n) + LargestAmount
    /\ \A m, n \in Nat : m <= n => Others(m) <= Others(n)
    /\ \A m, n \in Nat : m < n => Others(m) + LargestAmount <= Others(n)
    /\ Others(1) = 0
<1>1. \A n \in Nat : Others(n) \in Int /\ Others(n + 1) = Others(n) + LargestAmount
    BY LargestIsLargest DEF Others
<1>2. \A m, n \in Nat : Others(n) - Others(m) = (n - m) * LargestAmount
    BY LargestIsLargest DEF Others
<1>3. \A k \in Nat : k * LargestAmount >= 0 /\ (k > 0 => k * LargestAmount >= LargestAmount)
    BY LargestIsLargest
<1>4. \A m, n \in Nat : m <= n => Others(m) <= Others(n)
  <2> TAKE m, n \in Nat
  <2> HAVE m <= n
  <2>1. n - m \in Nat  OBVIOUS
  <2>2. Others(n) - Others(m) >= 0  BY <1>2, <1>3, <2>1
  <2> QED BY <1>1, <2>2
<1>5. \A m, n \in Nat : m < n => Others(m) + LargestAmount <= Others(n)
  <2> TAKE m, n \in Nat
  <2> HAVE m < n
  <2>1. n - m \in Nat /\ n - m > 0  OBVIOUS
  <2>2. Others(n) - Others(m) >= LargestAmount  BY <1>2, <1>3, <2>1
  <2> QED BY <1>1, <2>2, LargestIsLargest
<1> QED BY <1>1, <1>4, <1>5, LargestIsLargest DEF Others

LEMMA InFlightFinite ==
    /\ IsFiniteSet(InFlight) /\ IsFiniteSet(InFlight')
    /\ Cardinality(InFlight) \in Nat /\ Cardinality(InFlight) <= Cardinality(Callers)
    /\ Cardinality(InFlight') \in Nat /\ Cardinality(InFlight') <= Cardinality(Callers)
    /\ Cardinality(Callers) \in Nat /\ Cardinality(Callers) >= 1
<1>1. IsFiniteSet(Callers) /\ Callers # {}  BY LedgerConstants
<1>2. InFlight \subseteq Callers /\ InFlight' \subseteq Callers  BY DEF InFlight
<1>3. Cardinality(Callers) \in Nat /\ Cardinality(Callers) # 0
    BY <1>1, FS_CardinalityType, FS_EmptySet
<1> QED BY <1>1, <1>2, <1>3, FS_Subset, FS_CardinalityType

(* The callers in flight become fewer without an insert (a call died), or one    *)
(* of them inserts: either way the rest stay within the limit.                   *)
LEMMA SlackStep ==
    ASSUME Structure, Slack, [Next]_vars, \A t, u \in Terms : t = u
    PROVE  Slack'
<1> USE DEF Structure
<1> DEFINE p == terms.period
           M == LargestAmount
           k == Cardinality(InFlight)
           k1 == Cardinality(InFlight')
<1>1. terms \in Terms /\ terms' = terms /\ terms.allowance \in Int /\ p \in Periods
  <2>1. terms \in Terms  BY DEF TypeOK
  <2>2. terms' \in Terms  BY StructureStep DEF TypeOK
  <2> QED BY <2>1, <2>2, ConstantFacts
<1>2. Limit' = Limit /\ Limit \in Int
    BY <1>1, InFlightFinite, OthersGrow DEF Limit
<1>3. \A f \in Callers : req[f].amount \in Nat /\ req[f].amount <= M
    BY FieldTypes, LargestIsLargest
<1>4. used[p] \in Int  BY <1>1 DEF TypeOK
<1>5. used[p] <= Limit
  <2>1. CASE InFlight = {}  BY <2>1 DEF Slack
  <2>2. CASE InFlight # {}
    <3>1. PICK f \in InFlight : used[p] + req[f].amount + Others(k) <= Limit
        BY <2>2 DEF Slack
    <3>2. f \in Callers  BY DEF InFlight
    <3>3. k >= 1  BY <2>2, InFlightFinite, FS_EmptySet
    <3>4. 0 <= Others(k) /\ Others(k) \in Int  BY <3>3, InFlightFinite, OthersGrow
    <3> QED BY <3>1, <3>2, <3>4, <1>2, <1>3, <1>4
  <2> QED BY <2>1, <2>2
<1>6. ASSUME InFlight' \subseteq InFlight, used'[p] \in Int, used'[p] <= used[p],
             \A f \in InFlight' : req'[f] = req[f]
      PROVE  Slack'
  <2>1. used'[p] <= Limit'  BY <1>2, <1>4, <1>5, <1>6
  <2>2. ASSUME InFlight' # {}
        PROVE  \E g \in InFlight' : used'[p] + req'[g].amount + Others(k1) <= Limit'
    <3>1. PICK f \in InFlight : used[p] + req[f].amount + Others(k) <= Limit
        BY <1>6, <2>2 DEF Slack
    <3>2. k1 <= k /\ k1 \in Nat /\ k \in Nat  BY <1>6, InFlightFinite, FS_Subset
    <3>3. Others(k1) \in Int /\ Others(k) \in Int /\ Others(k1) <= Others(k)
        BY <3>2, OthersGrow
    <3>4. CASE f \in InFlight'
      <4>1. req'[f] = req[f] /\ f \in Callers  BY <1>6, <3>4 DEF InFlight
      <4>2. used'[p] + req'[f].amount + Others(k1) <= Limit'
          BY <1>2, <1>3, <1>4, <1>6, <3>1, <3>3, <4>1
      <4> QED BY <3>4, <4>2
    <3>5. CASE f \notin InFlight'
      <4>1. PICK g \in InFlight' : TRUE  BY <2>2
      <4>2. g \in Callers /\ f \in Callers /\ req'[g] = req[g]  BY <1>6, <4>1 DEF InFlight
      <4>3. InFlight' \subseteq InFlight \ {f}  BY <1>6, <3>5
      <4>4. Cardinality(InFlight \ {f}) = k - 1 /\ IsFiniteSet(InFlight \ {f})
          BY InFlightFinite, FS_RemoveElement
      <4>5. k1 < k  BY <4>3, <4>4, <3>2, FS_Subset
      <4>6. Others(k1) + M <= Others(k)  BY <3>2, <4>5, OthersGrow
      <4>7. used'[p] + req'[g].amount + Others(k1) <= Limit'
          BY <1>2, <1>3, <1>4, <1>6, <3>1, <3>3, <4>2, <4>6, LargestIsLargest
      <4> QED BY <4>1, <4>7
    <3> QED BY <3>4, <3>5
  <2> QED BY <1>1, <2>1, <2>2 DEF Slack
<1>7. CASE Quiet
    BY <1>4, <1>6, <1>7 DEF Quiet, InFlight, ledgerVars
<1>8. ASSUME NEW c \in Callers, Credits(c) PROVE Slack'
  <2>1. used'[p] \in Int /\ used'[p] <= used[p]
      BY <1>1, <1>3, <1>4, <1>8 DEF Credits, WriteRow, Add, TypeOK
  <2>2. InFlight' \subseteq InFlight /\ req' = req
      BY <1>8 DEF Credits, InFlight, TypeOK
  <2> QED BY <1>6, <2>1, <2>2
<1>9. ASSUME NEW c \in Callers, Checks(c) PROVE Slack'
  <2>1. used' = used /\ req' = req /\ pc[c] = "sum" /\ pc' = [pc EXCEPT ![c] = "insert"]
      BY <1>9 DEF Checks, ledgerVars
  <2>2. CASE req[c].amount = 0
    <3>1. InFlight' \subseteq InFlight  BY <2>1, <2>2 DEF InFlight, TypeOK
    <3> QED BY <1>4, <1>6, <2>1, <3>1
  <2>3. CASE req[c].amount > 0
    <3>1. [allowance |-> seen[c].allowance, period |-> seen[c].period] = terms
        BY <1>1, <2>1 DEF Held
    <3>2. seen[c].period = p /\ seen[c].allowance = terms.allowance  BY <3>1
    <3>3. used[p] + req[c].amount <= terms.allowance  BY <1>9, <2>3, <3>2 DEF Checks
    <3>4. c \in InFlight'  BY <2>1, <2>3 DEF InFlight, TypeOK
    <3>5. Others(k1) <= Others(Cardinality(Callers)) /\ Others(k1) \in Int
          /\ Others(Cardinality(Callers)) \in Int
        BY InFlightFinite, OthersGrow
    <3>6. used'[p] + req'[c].amount + Others(k1) <= Limit'
        BY <1>1, <1>2, <1>3, <1>4, <2>1, <3>3, <3>5 DEF Limit
    <3> QED BY <1>1, <3>4, <3>6 DEF Slack
  <2> QED BY <1>3, <2>2, <2>3
<1>10. ASSUME NEW c \in Callers, Debits(c) PROVE Slack'
  <2>1. /\ pc[c] = "insert" /\ pc' = [pc EXCEPT ![c] = "notify"] /\ req' = req
        /\ used' = Add(req[c].amount, seen[c].period)
      BY <1>10 DEF Debits, WriteRow
  <2>2. [allowance |-> seen[c].allowance, period |-> seen[c].period] = terms
      BY <1>1, <2>1 DEF Held
  <2>3. seen[c].period = p  BY <2>2
  <2>4. used'[p] = used[p] + req[c].amount /\ used'[p] \in Int
    <3>1. p \in Nat
      <4>1. Periods \subseteq Nat  BY ConstantFacts
      <4> HIDE DEF p
      <4> QED BY <1>1, <4>1
    <3>2. used' = [q \in Periods |-> IF q <= p THEN used[q] + req[c].amount ELSE used[q]]
        BY <2>1, <2>3 DEF Add
    <3>3. used'[p] = used[p] + req[c].amount
      <4> HIDE DEF p
      <4> QED BY <1>1, <3>1, <3>2
    <3>4. c \in Callers /\ req[c].amount \in Nat  BY <1>3
    <3> QED BY <1>4, <3>3, <3>4
  <2>5. InFlight' = InFlight \ {c}  BY <2>1 DEF InFlight, TypeOK
  <2>6. CASE req[c].amount = 0
      BY <1>4, <1>6, <2>1, <2>4, <2>5, <2>6
  <2>7. CASE req[c].amount > 0
    <3>1. c \in InFlight  BY <2>1, <2>7 DEF InFlight
    <3>2. k1 = k - 1 /\ k \in Nat /\ k1 \in Nat
        BY <2>5, <3>1, InFlightFinite, FS_RemoveElement
    <3>3. Others(k) = Others(k1) + M /\ Others(k1) \in Int /\ Others(k) \in Int
        BY <3>2, OthersGrow
    <3>4. PICK f \in InFlight : used[p] + req[f].amount + Others(k) <= Limit
        BY <3>1 DEF Slack
    <3>5. f \in Callers  BY DEF InFlight
    <3>6. CASE f # c
      <4>1. f \in InFlight'  BY <2>5, <3>6
      <4>2. used'[p] + req'[f].amount + Others(k1) <= Limit'
          BY <1>2, <1>3, <1>4, <2>1, <2>4, <3>3, <3>4, <3>5, LargestIsLargest
      <4> QED BY <1>1, <4>1, <4>2 DEF Slack
    <3>7. CASE f = c /\ InFlight' # {}
      <4>1. PICK g \in InFlight' : TRUE  BY <3>7
      <4>2. g \in Callers  BY <2>5 DEF InFlight
      <4>3. used'[p] + req'[g].amount + Others(k1) <= Limit'
          BY <1>2, <1>3, <1>4, <2>1, <2>4, <3>3, <3>4, <3>7, <4>2, LargestIsLargest
      <4> QED BY <1>1, <3>7, <4>1, <4>3 DEF Slack
    <3>8. CASE f = c /\ InFlight' = {}
      <4>1. k1 = 0  BY <3>8, FS_EmptySet
      <4>2. Others(k) = 0  BY <3>2, <4>1, OthersGrow
      <4>3. used'[p] <= Limit'  BY <1>2, <1>3, <1>4, <2>4, <3>4, <3>8, <4>2
      <4> QED BY <1>1, <3>8, <4>3 DEF Slack
    <3> QED BY <3>6, <3>7, <3>8
  <2> QED BY <1>3, <2>6, <2>7
<1> QED BY <1>7, <1>8, <1>9, <1>10, StepKinds

(* Over either store, while the plan and the period stand, the balance falls at  *)
(* most one largest charge for each other caller below zero, whatever is retried,*)
(* crashes or times out: what credit-ledger.ts:145-151 still gives when the lock *)
(* serializes nothing.                                                           *)
THEOREM OverdraftIsBounded ==
    ASSUME \A t, u \in Terms : t = u PROVE Spec => []OverdrawBounded
<1>1. ASSUME Init PROVE Slack
  <2>1. InFlight = {}  BY <1>1 DEF Init, InFlight
  <2>2. used[terms.period] = 0 /\ terms.allowance \in Nat
      BY <1>1, ConstantFacts DEF Init
  <2>3. 0 <= Others(Cardinality(Callers)) /\ Others(Cardinality(Callers)) \in Int
      BY InFlightFinite, OthersGrow
  <2> QED BY <2>1, <2>2, <2>3 DEF Slack, Limit
<1>2. ASSUME Structure, Slack PROVE OverdrawBounded
  <2>1. CASE InFlight = {}  BY <1>2, <2>1 DEF Slack, Limit, Others, OverdrawBounded
  <2>2. CASE InFlight # {}
    <3>1. PICK f \in InFlight :
            used[terms.period] + req[f].amount + Others(Cardinality(InFlight)) <= Limit
        BY <1>2, <2>2 DEF Slack
    <3>2. f \in Callers /\ req[f].amount \in Nat  BY <1>2, FieldTypes DEF InFlight, Structure
    <3>3. Cardinality(InFlight) >= 1  BY <2>2, InFlightFinite, FS_EmptySet
    <3>4. 0 <= Others(Cardinality(InFlight)) /\ Others(Cardinality(InFlight)) \in Int
        BY <3>3, InFlightFinite, OthersGrow
    <3>5. used[terms.period] \in Int /\ terms.allowance \in Int
      <4>1. terms \in Terms /\ used \in [Periods -> Int]  BY <1>2 DEF Structure, TypeOK
      <4>2. terms.period \in Periods /\ terms.allowance \in Nat  BY <4>1, ConstantFacts
      <4> QED BY <4>1, <4>2
    <3>6. Limit \in Int  BY <3>5, InFlightFinite, OthersGrow DEF Limit
    <3>7. used[terms.period] <= Limit  BY <3>1, <3>2, <3>4, <3>5, <3>6
    <3> QED BY <3>7 DEF Limit, Others, OverdrawBounded
  <2> QED BY <2>1, <2>2
<1>3. Structure /\ Slack /\ [Next]_vars => Slack'  BY SlackStep
<1> QED BY <1>1, <1>2, <1>3, StructureInvariant, PTL DEF Spec

-----------------------------------------------------------------------------
(***************************************************************************)
(* The threshold notices.  Until a notice has a row, each delivery is      *)
(* about to write one or has lapsed.  Once it has one, a caller still      *)
(* sends it only if it looked before, or its look lapsed: those still to   *)
(* send it and the deliveries so far make up no more than the callers and  *)
(* the lapses.                                                             *)
(***************************************************************************)
Notices == Levels \X Periods
At(place, n) == {c \in Callers : pc[c] = place /\ NoticeOf(c) = n}

MailsOf(n) ==
    /\ mailLog[n] = "none" => mailed[n] <= Cardinality(At("log", n)) + lapses
    /\ mailLog[n] \in {"SENT", "SKIPPED"} =>
         mailed[n] + Cardinality(At("send", n)) <= Cardinality(Callers) + lapses
Mails == \A n \in Notices : MailsOf(n)

LEMMA PlaceSizes ==
    ASSUME NEW place, NEW n
    PROVE  /\ IsFiniteSet(At(place, n)) /\ IsFiniteSet(At(place, n)')
           /\ Cardinality(At(place, n)) \in Nat /\ Cardinality(At(place, n)) <= Cardinality(Callers)
           /\ Cardinality(At(place, n)') \in Nat /\ Cardinality(At(place, n)') <= Cardinality(Callers)
           /\ Cardinality(Callers) \in Nat
<1>1. IsFiniteSet(Callers) /\ Cardinality(Callers) \in Nat  BY LedgerConstants, FS_CardinalityType
<1>2. At(place, n) \subseteq Callers /\ At(place, n)' \subseteq Callers  BY DEF At
<1> QED BY <1>1, <1>2, FS_Subset, FS_CardinalityType

(* One caller moves: who is at a place changes by that caller at most. *)
LEMMA OneMoves ==
    ASSUME NEW c \in Callers, NEW place, NEW n,
           \A d \in Callers \ {c} : pc'[d] = pc[d] /\ NoticeOf(d)' = NoticeOf(d)
    PROVE  /\ (pc[c] # place \/ NoticeOf(c) # n) /\ (pc'[c] # place \/ NoticeOf(c)' # n)
                => Cardinality(At(place, n)') = Cardinality(At(place, n))
           /\ (pc'[c] # place \/ NoticeOf(c)' # n)
                => Cardinality(At(place, n)') <= Cardinality(At(place, n))
           /\ pc[c] = place /\ NoticeOf(c) = n /\ (pc'[c] # place \/ NoticeOf(c)' # n)
                => Cardinality(At(place, n)') = Cardinality(At(place, n)) - 1
           /\ (pc[c] # place \/ NoticeOf(c) # n) /\ pc'[c] = place /\ NoticeOf(c)' = n
                => Cardinality(At(place, n)') = Cardinality(At(place, n)) + 1
<1> DEFINE S == At(place, n)  T == At(place, n)'
           was == pc[c] = place /\ NoticeOf(c) = n
           is == pc'[c] = place /\ NoticeOf(c)' = n
<1>1. IsFiniteSet(S) /\ IsFiniteSet(T)  BY PlaceSizes
<1>2. (c \in S <=> was) /\ (c \in T <=> is)  BY DEF At
<1>3. \A d \in Callers \ {c} : d \in T <=> d \in S  BY DEF At
<1>4. S \subseteq Callers /\ T \subseteq Callers  BY DEF At
<1>5. CASE ~ was /\ ~ is
  <2>1. T = S  BY <1>2, <1>3, <1>4, <1>5
  <2> QED BY <2>1, <1>1, <1>5, FS_CardinalityType
<1>6. CASE was /\ ~ is
  <2>1. T = S \ {c} /\ c \in S  BY <1>2, <1>3, <1>4, <1>6
  <2>2. Cardinality(T) = Cardinality(S) - 1 /\ Cardinality(S) \in Nat  BY <2>1, <1>1, FS_RemoveElement, FS_CardinalityType
  <2> QED BY <2>2, <1>6
<1>7. CASE ~ was /\ is
  <2>1. T = S \cup {c} /\ c \notin S  BY <1>2, <1>3, <1>4, <1>7
  <2>2. Cardinality(T) = Cardinality(S) + 1  BY <2>1, <1>1, FS_AddElement
  <2> QED BY <2>2, <1>7
<1>8. CASE was /\ is
  <2> QED BY <1>8
<1> QED BY <1>5, <1>6, <1>7, <1>8

(* A step that begins no delivery and ends none. *)
Silent(c) ==
    /\ UNCHANGED mailVars
    /\ pc[c] # "log" /\ pc'[c] \notin {"send", "log"}
    /\ \A d \in Callers \ {c} : pc'[d] = pc[d] /\ seen'[d] = seen[d]

LEMMA SilentKeeps ==
    ASSUME TypeOK, Mails, NEW c \in Callers, Silent(c)
    PROVE  Mails'
<1> SUFFICES ASSUME NEW n \in Notices PROVE MailsOf(n)'  BY DEF Mails
<1>1. \A d \in Callers \ {c} : pc'[d] = pc[d] /\ NoticeOf(d)' = NoticeOf(d)  BY DEF Silent, NoticeOf
<1>2. Cardinality(At("log", n)') = Cardinality(At("log", n))  BY <1>1, OneMoves DEF Silent
<1>3. Cardinality(At("send", n)') <= Cardinality(At("send", n))  BY <1>1, OneMoves DEF Silent
<1>4. mailed[n] \in Nat /\ lapses \in Nat  BY DEF TypeOK, Notices
<1> QED BY <1>2, <1>3, <1>4, PlaceSizes DEF Mails, MailsOf, Silent, mailVars

LEMMA NotifyKeeps ==
    ASSUME TypeOK, Mails, NEW c \in Callers, Notify(c)
    PROVE  Mails'
<1>1. CASE SettleOK(c, "notify", "charged") /\ UNCHANGED lapses
    BY <1>1, SilentKeeps DEF Notify, SettleOK, Answer, Goto, Silent, TypeOK, mailVars
<1>2. CASE ~ (SettleOK(c, "notify", "charged") /\ UNCHANGED lapses)
  <2>1. PICK m : /\ Goto(c, "notify", "send") /\ LookUp(m)
                 /\ NoticeOf(c)' = m
                 /\ \A d \in Callers \ {c} : seen'[d] = seen[d]
                 /\ UNCHANGED <<mailLog, mailed>>
    <3> DEFINE level == LevelFor(terms.allowance - used[terms.period], terms.allowance)
               new == [NoSeen EXCEPT !.period = terms.period, !.level = level]
    <3>1. /\ Goto(c, "notify", "send") /\ LookUp(<<level, terms.period>>)
          /\ seen' = [seen EXCEPT ![c] = new] /\ UNCHANGED <<mailLog, mailed>>
        BY <1>2 DEF Notify
    <3> HIDE DEF level
    <3>2. new.level = level /\ new.period = terms.period  BY DEF NoSeen
    <3> HIDE DEF new
    <3>3. NoticeOf(c)' = <<level, terms.period>>  BY <3>1, <3>2 DEF NoticeOf, TypeOK
    <3> QED BY <3>1, <3>3 DEF TypeOK
  <2>2. \A d \in Callers \ {c} : pc'[d] = pc[d] /\ NoticeOf(d)' = NoticeOf(d)
      BY <2>1 DEF Goto, NoticeOf, TypeOK
  <2> SUFFICES ASSUME NEW n \in Notices PROVE MailsOf(n)'  BY DEF Mails
  <2>3. pc[c] = "notify" /\ pc'[c] = "send"  BY <2>1 DEF Goto, TypeOK
  <2>4. Cardinality(At("log", n)') = Cardinality(At("log", n))  BY <2>2, <2>3, OneMoves
  <2>5. mailed[n] \in Nat /\ lapses \in Nat /\ lapses' \in Nat /\ lapses <= lapses'
      BY <2>1 DEF TypeOK, Notices, LookUp, Lapse
  <2>6. CASE mailLog[n] = "none"  BY <2>1, <2>4, <2>5, <2>6, PlaceSizes DEF Mails, MailsOf
  <2>7. CASE mailLog[n] \in {"SENT", "SKIPPED"}
    <3>1. CASE m = n
      <4>1. lapses' = lapses + 1  BY <2>1, <2>7, <3>1 DEF LookUp, Lapse
      <4>2. Cardinality(At("send", n)') = Cardinality(At("send", n)) + 1  BY <2>1, <2>2, <2>3, <3>1, OneMoves
      <4> QED BY <2>1, <2>5, <2>7, <4>1, <4>2, PlaceSizes DEF Mails, MailsOf
    <3>2. CASE m # n
      <4>1. Cardinality(At("send", n)') = Cardinality(At("send", n))  BY <2>1, <2>2, <2>3, <3>2, OneMoves
      <4> QED BY <2>1, <2>5, <2>7, <4>1, PlaceSizes DEF Mails, MailsOf
    <3> QED BY <3>1, <3>2
  <2>8. CASE mailLog[n] \notin {"none", "SENT", "SKIPPED"}  BY <2>1, <2>8 DEF MailsOf
  <2> QED BY <2>6, <2>7, <2>8
<1> QED BY <1>1, <1>2

LEMMA SendKeeps ==
    ASSUME TypeOK, Mails, NEW c \in Callers, SendNotice(c)
    PROVE  Mails'
<1>1. PICK outcome \in Outcomes, arrived \in 0 .. 1 :
            /\ seen' = [seen EXCEPT ![c].outcome = outcome]
            /\ mailed' = [mailed EXCEPT ![NoticeOf(c)] = @ + arrived]
    BY DEF SendNotice
<1>2. pc[c] = "send" /\ pc'[c] = "log" /\ UNCHANGED <<mailLog, lapses>>
    BY DEF SendNotice, Goto, TypeOK
<1>3. NoticeOf(c)' = NoticeOf(c)
  <2>1. seen'[c] = [seen[c] EXCEPT !.outcome = outcome] /\ seen[c] \in Seen  BY <1>1 DEF TypeOK
  <2> QED BY <2>1 DEF NoticeOf, Seen
<1>4. \A d \in Callers \ {c} : pc'[d] = pc[d] /\ NoticeOf(d)' = NoticeOf(d)
    BY <1>1 DEF SendNotice, Goto, TypeOK, NoticeOf
<1> SUFFICES ASSUME NEW n \in Notices PROVE MailsOf(n)'  BY DEF Mails
<1>5. mailed \in [Notices -> Nat] /\ lapses \in Nat  BY DEF TypeOK, Notices
<1>6. CASE NoticeOf(c) = n
  <2>1. Cardinality(At("send", n)') = Cardinality(At("send", n)) - 1  BY <1>2, <1>4, <1>6, OneMoves
  <2>2. Cardinality(At("log", n)') = Cardinality(At("log", n)) + 1  BY <1>2, <1>3, <1>4, <1>6, OneMoves
  <2>3. mailed'[n] \in Nat /\ mailed'[n] <= mailed[n] + 1  BY <1>1, <1>5, <1>6
  <2>4. mailed[n] \in Nat  BY <1>5
  <2> QED BY <1>2, <1>5, <2>1, <2>2, <2>3, <2>4, PlaceSizes DEF Mails, MailsOf
<1>7. CASE NoticeOf(c) # n
  <2>1. Cardinality(At("send", n)') = Cardinality(At("send", n))  BY <1>3, <1>4, <1>7, OneMoves
  <2>2. Cardinality(At("log", n)') = Cardinality(At("log", n))  BY <1>3, <1>4, <1>7, OneMoves
  <2>3. mailed'[n] = mailed[n]  BY <1>1, <1>5, <1>7
  <2> QED BY <1>2, <2>1, <2>2, <2>3 DEF Mails, MailsOf
<1> QED BY <1>6, <1>7

(* The caller leaves the place of the log, its row written or lost. *)
Leaves(c) ==
    /\ pc[c] = "log" /\ pc'[c] = "idle" /\ mailed' = mailed
    /\ \A d \in Callers \ {c} : pc'[d] = pc[d] /\ seen'[d] = seen[d]
    /\ \/ /\ mailLog' = IF mailLog[NoticeOf(c)] = "none"
                          THEN [mailLog EXCEPT ![NoticeOf(c)] = seen[c].outcome] ELSE mailLog
          /\ lapses' = lapses
       \/ mailLog' = mailLog /\ lapses' = lapses + 1

LEMMA LeavesKeeps ==
    ASSUME TypeOK, Mails, NEW c \in Callers, Leaves(c)
    PROVE  Mails'
<1>1. pc[c] = "log" /\ pc'[c] = "idle" /\ mailed' = mailed  BY DEF Leaves
<1>2. \A d \in Callers \ {c} : pc'[d] = pc[d] /\ NoticeOf(d)' = NoticeOf(d)  BY DEF Leaves, NoticeOf
<1> SUFFICES ASSUME NEW n \in Notices PROVE MailsOf(n)'  BY DEF Mails
<1>3. Cardinality(At("send", n)') = Cardinality(At("send", n))  BY <1>1, <1>2, OneMoves
<1>4. mailed[n] \in Nat /\ lapses \in Nat /\ mailLog \in [Notices -> Outcomes \cup {"none"}]
    BY DEF TypeOK, Notices
<1>5. seen[c].outcome \in Outcomes  BY FieldTypes
<1>6. CASE NoticeOf(c) = n
  <2>1. Cardinality(At("log", n)') = Cardinality(At("log", n)) - 1  BY <1>1, <1>2, <1>6, OneMoves
  <2>2. CASE mailLog' = mailLog /\ lapses' = lapses + 1
      BY <1>1, <1>3, <1>4, <2>1, <2>2, PlaceSizes DEF Mails, MailsOf
  <2>3. CASE lapses' = lapses /\ mailLog[n] # "none" /\ mailLog' = mailLog
      BY <1>1, <1>3, <1>4, <2>1, <2>3, PlaceSizes DEF Mails, MailsOf
  <2>4. CASE lapses' = lapses /\ mailLog[n] = "none" /\ mailLog'[n] \in Outcomes
    <3>1. Cardinality(At("log", n)) + Cardinality(At("send", n)) <= Cardinality(Callers)
      <4>1. At("log", n) \cap At("send", n) = {}  BY DEF At
      <4>2. At("log", n) \cup At("send", n) \subseteq Callers  BY DEF At
      <4>3. Cardinality(At("log", n) \cup At("send", n)) = Cardinality(At("log", n)) + Cardinality(At("send", n))
        <5>1. IsFiniteSet(At("log", n)) /\ IsFiniteSet(At("send", n))  BY PlaceSizes
        <5>2. /\ Cardinality({}) = 0
              /\ Cardinality(At("log", n)) \in Nat /\ Cardinality(At("send", n)) \in Nat
            BY PlaceSizes, FS_EmptySet
        <5>3. Cardinality(At("log", n) \cup At("send", n)) =
                Cardinality(At("log", n)) + Cardinality(At("send", n)) - Cardinality(At("log", n) \cap At("send", n))
            BY <5>1, FS_Union
        <5>4. Cardinality(At("log", n) \cap At("send", n)) = 0  BY <4>1, <5>2, Zenon
        <5> QED BY <5>2, <5>3, <5>4
      <4> QED BY <4>2, <4>3, FS_Subset, LedgerConstants
    <3>2. mailed[n] <= Cardinality(At("log", n)) + lapses  BY <2>4 DEF Mails, MailsOf
    <3>3. mailLog'[n] # "none"  BY <2>4 DEF Outcomes
    <3> QED BY <1>1, <1>3, <1>4, <2>4, <3>1, <3>2, <3>3, PlaceSizes DEF MailsOf
  <2> QED BY <1>4, <1>5, <1>6, <2>2, <2>3, <2>4 DEF Leaves
<1>7. CASE NoticeOf(c) # n
  <2>1. Cardinality(At("log", n)') = Cardinality(At("log", n))
    <3>1. pc[c] # "log" \/ NoticeOf(c) # n  BY <1>7
    <3>2. pc'[c] # "log"  BY <1>1
    <3> QED BY <1>2, <3>1, <3>2, OneMoves
  <2>2. mailLog'[n] = mailLog[n] /\ lapses' \in Nat /\ lapses <= lapses'  BY <1>4, <1>7 DEF Leaves
  <2> QED BY <1>1, <1>3, <1>4, <2>1, <2>2, PlaceSizes DEF Mails, MailsOf
<1> QED BY <1>6, <1>7

LEMMA MailsNext == TypeOK /\ Mails /\ [Next]_vars => Mails'
<1> SUFFICES ASSUME TypeOK, Mails, [Next]_vars PROVE Mails'  OBVIOUS
<1> USE DEF Silent, Answer, GoOn, Goto, TypeOK
<1>1. ASSUME NEW c \in Callers, StartCharge(c) \/ StartRefund(c) PROVE Silent(c)
    BY <1>1 DEF StartCharge, StartRefund, Begin
<1>2. ASSUME NEW c \in Callers, FindCharge(c) \/ FindRefund(c) \/ Enqueue(c) \/ Enter(c) PROVE Silent(c)
    BY <1>2 DEF FindCharge, FindRefund, Find, Enqueue, Enter
<1>3. ASSUME NEW c \in Callers, TryLock(c) \/ LockBusy(c) \/ NoConnection(c) \/ Recheck(c) PROVE Silent(c)
    BY <1>3 DEF TryLock, LockBusy, NoConnection, Recheck
<1>4. ASSUME NEW c \in Callers, ResolveCharge(c) \/ ResolveRefund(c) \/ InsertRefund(c) PROVE Silent(c)
    BY <1>4 DEF ResolveCharge, ResolveRefund, Resolve, InsertRefund
<1>5. ASSUME NEW c \in Callers, Sum(c) \/ Insert(c) PROVE Silent(c)
    BY <1>5 DEF Sum, Insert, SettleOK, SettleError
<1>8. ASSUME NEW c \in Callers, Crash(c) PROVE Silent(c) \/ Leaves(c)
    BY <1>8 DEF Crash, Lapse, Leaves, mailVars
<1>9. ASSUME NEW c \in Callers, LogNotice(c) PROVE Leaves(c)
    BY <1>9 DEF LogNotice, SettleOK, Lapse, Leaves
<1>6. ASSUME NEW c \in Callers, Silent(c) \/ Notify(c) \/ SendNotice(c) \/ Leaves(c) PROVE Mails'
    BY <1>6, SilentKeeps, NotifyKeeps, SendKeeps, LeavesKeeps
<1>7. CASE ChangeTerms \/ UNCHANGED vars
  <2>1. UNCHANGED <<mailVars, pc, seen>>  BY <1>7 DEF ChangeTerms, vars, callVars, mailVars
  <2> QED BY <2>1 DEF Mails, MailsOf, At, NoticeOf, mailVars
<1> HIDE DEF Silent, Answer, GoOn, Goto, TypeOK
<1> QED BY <1>1, <1>2, <1>3, <1>4, <1>5, <1>6, <1>7, <1>8, <1>9 DEF Next, Step

(* Unless the log says that its delivery failed, a threshold notice goes out  *)
(* at most once for each caller and each lapse of the log                     *)
(* (EmailLogService.ts:20-50), for either store.                              *)
THEOREM NoticesAreBounded == Spec => []NoticesBounded
<1>1. Init => Mails
  <2> SUFFICES ASSUME Init, NEW n \in Notices PROVE MailsOf(n)  BY DEF Mails
  <2>1. mailLog[n] = "none" /\ mailed[n] = 0 /\ lapses = 0  BY DEF Init, Notices
  <2> QED BY <2>1, PlaceSizes DEF MailsOf
<1>2. TypeOK /\ Mails => NoticesBounded
  <2> SUFFICES ASSUME TypeOK, Mails, NEW n \in Notices, mailLog[n] # "FAILED"
               PROVE  mailed[n] <= Cardinality(Callers) + lapses
      BY DEF NoticesBounded, Notices
  <2>1. mailLog[n] \in {"none", "SENT", "SKIPPED"} /\ mailed[n] \in Nat /\ lapses \in Nat
      BY DEF TypeOK, Notices, Outcomes
  <2>2. MailsOf(n)  BY DEF Mails
  <2> QED BY <2>1, <2>2, PlaceSizes DEF MailsOf
<1> QED BY <1>1, <1>2, MailsNext, TypeCorrect, PTL DEF Spec

-----------------------------------------------------------------------------
(* used[p] stands for a query: sumForPeriod(p) adds up the rows at or after p. *)
RowSpace == [key : Keys, amount : Int, period : Periods]
AmountOf == [r \in RowSpace |-> r.amount]
Since(p, S) == {r \in S : r.period >= p}

SumIsUsed ==
    /\ IsFiniteSet(rows)
    /\ \A p \in Periods : used[p] = Total(AmountOf, Since(p, rows))

LEMMA WriteAddsUp ==
    ASSUME TypeOK, SumIsUsed, NEW k \in Keys, ~ HasRow(k), NEW n \in Int, NEW q \in Periods,
           WriteRow(k, n, q)
    PROVE  SumIsUsed'
<1> DEFINE row == [key |-> k, amount |-> n, period |-> q]
<1>1. rows \subseteq RowSpace /\ row \in RowSpace /\ row \notin rows
    BY DEF TypeOK, RowSpace, HasRow
<1>2. rows' = rows \cup {row}  BY DEF WriteRow
<1>3. IsFiniteSet(rows')  BY <1>2, FS_AddElement DEF SumIsUsed
<1>4. ASSUME NEW p \in Periods PROVE used'[p] = Total(AmountOf, Since(p, rows'))
  <2>0. used[p] = Total(AmountOf, Since(p, rows))  BY DEF SumIsUsed
  <2>1. used'[p] = IF p <= q THEN used[p] + n ELSE used[p]  BY DEF WriteRow, Add
  <2>2. p \in Nat /\ q \in Nat  BY ConstantFacts
  <2>3. CASE p <= q
    <3>1. Since(p, rows') = Since(p, rows) \cup {row} /\ row \notin Since(p, rows)
        BY <1>1, <1>2, <2>2, <2>3 DEF Since
    <3>2. IsFiniteSet(Since(p, rows'))  BY <1>3, FS_Subset DEF Since
    <3>3. \A r \in Since(p, rows') : r \in RowSpace /\ AmountOf[r] \in Int
        BY <1>1, <1>2 DEF Since, AmountOf, RowSpace
    <3>4. row \in Since(p, rows') /\ Since(p, rows') \ {row} = Since(p, rows)  BY <3>1
    <3>5. Total(AmountOf, Since(p, rows')) = AmountOf[row] + Total(AmountOf, Since(p, rows') \ {row})
        BY <3>2, <3>3, <3>4, TotalRemove
    <3>6. Total(AmountOf, Since(p, rows') \ {row}) = used[p]  BY <2>0, <3>4, Zenon
    <3>7. AmountOf[row] = n  BY <1>1 DEF AmountOf
    <3>8. used[p] \in Int  BY DEF TypeOK
    <3> QED BY <2>1, <2>3, <3>5, <3>6, <3>7, <3>8
  <2>4. CASE ~ (p <= q)
    <3>1. Since(p, rows') = Since(p, rows)  BY <1>2, <2>2, <2>4 DEF Since
    <3>2. Total(AmountOf, Since(p, rows')) = used[p]  BY <2>0, <3>1, Zenon
    <3> QED BY <2>1, <2>4, <3>2
  <2> QED BY <2>3, <2>4
<1> QED BY <1>3, <1>4 DEF SumIsUsed

(* The number the balance check reads is the sum over the table: charge() and  *)
(* refund() write each row once and add exactly its credits to every period    *)
(* it counts for, over either store and whatever overlaps or dies.             *)
THEOREM UsedIsTheSum == Spec => [](\A p \in Periods : used[p] = Total(AmountOf, Since(p, rows)))
<1>1. Init => SumIsUsed
  <2> SUFFICES ASSUME Init PROVE SumIsUsed  OBVIOUS
  <2>1. rows = {} /\ \A p \in Periods : used[p] = 0  BY DEF Init
  <2>2. \A p \in Periods : Since(p, rows) = {}  BY <2>1 DEF Since
  <2>3. \A p \in Periods : Total(AmountOf, Since(p, rows)) = 0  BY <2>2, TotalEmpty, Zenon
  <2> QED BY <2>1, <2>3, FS_EmptySet DEF SumIsUsed
<1>2. Structure /\ SumIsUsed /\ [Next]_vars => SumIsUsed'
  <2> SUFFICES ASSUME Structure, SumIsUsed, [Next]_vars PROVE SumIsUsed'  OBVIOUS
  <2>0. TypeOK  BY DEF Structure
  <2>1. CASE UNCHANGED ledgerVars
    <3>1. rows' = rows /\ used' = used  BY <2>1 DEF ledgerVars
    <3> QED BY <3>1 DEF SumIsUsed
  <2>2. ASSUME NEW c \in Callers, Debits(c) \/ Credits(c) PROVE SumIsUsed'
    <3>1. \E n \in Int : ~ HasRow(req[c].key) /\ WriteRow(req[c].key, n, seen[c].period)
        BY <2>0, <2>2, FieldTypes DEF Debits, Credits
    <3> QED BY <2>0, <3>1, FieldTypes, WriteAddsUp
  <2>3. ASSUME NEW c \in Callers, Checks(c) PROVE UNCHANGED ledgerVars
      BY <2>3 DEF Checks, ledgerVars
  <2> QED BY <2>1, <2>2, <2>3, StepKinds DEF Quiet
<1>3. SumIsUsed => \A p \in Periods : used[p] = Total(AmountOf, Since(p, rows))
    BY DEF SumIsUsed
<1> QED BY <1>1, <1>2, <1>3, StructureInvariant, PTL DEF Spec
=============================================================================
