---------------------- MODULE AutomationDispatchProofs ----------------------
(* Theorems about AutomationDispatch, for every value of its constants. *)
EXTENDS AutomationDispatch, WellFoundedInduction, SequenceTheorems, TLAPS

(***************************************************************************)
(* The inductive invariant.  A row that calls the first step OK rests on   *)
(* its work, one that calls it SKIPPED on a cancellation, and the same is  *)
(* true of every copy an invocation holds; so whoever has gone past the    *)
(* first step without seeing a cancellation knows that it was done.  Who   *)
(* carries a halt out holds the condition that halts, which is behind the  *)
(* first step.  And the run is terminal before anybody is about to notify, *)
(* and stays so.                                                           *)
(***************************************************************************)
RowTrue(i, row) ==
    /\ row.child <= Len(children[i])
    /\ i = 1 /\ row.status = "OK" => Done(1)
    /\ i = 1 /\ row.status = "SKIPPED" => run.cancel

RowsTrue == \A i \in StepIds : RowTrue(i, steps[i])
SeenTrue(d) == \A i \in StepIds : RowTrue(i, seen[d][i])

Inside == {"check", "append", "claimStep", "mark", "execute",
           "record", "drive", "yield", "ok", "halt", "failed"}
Driving == {"record", "drive", "yield"}
Leaving == {"skip", "skipping", "finalize", "notify"}
Deciding == {"failed"} \cup Leaving

Place(d) ==
    /\ pc[d] \in Inside => at[d] \in StepIds
    /\ pc[d] \in {"skip", "skipping"} => at[d] >= 1 /\ (at[d] = 1 => run.cancel)
    /\ pc[d] = "halt" => at[d] > 1
    /\ pc[d] \in Deciding => final[d] \in Terminal
    /\ pc[d] = "failed" => final[d] # "CONDITION_HALTED"

Holding(d) ==
    /\ pc[d] \in Driving => held[d] >= 1
    /\ pc[d] \in Driving \cup {"ok"} => held[d] <= Len(children[at[d]])
    /\ pc[d] \notin Driving \cup Deciding \cup {"ok", "halt"} => held[d] = 0
    /\ pc[d] \in Leaving /\ final[d] = "CONDITION_HALTED" => held[d] \in StepIds /\ held[d] > 1

Past(d) ==
    /\ pc[d] = "check" /\ at[d] > 1 => Done(1) \/ run.cancel
    /\ pc[d] \in Inside \ {"check"} /\ at[d] > 1 => Done(1)
    /\ pc[d] = "ok" => Done(1)
    /\ pc[d] \in Leaving /\ final[d] = "CONDITION_HALTED" => Done(1)

Local(d) == Place(d) /\ Holding(d) /\ Past(d) /\ SeenTrue(d)

OneNotice ==
    /\ NotifiedOnce
    /\ run.status \notin Terminal => notices = 0
    /\ \A d \in Drivers : pc[d] = "notify" => run.status \in Terminal /\ notices = 0
    /\ \A d, e \in Drivers : pc[d] = "notify" /\ pc[e] = "notify" => d = e

Inv == TypeOK /\ RowsTrue /\ (\A d \in Drivers : Local(d)) /\ OneNotice /\ FirstStepGate

-----------------------------------------------------------------------------
LEMMA StepFacts ==
    /\ Len(Workflow) \in Nat
    /\ \A i \in StepIds : i \in Nat /\ i >= 1 /\ Workflow[i] \in Kinds
    /\ 1 \in StepIds => Workflow[1] # "condition"
    /\ \A i \in StepIds : i > 1 => 1 \in StepIds
<1>1. Workflow \in Seq(Kinds) /\ (Workflow # <<>> => Workflow[1] # "condition")
    BY AutomationConstants
<1>2. Len(Workflow) \in Nat /\ \A i \in StepIds : Workflow[i] \in Kinds
    BY <1>1, ElementOfSeq, LenProperties DEF StepIds
<1>3. 1 \in StepIds => Workflow # <<>>  BY <1>1, <1>2 DEF StepIds
<1> QED BY <1>1, <1>2, <1>3 DEF StepIds

Ends == ChildEnds \cup {"open"}

LEMMA ChildFacts ==
    ASSUME TypeOK, NEW i \in StepIds
    PROVE  /\ children[i] \in Seq(Ends) /\ Len(children[i]) \in Nat
           /\ DOMAIN children[i] = 1 .. Len(children[i])
<1>1. children[i] \in Seq(Ends)  BY DEF TypeOK, Ends
<1> QED BY <1>1, LenProperties

(* The least step left, where there is one. *)
LEMMA LeastStep ==
    ASSUME NEW left \in SUBSET Nat, left # {}
    PROVE  \E n \in left : \A k \in left : n <= k
<1>1. \E n \in left : \A k \in left : ~ (<<k, n>> \in OpToRel(<, Nat))
    BY NatLessThanWellFounded, WFMin
<1>2. PICK n \in left : \A k \in left : ~ (<<k, n>> \in OpToRel(<, Nat))  BY <1>1
<1>3. \A k \in left : ~ (k < n)  BY <1>2 DEF OpToRel
<1> QED BY <1>3

LEMMA GoOnEnds ==
    ASSUME NEW d \in Drivers, NEW from, NEW i \in Nat \ {0}, NEW known,
           GoOnAt(d, from, i, known)
    PROVE  /\ pc[d] = from
           /\ \/ /\ pc' = [pc EXCEPT ![d] = "finalize"] /\ at' = at
                 /\ \E s \in {"SUCCEEDED", "FAILED"} : final' = [final EXCEPT ![d] = s]
              \/ /\ pc' = [pc EXCEPT ![d] = "check"] /\ final' = final
                 /\ \E n \in StepIds :
                      /\ at' = [at EXCEPT ![d] = n] /\ n >= i
                      /\ n > i => known[i].status \in {"OK", "SKIPPED"}
<1> DEFINE left == {j \in i .. Len(Workflow) : known[j].status \notin {"OK", "SKIPPED"}}
           next == CHOOSE j \in left : \A k \in left : j <= k
<1>1. CASE left = {}
    BY <1>1 DEF GoOnAt, Goto, Put
<1>2. CASE left # {}
  <2>1. left \in SUBSET Nat  BY StepFacts
  <2>2. next \in left /\ \A k \in left : next <= k  BY <1>2, <2>1, LeastStep
  <2>3. next \in StepIds /\ next >= i  BY <2>2, StepFacts DEF StepIds
  <2>4. next > i => known[i].status \in {"OK", "SKIPPED"}
    <3> SUFFICES ASSUME next > i, known[i].status \notin {"OK", "SKIPPED"} PROVE FALSE  OBVIOUS
    <3>1. i \in i .. Len(Workflow)  BY <2>3, StepFacts DEF StepIds
    <3>2. next <= i  BY <2>2, <3>1
    <3> QED BY <2>3, <3>2, StepFacts
  <2>5. \/ Goto(d, from, "finalize") /\ final' = Put(final, d, "FAILED") /\ UNCHANGED at
        \/ Goto(d, from, "check") /\ at' = Put(at, d, next) /\ UNCHANGED final
      BY <1>2 DEF GoOnAt
  <2> HIDE DEF next
  <2> QED BY <2>3, <2>4, <2>5 DEF Goto, Put
<1> QED BY <1>1, <1>2

-----------------------------------------------------------------------------
(* A step of driver d leaves the locals of the others alone. *)
Moves(d) ==
    /\ pc' \in [Drivers -> PCs] /\ at' \in [Drivers -> Nat]
    /\ seen' \in [Drivers -> [StepIds -> StepRows]] /\ held' \in [Drivers -> Nat]
    /\ ctx' \in [Drivers -> SUBSET StepIds] /\ final' \in [Drivers -> RunStatuses]
    /\ \A e \in Drivers \ {d} :
         /\ pc'[e] = pc[e] /\ at'[e] = at[e] /\ seen'[e] = seen[e]
         /\ held'[e] = held[e] /\ final'[e] = final[e]

(* Nothing an invocation may rely on is taken back. *)
Grows ==
    /\ \A i \in StepIds : Len(children[i]) <= Len(children'[i])
    /\ 1 \in StepIds /\ Done(1) => Done(1)'
    /\ run.cancel => run'.cancel

LEMMA RowTrueStays ==
    ASSUME TypeOK, TypeOK', Grows, NEW i \in StepIds, NEW row \in StepRows, RowTrue(i, row)
    PROVE  /\ row.child <= Len(children'[i])
           /\ i = 1 /\ row.status = "OK" => Done(1)'
           /\ i = 1 /\ row.status = "SKIPPED" => run'.cancel
<1>1. row.child \in Nat /\ Len(children[i]) \in Nat /\ Len(children[i]) <= Len(children'[i])
    BY ChildFacts DEF StepRows, Grows
<1>2. Len(children'[i]) \in Nat
    BY LenProperties DEF TypeOK
<1> QED BY <1>1, <1>2 DEF RowTrue, Grows

(* What an invocation knows stays true while it does nothing. *)
LEMMA Keeps ==
    ASSUME Inv, TypeOK', Grows, NEW e \in Drivers, pc'[e] = pc[e], at'[e] = at[e],
           seen'[e] = seen[e], held'[e] = held[e], final'[e] = final[e]
    PROVE  Local(e)'
<1>1. /\ pc'[e] = pc[e] /\ at'[e] = at[e] /\ seen'[e] = seen[e]
      /\ held'[e] = held[e] /\ final'[e] = final[e]
    OBVIOUS
<1>2. Local(e) /\ TypeOK  BY DEF Inv
<1>3. held[e] \in Nat /\ at[e] \in Nat  BY <1>2 DEF TypeOK
<1>4. Place(e)'  BY <1>1, <1>2 DEF Local, Place, Grows
<1>5. Holding(e)'
  <2>1. CASE pc[e] \in Driving \cup {"ok"}
    <3>1. at[e] \in StepIds /\ held[e] <= Len(children[at[e]])
        BY <1>2, <2>1 DEF Local, Place, Holding, Inside, Driving
    <3>2. Len(children[at[e]]) \in Nat /\ Len(children[at[e]]) <= Len(children'[at[e]])
        BY <1>2, <3>1, ChildFacts DEF Grows
    <3>3. Len(children'[at[e]]) \in Nat  BY <3>1, LenProperties DEF TypeOK
    <3> QED BY <1>1, <1>2, <1>3, <3>1, <3>2, <3>3 DEF Local, Holding
  <2>2. CASE pc[e] \notin Driving \cup {"ok"}
    BY <1>1, <1>2, <2>2 DEF Local, Holding
  <2> QED BY <2>1, <2>2
<1>6. Past(e)'
  <2>1. (at[e] > 1 /\ pc[e] \in Inside) \/ pc[e] = "ok" => 1 \in StepIds
      BY <1>2, <1>3, StepFacts DEF Local, Place, Inside, StepIds
  <2>2. pc[e] \in Leaving /\ final[e] = "CONDITION_HALTED" => 1 \in StepIds
      BY <1>2, StepFacts DEF Local, Holding
  <2> QED BY <1>1, <1>2, <2>1, <2>2 DEF Local, Past, Grows, Inside
<1>7. SeenTrue(e)'
  <2> SUFFICES ASSUME NEW i \in StepIds PROVE RowTrue(i, seen[e][i])'
      BY DEF SeenTrue
  <2>1. seen[e][i] \in StepRows /\ RowTrue(i, seen[e][i])
      BY <1>2 DEF TypeOK, Local, SeenTrue
  <2> QED BY <1>1, <1>2, <2>1, RowTrueStays DEF RowTrue
<1> QED BY <1>4, <1>5, <1>6, <1>7 DEF Local

LEMMA OthersKeep ==
    ASSUME Inv, NEW d \in Drivers, Moves(d), TypeOK', Grows
    PROVE  \A e \in Drivers \ {d} : Local(e)'
BY Keeps DEF Moves

-----------------------------------------------------------------------------
(* Steps that leave the run and what is outside it alone. *)
LEMMA RowStep ==
    ASSUME Inv, NEW d \in Drivers, Moves(d), UNCHANGED <<run, world, canceller>>,
           yields' \in Nat, crashes' \in Nat,
           steps' \in [StepIds -> StepRows], RowsTrue', Local(d)', pc'[d] # "notify"
    PROVE  Inv'
<1>1. TypeOK'  BY DEF Inv, TypeOK, Moves, world
<1>2. Grows
    BY ChildFacts DEF Grows, Inv, world, Done
<1>3. \A e \in Drivers : Local(e)'  BY <1>1, <1>2, OthersKeep
<1>4. OneNotice'
    BY DEF Inv, OneNotice, NotifiedOnce, Moves, world
<1>5. FirstStepGate'
    BY DEF Inv, FirstStepGate, HasEffect, Done, world
<1> QED BY <1>1, <1>3, <1>4, <1>5 DEF Inv

(* Steps that do the work of a step. *)
LEMMA WorkStep ==
    ASSUME Inv, NEW d \in Drivers, Moves(d), UNCHANGED <<run, steps, met, notices, bounds>>,
           children' \in [StepIds -> Seq(Ends)], effects' \in [StepIds -> Nat],
           Grows, FirstStepGate', Local(d)', pc'[d] # "notify"
    PROVE  Inv'
<1>1. TypeOK'  BY DEF Inv, TypeOK, Moves, bounds, Ends
<1>2. RowsTrue'
  <2> SUFFICES ASSUME NEW i \in StepIds PROVE RowTrue(i, steps[i])'
      BY DEF RowsTrue
  <2>1. steps[i] \in StepRows /\ RowTrue(i, steps[i])  BY DEF Inv, TypeOK, RowsTrue
  <2> QED BY <1>1, <2>1, RowTrueStays DEF RowTrue, Inv
<1>3. \A e \in Drivers : Local(e)'  BY <1>1, OthersKeep
<1>4. OneNotice'
    BY DEF Inv, OneNotice, NotifiedOnce, Moves
<1> QED BY <1>1, <1>2, <1>3, <1>4 DEF Inv

(* A step that only moves d on: what it holds stays what it was. *)
LEMMA RowsTrueStay == ASSUME Inv, UNCHANGED <<steps, run, world>> PROVE RowsTrue'
BY DEF Inv, RowsTrue, RowTrue, Done, world

LEMMA SeenStays ==
    ASSUME Inv, NEW d \in Drivers, seen'[d] = seen[d], UNCHANGED <<run, world>>
    PROVE  SeenTrue(d)'
BY DEF Inv, Local, SeenTrue, RowTrue, Done, world

LEMMA NoRowsTrue ==
    ASSUME NEW d \in Drivers, seen'[d] = NoRows, children' \in [StepIds -> Seq(Ends)]
    PROVE  SeenTrue(d)'
<1> SUFFICES ASSUME NEW i \in StepIds PROVE RowTrue(i, seen[d][i])'
    BY DEF SeenTrue
<1>1. Len(children'[i]) \in Nat  BY LenProperties
<1> QED BY <1>1 DEF RowTrue, NoRows, NoRow

(* Where an invocation is when it has returned, or died. *)
LEMMA Returned ==
    ASSUME TypeOK, NEW d \in Drivers, NEW from, Return(d, from),
           children' \in [StepIds -> Seq(Ends)]
    PROVE  Moves(d) /\ Local(d)' /\ pc'[d] = "idle"
<1>1. NoRows \in [StepIds -> StepRows]  BY DEF NoRows, NoRow, StepRows, StepStatuses
<1>2. Moves(d) /\ pc'[d] = "idle" /\ seen'[d] = NoRows /\ held'[d] = 0
    BY <1>1 DEF Return, Goto, Put, TypeOK, Moves, PCs, RunStatuses
<1> QED BY <1>2, NoRowsTrue DEF Local, Place, Holding, Past, Inside, Driving, Deciding, Leaving

LEMMA Hopped ==
    ASSUME Inv, NEW d \in Drivers, NEW from, NEW to \in PCs, Goto(d, from, to), UNCHANGED locals
    PROVE  /\ Moves(d) /\ pc[d] = from /\ pc'[d] = to
           /\ at'[d] = at[d] /\ seen'[d] = seen[d] /\ held'[d] = held[d] /\ final'[d] = final[d]
BY DEF Inv, TypeOK, Goto, locals, Moves

LEMMA WorldStays == ASSUME UNCHANGED <<run, world>>
                    PROVE  (Done(1)' <=> Done(1)) /\ run' = run /\ children' = children
BY DEF Done, world

LEMMA RowSet ==
    ASSUME Inv, NEW d \in Drivers, at[d] \in StepIds, NEW row \in StepRows, SetStep(d, row),
           RowTrue(at[d], row), UNCHANGED <<run, world>>
    PROVE  steps' \in [StepIds -> StepRows] /\ RowsTrue'
<1>1. /\ steps' \in [StepIds -> StepRows] /\ steps'[at[d]] = row
      /\ \A i \in StepIds \ {at[d]} : steps'[i] = steps[i]
    BY DEF Inv, TypeOK, SetStep, Put
<1>2. RowsTrue'
  <2> SUFFICES ASSUME NEW i \in StepIds PROVE RowTrue(i, steps[i])'
      BY DEF RowsTrue
  <2> QED BY <1>1, WorldStays DEF Inv, RowsTrue, RowTrue
<1> QED BY <1>1, <1>2

LEMMA StatusSet ==
    ASSUME Inv, NEW d \in Drivers, at[d] \in StepIds, NEW status \in StepStatuses,
           StepStatus(d, status), UNCHANGED <<run, world>>,
           at[d] = 1 /\ status = "OK" => Done(1),
           at[d] = 1 /\ status = "SKIPPED" => run.cancel
    PROVE  steps' \in [StepIds -> StepRows] /\ RowsTrue'
<1> DEFINE row == [steps[at[d]] EXCEPT !.status = status]
<1>1. row \in StepRows /\ row.status = status /\ row.child = steps[at[d]].child
    BY DEF Inv, TypeOK, StepRows
<1>2. SetStep(d, row)  BY DEF StepStatus
<1>3. RowTrue(at[d], row)  BY <1>1 DEF Inv, RowsTrue, RowTrue
<1> HIDE DEF row
<1> QED BY <1>1, <1>2, <1>3, RowSet

-----------------------------------------------------------------------------
LEMMA BeginKeepsInv ==
    ASSUME Inv, NEW d \in Drivers
    PROVE  Load(d) \/ Reread(d) \/ Snapshot(d) => Inv'
<1>0. TypeOK /\ Local(d)  BY DEF Inv
<1>1. ASSUME Load(d) PROVE Inv'
  <2>1. PICK to \in {"claim", "snapshot"} : Goto(d, "idle", to)  BY <1>1 DEF Load
  <2>2. UNCHANGED <<run, steps, world, bounds, locals>>  BY <1>1 DEF Load, rows
  <2>3. Moves(d) /\ pc[d] = "idle" /\ pc'[d] = to /\ held'[d] = held[d] /\ seen'[d] = seen[d]
      BY <2>1, <2>2, Hopped DEF PCs
  <2>4. Local(d)'
      BY <1>0, <2>2, <2>3, SeenStays DEF Local, Place, Holding, Past, Inside, Driving, Deciding, Leaving
  <2> QED BY <1>0, <2>2, <2>3, <2>4, RowStep, RowsTrueStay DEF bounds, TypeOK
<1>2. ASSUME Reread(d) PROVE Inv'
  <2>1. UNCHANGED <<run, steps, world, bounds>>  BY <1>2 DEF Reread, rows
  <2>2. CASE Return(d, "reread")
    <3>1. children' \in [StepIds -> Seq(Ends)]  BY <1>0, <2>1 DEF world, TypeOK, Ends
    <3> QED BY <1>0, <2>1, <2>2, <3>1, Returned, RowStep, RowsTrueStay DEF bounds, TypeOK
  <2>3. CASE Goto(d, "reread", "snapshot") /\ UNCHANGED locals
    <3>1. Moves(d) /\ pc[d] = "reread" /\ pc'[d] = "snapshot" /\ held'[d] = held[d] /\ seen'[d] = seen[d]
        BY <2>3, Hopped DEF PCs
    <3>2. Local(d)'
        BY <1>0, <2>1, <3>1, SeenStays DEF Local, Place, Holding, Past, Inside, Driving, Deciding, Leaving
    <3> QED BY <1>0, <2>1, <3>1, <3>2, RowStep, RowsTrueStay DEF bounds, TypeOK
  <2> QED BY <1>2, <2>2, <2>3 DEF Reread
<1>3. ASSUME Snapshot(d) PROVE Inv'
  <2>1. /\ UNCHANGED <<run, steps, world, bounds, held>> /\ seen' = Put(seen, d, steps)
        /\ ctx' = Put(ctx, d, {}) /\ GoOnAt(d, "snapshot", 1, steps)
      BY <1>3 DEF Snapshot, rows
  <2>2. seen' \in [Drivers -> [StepIds -> StepRows]] /\ seen'[d] = steps
        /\ (\A e \in Drivers \ {d} : seen'[e] = seen[e])
        /\ ctx' \in [Drivers -> SUBSET StepIds]
      BY <1>0, <2>1 DEF Put, TypeOK
  <2>3. SeenTrue(d)'
    <3>1. RowsTrue'  BY <2>1, RowsTrueStay
    <3> QED BY <2>1, <2>2, <3>1 DEF SeenTrue, RowsTrue, RowTrue
  <2>g. /\ pc[d] = "snapshot"
        /\ \/ /\ pc' = [pc EXCEPT ![d] = "finalize"] /\ at' = at
              /\ \E s \in {"SUCCEEDED", "FAILED"} : final' = [final EXCEPT ![d] = s]
           \/ /\ pc' = [pc EXCEPT ![d] = "check"] /\ final' = final
              /\ \E n \in StepIds :
                   /\ at' = [at EXCEPT ![d] = n] /\ n >= 1
                   /\ n > 1 => steps[1].status \in {"OK", "SKIPPED"}
    <3>1. GoOnAt(d, "snapshot", 1, steps) /\ 1 \in Nat \ {0}  BY <2>1
    <3> QED BY <3>1, GoOnEnds
  <2>4. pc[d] = "snapshot" /\ held[d] = 0 /\ held' = held
      BY <1>0, <2>1, <2>g DEF Local, Holding, Driving, Deciding, Leaving
  <2>5. CASE pc' = [pc EXCEPT ![d] = "finalize"] /\ at' = at
             /\ \E s \in {"SUCCEEDED", "FAILED"} : final' = [final EXCEPT ![d] = s]
    <3>1. Moves(d) /\ pc'[d] = "finalize" /\ final'[d] \in Terminal \ {"CONDITION_HALTED"}
        BY <1>0, <2>2, <2>4, <2>5 DEF Moves, TypeOK, PCs, RunStatuses, Terminal
    <3>2. Local(d)'
        BY <2>3, <3>1 DEF Local, Place, Holding, Past, Inside, Driving, Deciding, Leaving
    <3> QED BY <1>0, <2>1, <3>1, <3>2, RowStep, RowsTrueStay DEF bounds, TypeOK
  <2>6. ASSUME pc' = [pc EXCEPT ![d] = "check"], final' = final,
               NEW n \in StepIds, at' = [at EXCEPT ![d] = n],
               n > 1 => steps[1].status \in {"OK", "SKIPPED"}
        PROVE  Inv'
    <3>1. Moves(d) /\ pc'[d] = "check" /\ at'[d] = n /\ held'[d] = 0
        BY <1>0, <2>2, <2>4, <2>6, StepFacts DEF Moves, TypeOK, PCs
    <3>2. n > 1 => Done(1) \/ run.cancel
        BY <2>6, StepFacts DEF Inv, RowsTrue, RowTrue
    <3>3. Local(d)'
        BY <2>1, <2>3, <3>1, <3>2, WorldStays DEF Local, Place, Holding, Past, Inside, Driving, Deciding, Leaving
    <3> QED BY <1>0, <2>1, <3>1, <3>3, RowStep, RowsTrueStay DEF bounds, TypeOK
  <2> QED BY <2>g, <2>5, <2>6
<1> QED BY <1>1, <1>2, <1>3

LEMMA EnterKeepsInv ==
    ASSUME Inv, NEW d \in Drivers
    PROVE  CheckCancel(d) \/ AppendStep(d) \/ ClaimStep(d) \/ MarkRunning(d) => Inv'
<1>0. TypeOK /\ Local(d)  BY DEF Inv
<1>1. ASSUME CheckCancel(d) PROVE Inv'
  <2>1. UNCHANGED <<run, steps, world, bounds, seen, held, ctx>>  BY <1>1 DEF CheckCancel, rows
  <2>2. pc[d] = "check" /\ at[d] \in StepIds /\ held[d] = 0
    <3>1. pc[d] = "check"  BY <1>1 DEF CheckCancel, SkipFrom, Goto
    <3> QED BY <1>0, <3>1 DEF Local, Place, Holding, Inside, Driving, Deciding, Leaving
  <2>3. CASE run.cancel
    <3>1. /\ pc' = [pc EXCEPT ![d] = "skip"] /\ at' = [at EXCEPT ![d] = at[d]]
          /\ final' = [final EXCEPT ![d] = "CANCELLED"]
        BY <1>1, <2>3 DEF CheckCancel, SkipFrom, Goto, Put
    <3>2. Moves(d) /\ pc'[d] = "skip" /\ at'[d] = at[d] /\ final'[d] = "CANCELLED"
        BY <1>0, <2>1, <3>1 DEF TypeOK, Moves, PCs, RunStatuses, Terminal
    <3>3. SeenTrue(d)'  BY <2>1, SeenStays
    <3>4. Local(d)'
        BY <2>1, <2>2, <2>3, <3>2, <3>3, StepFacts
        DEF Local, Place, Holding, Past, Inside, Driving, Deciding, Leaving, Terminal
    <3> QED BY <1>0, <2>1, <3>2, <3>4, RowStep, RowsTrueStay DEF bounds, TypeOK
  <2>4. CASE ~ run.cancel
    <3>1. Goto(d, "check", "append") /\ UNCHANGED locals
        BY <1>1, <2>1, <2>4 DEF CheckCancel, locals
    <3>2. Moves(d) /\ pc'[d] = "append" /\ at'[d] = at[d] /\ held'[d] = 0 /\ seen'[d] = seen[d]
        BY <2>2, <3>1, Hopped DEF PCs
    <3>3. at[d] > 1 => Done(1)  BY <1>0, <2>2, <2>4 DEF Local, Past
    <3>4. Local(d)'
        BY <2>1, <2>2, <3>2, <3>3, SeenStays, WorldStays
        DEF Local, Place, Holding, Past, Inside, Driving, Deciding, Leaving
    <3> QED BY <1>0, <2>1, <3>2, <3>4, RowStep, RowsTrueStay DEF bounds, TypeOK
  <2> QED BY <2>3, <2>4
<1>2. ASSUME AppendStep(d) PROVE Inv'
  <2> DEFINE i == at[d]
             fresh == IF steps[i].status = "none" THEN [NoRow EXCEPT !.status = "PENDING"] ELSE steps[i]
             row == IF seen[d][i].status = "none" THEN fresh ELSE seen[d][i]
  <2>1. /\ UNCHANGED <<run, world, bounds, at, held, ctx, final>> /\ pc[d] = "append"
        /\ steps' = IF seen[d][i].status = "none" THEN [steps EXCEPT ![i] = fresh] ELSE steps
        /\ seen' = [seen EXCEPT ![d] = [seen[d] EXCEPT ![i] = row]]
        /\ \E to \in {"claimStep", "mark"} : pc' = [pc EXCEPT ![d] = to]
      BY <1>2 DEF AppendStep, Goto, Put
  <2>2. i \in StepIds /\ held[d] = 0 /\ (i > 1 => Done(1))
      BY <1>0, <2>1 DEF Local, Place, Holding, Past, Inside, Driving, Deciding, Leaving
  <2>3. Len(children[i]) \in Nat  BY <1>0, <2>2, ChildFacts
  <2>4. fresh \in StepRows /\ RowTrue(i, fresh)
    <3>1. CASE steps[i].status = "none"
      <4>1. fresh = [status |-> "PENDING", child |-> 0]  BY <3>1 DEF NoRow
      <4> QED BY <2>3, <4>1 DEF RowTrue, StepRows, StepStatuses
    <3>2. CASE steps[i].status # "none"
      <4>1. fresh = steps[i]  BY <3>2
      <4>2. steps[i] \in StepRows /\ RowTrue(i, steps[i])
          BY <1>0, <2>2 DEF Inv, RowsTrue, TypeOK
      <4> HIDE DEF fresh
      <4> QED BY <4>1, <4>2
    <3> QED BY <3>1, <3>2
  <2> HIDE DEF fresh
  <2>5. row \in StepRows /\ RowTrue(i, row)
      BY <1>0, <2>2, <2>4 DEF Local, SeenTrue, TypeOK
  <2> HIDE DEF row
  <2>6. steps' \in [StepIds -> StepRows] /\ RowsTrue'
    <3>1. CASE seen[d][i].status = "none"
      <4>1. SetStep(d, fresh)  BY <2>1, <3>1 DEF SetStep, Put
      <4> QED BY <2>1, <2>2, <2>4, <4>1, RowSet
    <3>2. CASE seen[d][i].status # "none"
      <4> QED BY <1>0, <2>1, <3>2, RowsTrueStay DEF TypeOK
    <3> QED BY <3>1, <3>2
  <2>7. /\ seen' \in [Drivers -> [StepIds -> StepRows]] /\ seen'[d] = [seen[d] EXCEPT ![i] = row]
        /\ \A e \in Drivers \ {d} : seen'[e] = seen[e]
    <3>1. [seen[d] EXCEPT ![i] = row] \in [StepIds -> StepRows]  BY <1>0, <2>2, <2>5 DEF TypeOK
    <3> QED BY <1>0, <2>1, <3>1 DEF TypeOK
  <2>8. SeenTrue(d)'
    <3> SUFFICES ASSUME NEW j \in StepIds PROVE RowTrue(j, seen[d][j])'
        BY DEF SeenTrue
    <3>1. seen[d] \in [StepIds -> StepRows] /\ RowTrue(j, seen[d][j])
        BY <1>0 DEF TypeOK, Local, SeenTrue
    <3>2. seen'[d][j] = IF j = i THEN row ELSE seen[d][j]  BY <2>2, <2>7, <3>1
    <3> QED BY <2>1, <2>5, <3>1, <3>2, WorldStays DEF RowTrue
  <2>9. Moves(d) /\ pc'[d] \in {"claimStep", "mark"} /\ at'[d] = i /\ held'[d] = 0
      BY <1>0, <2>1, <2>2, <2>7 DEF TypeOK, Moves, PCs
  <2>10. Local(d)'
      BY <2>1, <2>2, <2>8, <2>9, WorldStays DEF Local, Place, Holding, Past, Inside, Driving, Deciding, Leaving
  <2> QED BY <1>0, <2>1, <2>6, <2>9, <2>10, RowStep DEF bounds, TypeOK
<1>3. ASSUME ClaimStep(d) PROVE Inv'
  <2>1. UNCHANGED <<run, world, bounds>> /\ pc[d] = "claimStep"  BY <1>3 DEF ClaimStep
  <2>2. at[d] \in StepIds /\ held[d] = 0 /\ (at[d] > 1 => Done(1))
      BY <1>0, <2>1 DEF Local, Place, Holding, Past, Inside, Driving, Deciding, Leaving
  <2>3. CASE steps[at[d]].status = "PENDING"
    <3>1. Goto(d, "claimStep", "mark") /\ StepStatus(d, "RUNNING") /\ UNCHANGED locals
        BY <1>3, <2>3 DEF ClaimStep
    <3>2. Moves(d) /\ pc'[d] = "mark" /\ at'[d] = at[d] /\ held'[d] = 0 /\ seen'[d] = seen[d]
        BY <2>2, <3>1, Hopped DEF PCs
    <3>3. steps' \in [StepIds -> StepRows] /\ RowsTrue'
        BY <2>1, <2>2, <3>1, StatusSet DEF StepStatuses
    <3>4. Local(d)'
        BY <2>1, <2>2, <3>2, SeenStays, WorldStays
        DEF Local, Place, Holding, Past, Inside, Driving, Deciding, Leaving
    <3> QED BY <1>0, <2>1, <3>2, <3>3, <3>4, RowStep DEF bounds, TypeOK
  <2>4. CASE steps[at[d]].status # "PENDING"
    <3>1. Return(d, "claimStep") /\ UNCHANGED steps  BY <1>3, <2>4 DEF ClaimStep
    <3>2. children' \in [StepIds -> Seq(Ends)]  BY <1>0, <2>1 DEF world, TypeOK, Ends
    <3> QED BY <1>0, <2>1, <3>1, <3>2, Returned, RowStep, RowsTrueStay DEF bounds, TypeOK
  <2> QED BY <2>3, <2>4
<1>4. ASSUME MarkRunning(d) PROVE Inv'
  <2>1. Goto(d, "mark", "execute") /\ StepStatus(d, "RUNNING") /\ UNCHANGED <<run, world, bounds, locals>>
      BY <1>4 DEF MarkRunning
  <2>2. /\ Moves(d) /\ pc[d] = "mark" /\ pc'[d] = "execute" /\ at'[d] = at[d]
        /\ held'[d] = held[d] /\ seen'[d] = seen[d]
      BY <2>1, Hopped DEF PCs
  <2>3. at[d] \in StepIds /\ held[d] = 0 /\ (at[d] > 1 => Done(1))
      BY <1>0, <2>2 DEF Local, Place, Holding, Past, Inside, Driving, Deciding, Leaving
  <2>4. steps' \in [StepIds -> StepRows] /\ RowsTrue'
      BY <2>1, <2>3, StatusSet DEF StepStatuses
  <2>5. Local(d)'
      BY <2>1, <2>2, <2>3, SeenStays, WorldStays
      DEF Local, Place, Holding, Past, Inside, Driving, Deciding, Leaving
  <2> QED BY <1>0, <2>1, <2>2, <2>4, <2>5, RowStep DEF bounds, TypeOK
<1> QED BY <1>1, <1>2, <1>3, <1>4

-----------------------------------------------------------------------------
(* A step of the workflow that is at work may do it: the first one is done. *)
LEMMA GateStays ==
    ASSUME Inv, Grows, NEW d \in Drivers, at[d] \in StepIds, at[d] > 1 => Done(1),
           \A i \in StepIds \ {at[d]} : HasEffect(i)' => HasEffect(i)
    PROVE  FirstStepGate'
<1> SUFFICES ASSUME NEW i \in StepIds, i > 1, HasEffect(i)' PROVE Done(1)'
    BY DEF FirstStepGate
<1>1. 1 \in StepIds  BY StepFacts
<1>2. Done(1)  BY DEF Inv, FirstStepGate
<1> QED BY <1>1, <1>2 DEF Grows

LEMMA WorkFacts ==
    ASSUME Inv, NEW d \in Drivers, pc[d] \in {"execute", "drive"}
    PROVE  /\ at[d] \in StepIds /\ 1 \in StepIds /\ at[d] \in Nat /\ at[d] >= 1
           /\ at[d] > 1 => Done(1)
           /\ children[at[d]] \in Seq(Ends) /\ Len(children[at[d]]) \in Nat
           /\ pc[d] = "execute" => held[d] = 0
           /\ pc[d] = "drive" => held[d] \in 1 .. Len(children[at[d]])
<1>1. TypeOK /\ Local(d)  BY DEF Inv
<1>2. at[d] \in StepIds /\ held[d] \in Nat  BY <1>1 DEF Local, Place, Inside, TypeOK
<1>3. at[d] \in Nat /\ at[d] >= 1 /\ 1 \in StepIds  BY <1>2, StepFacts DEF StepIds
<1>4. children[at[d]] \in Seq(Ends) /\ Len(children[at[d]]) \in Nat  BY <1>1, <1>2, ChildFacts
<1> QED BY <1>1, <1>2, <1>3, <1>4 DEF Local, Holding, Past, Inside, Driving, Deciding, Leaving

LEMMA StartChildKeepsInv == ASSUME Inv, NEW d \in Drivers, StartChild(d) PROVE Inv'
<1>0. TypeOK /\ Local(d)  BY DEF Inv
<1> DEFINE longer == Append(children[at[d]], "open")
<1>1. /\ pc[d] = "execute" /\ pc' = [pc EXCEPT ![d] = "record"]
      /\ children' = [children EXCEPT ![at[d]] = longer]
      /\ held' = [held EXCEPT ![d] = Len(children[at[d]]) + 1]
      /\ UNCHANGED <<run, steps, met, effects, notices, bounds, at, seen, ctx, final>>
    BY DEF StartChild, Executes, Goto, Put, rows
<1>2. /\ at[d] \in StepIds /\ 1 \in StepIds /\ (at[d] > 1 => Done(1))
      /\ children[at[d]] \in Seq(Ends) /\ Len(children[at[d]]) \in Nat
    BY <1>1, WorkFacts
<1>3. /\ longer \in Seq(Ends) /\ Len(longer) = Len(children[at[d]]) + 1
      /\ DOMAIN longer = 1 .. Len(longer)
      /\ \A c \in 1 .. Len(children[at[d]]) : longer[c] = children[at[d]][c]
  <2>1. "open" \in Ends  BY DEF Ends
  <2> HIDE DEF longer
  <2>2. longer \in Seq(Ends) /\ Len(longer) = Len(children[at[d]]) + 1
        /\ \A c \in 1 .. Len(children[at[d]]) : longer[c] = children[at[d]][c]
      BY <1>2, <2>1, AppendProperties DEF longer
  <2> QED BY <2>2, LenProperties
<1> HIDE DEF longer
<1>4. /\ children' \in [StepIds -> Seq(Ends)] /\ children'[at[d]] = longer
      /\ \A i \in StepIds \ {at[d]} : children'[i] = children[i]
  <2>1. children \in [StepIds -> Seq(Ends)]  BY <1>0 DEF TypeOK, Ends
  <2> QED BY <1>1, <1>2, <1>3, <2>1
<1>5. Grows
  <2>1. \A i \in StepIds : Len(children[i]) <= Len(children'[i])
    <3> SUFFICES ASSUME NEW i \in StepIds PROVE Len(children[i]) <= Len(children'[i])
        OBVIOUS
    <3>1. CASE i = at[d]  BY <1>2, <1>3, <1>4, <3>1
    <3>2. CASE i # at[d]
      <4>1. Len(children[i]) \in Nat /\ children'[i] = children[i]  BY <1>0, <1>4, <3>2, ChildFacts
      <4> QED BY <4>1
    <3> QED BY <3>1, <3>2
  <2>2. Done(1) => Done(1)'
    <3>1. CASE at[d] = 1
      <4>1. DOMAIN children[1] = 1 .. Len(children[1])  BY <1>0, <1>2, ChildFacts
      <4> QED BY <1>1, <1>2, <1>3, <1>4, <3>1, <4>1 DEF Done
    <3>2. CASE at[d] # 1  BY <1>1, <1>2, <1>4, <3>2 DEF Done
    <3> QED BY <3>1, <3>2
  <2> QED BY <1>1, <2>1, <2>2 DEF Grows
<1>6. FirstStepGate'
  <2>1. \A i \in StepIds \ {at[d]} : HasEffect(i)' => HasEffect(i)
      BY <1>1, <1>4 DEF HasEffect
  <2> QED BY <1>2, <1>5, <2>1, GateStays
<1>7. Moves(d) /\ pc'[d] = "record" /\ at'[d] = at[d] /\ held'[d] = Len(children[at[d]]) + 1
    BY <1>0, <1>1, <1>2 DEF TypeOK, Moves, PCs
<1>8. TypeOK'
  BY <1>0, <1>1, <1>4, <1>7 DEF TypeOK, Moves, bounds, Ends
<1>9. SeenTrue(d)'
  <2> SUFFICES ASSUME NEW i \in StepIds PROVE RowTrue(i, seen[d][i])'
      BY DEF SeenTrue
  <2>1. seen[d][i] \in StepRows /\ RowTrue(i, seen[d][i])  BY <1>0 DEF TypeOK, Local, SeenTrue
  <2> QED BY <1>0, <1>1, <1>5, <1>8, <2>1, RowTrueStays DEF RowTrue
<1>10. Local(d)'
    BY <1>1, <1>2, <1>3, <1>4, <1>5, <1>7, <1>9
    DEF Local, Place, Holding, Past, Grows, Inside, Driving, Deciding, Leaving
<1> QED BY <1>0, <1>1, <1>4, <1>5, <1>6, <1>7, <1>10, WorkStep DEF TypeOK

LEMMA EndChildKeepsInv == ASSUME Inv, NEW d \in Drivers, EndChild(d) PROVE Inv'
<1>0. TypeOK /\ Local(d)  BY DEF Inv
<1>1. PICK end \in ChildEnds :
        children' = [children EXCEPT ![at[d]] = [children[at[d]] EXCEPT ![held[d]] = end]]
    BY DEF EndChild, Put
<1> DEFINE ended == [children[at[d]] EXCEPT ![held[d]] = end]
<1>2. /\ pc[d] = "drive" /\ UNCHANGED <<run, steps, met, effects, notices, bounds, pc, locals>>
      /\ children[at[d]][held[d]] = "open"
    BY DEF EndChild, rows
<1>3. /\ at[d] \in StepIds /\ 1 \in StepIds /\ (at[d] > 1 => Done(1)) /\ at[d] \in Nat /\ at[d] >= 1
      /\ children[at[d]] \in Seq(Ends) /\ Len(children[at[d]]) \in Nat
      /\ held[d] \in 1 .. Len(children[at[d]])
    BY <1>2, WorkFacts
<1>4. /\ ended \in Seq(Ends) /\ Len(ended) = Len(children[at[d]])
      /\ DOMAIN ended = 1 .. Len(children[at[d]]) /\ ended[held[d]] = end
      /\ \A c \in 1 .. Len(children[at[d]]) : c # held[d] => ended[c] = children[at[d]][c]
  <2>1. end \in Ends  BY DEF Ends
  <2>2. DOMAIN children[at[d]] = 1 .. Len(children[at[d]])  BY <1>0, <1>3, ChildFacts
  <2>3. ended \in Seq(Ends) /\ Len(ended) = Len(children[at[d]])
      BY <1>3, <2>1, ExceptSeq
  <2> QED BY <1>3, <2>2, <2>3
<1>5. children' = [children EXCEPT ![at[d]] = ended]  BY <1>1
<1> HIDE DEF ended
<1>6. /\ children' \in [StepIds -> Seq(Ends)] /\ children'[at[d]] = ended
      /\ \A i \in StepIds \ {at[d]} : children'[i] = children[i]
  <2>1. children \in [StepIds -> Seq(Ends)]  BY <1>0 DEF TypeOK, Ends
  <2> QED BY <1>3, <1>4, <1>5, <2>1
<1>7. Done(1) => Done(1)'
  <2>1. CASE at[d] # 1  BY <1>2, <1>3, <1>6, <2>1 DEF Done
  <2>2. CASE at[d] = 1
    <3>1. DOMAIN children[1] = 1 .. Len(children[1])  BY <1>0, <1>3, ChildFacts
    <3>2. \A c \in DOMAIN children[1] : children[1][c] = "succeeded" => children'[1][c] = "succeeded"
        BY <1>2, <1>4, <1>6, <2>2, <3>1
    <3> QED BY <1>2, <1>4, <1>6, <2>2, <3>1, <3>2 DEF Done
  <2> QED BY <2>1, <2>2
<1>8. Grows
  <2>1. \A i \in StepIds : Len(children[i]) <= Len(children'[i])
      BY <1>0, <1>3, <1>4, <1>6, ChildFacts
  <2> QED BY <1>2, <1>7, <2>1 DEF Grows
<1>9. FirstStepGate'
  <2>1. \A i \in StepIds \ {at[d]} : HasEffect(i)' => HasEffect(i)
      BY <1>2, <1>6 DEF HasEffect
  <2> QED BY <1>3, <1>8, <2>1, GateStays
<1>10. Moves(d) /\ pc'[d] = pc[d] /\ at'[d] = at[d] /\ held'[d] = held[d] /\ seen'[d] = seen[d] /\ final'[d] = final[d]
    BY <1>0, <1>2 DEF TypeOK, Moves, locals
<1>11. TypeOK'  BY <1>0, <1>2, <1>6, <1>10 DEF TypeOK, Moves, bounds, Ends
<1>12. Local(d)'  BY <1>8, <1>10, <1>11, Keeps
<1> QED BY <1>0, <1>2, <1>6, <1>8, <1>9, <1>10, <1>12, WorkStep DEF TypeOK

LEMMA EffectKeepsInv ==
    ASSUME Inv, NEW d \in Drivers, NEW n \in Nat, n > 0, effects' = [effects EXCEPT ![at[d]] = n],
           Goto(d, "execute", "ok"), UNCHANGED <<run, steps, met, children, notices, bounds, locals>>
    PROVE  Inv'
<1>0. TypeOK /\ Local(d)  BY DEF Inv
<1>1. /\ Moves(d) /\ pc[d] = "execute" /\ pc'[d] = "ok" /\ at'[d] = at[d]
      /\ held'[d] = held[d] /\ seen'[d] = seen[d]
    BY Hopped DEF PCs
<1>2. /\ at[d] \in StepIds /\ 1 \in StepIds /\ at[d] \in Nat /\ at[d] >= 1
      /\ (at[d] > 1 => Done(1)) /\ held[d] = 0 /\ Len(children[at[d]]) \in Nat
    BY <1>1, WorkFacts
<1>3. /\ effects' \in [StepIds -> Nat] /\ effects'[at[d]] = n
      /\ \A i \in StepIds \ {at[d]} : effects'[i] = effects[i]
    BY <1>0, <1>2 DEF TypeOK
<1>4. Done(1)'
  <2>1. CASE at[d] = 1  BY <1>3, <2>1 DEF Done
  <2>2. CASE at[d] # 1  BY <1>2, <1>3, <2>2 DEF Done
  <2> QED BY <2>1, <2>2
<1>5. Grows  BY <1>0, <1>4, ChildFacts DEF Grows
<1>6. FirstStepGate'
  <2>1. \A i \in StepIds \ {at[d]} : HasEffect(i)' => HasEffect(i)  BY <1>3 DEF HasEffect
  <2> QED BY <1>2, <1>5, <2>1, GateStays
<1>7. TypeOK'  BY <1>0, <1>1, <1>3 DEF TypeOK, Moves, bounds
<1>8. SeenTrue(d)'
  <2> SUFFICES ASSUME NEW i \in StepIds PROVE RowTrue(i, seen[d][i])'
      BY DEF SeenTrue
  <2>1. seen[d][i] \in StepRows /\ RowTrue(i, seen[d][i])  BY <1>0 DEF TypeOK, Local, SeenTrue
  <2> QED BY <1>0, <1>1, <1>5, <1>7, <2>1, RowTrueStays DEF RowTrue
<1>9. Local(d)'
    BY <1>1, <1>2, <1>4, <1>8 DEF Local, Place, Holding, Past, Inside, Driving, Deciding, Leaving
<1>10. children' \in [StepIds -> Seq(Ends)]  BY <1>0 DEF TypeOK, Ends
<1> QED BY <1>1, <1>3, <1>5, <1>6, <1>9, <1>10, WorkStep

(* The catch: what the step had begun stays as it is. *)
Trying == {"execute", "record", "drive", "yield", "ok", "halt"}
LEMMA FailKeepsInv ==
    ASSUME Inv, NEW d \in Drivers, NEW from \in Trying, NEW status \in {"FAILED", "CREDIT_BLOCKED"},
           Fail(d, from, status), UNCHANGED <<rows, world, bounds>>
    PROVE  Inv'
<1>0. TypeOK /\ Local(d)  BY DEF Inv
<1>1. /\ pc[d] \in Trying /\ pc' = [pc EXCEPT ![d] = "failed"] /\ at' = at
      /\ seen' = [seen EXCEPT ![d] = NoRows] /\ held' = [held EXCEPT ![d] = 0]
      /\ ctx' = [ctx EXCEPT ![d] = {}] /\ final' = [final EXCEPT ![d] = status]
    BY DEF Fail, Goto, Put
<1>2. at[d] \in StepIds /\ (at[d] > 1 => Done(1))
    BY <1>0, <1>1 DEF Local, Place, Past, Inside, Trying
<1>3. NoRows \in [StepIds -> StepRows]  BY DEF NoRows, NoRow, StepRows, StepStatuses
<1>4. /\ Moves(d) /\ pc'[d] = "failed" /\ final'[d] = status /\ seen'[d] = NoRows
      /\ at'[d] = at[d]
    BY <1>0, <1>1, <1>3 DEF TypeOK, Moves, PCs, RunStatuses, Terminal
<1>5. UNCHANGED <<run, steps, world>> /\ children' \in [StepIds -> Seq(Ends)]
    BY <1>0 DEF rows, world, TypeOK, Ends
<1>6. SeenTrue(d)'  BY <1>4, <1>5, NoRowsTrue
<1>7. Local(d)'
    BY <1>2, <1>4, <1>5, <1>6, WorldStays
    DEF Local, Place, Holding, Past, Inside, Driving, Deciding, Leaving, Terminal
<1> QED BY <1>0, <1>4, <1>5, <1>7, RowStep, RowsTrueStay DEF bounds, TypeOK

LEMMA ReadChildKeepsInv == ASSUME Inv, NEW d \in Drivers, ReadChild(d) PROVE Inv'
<1>0. TypeOK /\ Local(d)  BY DEF Inv
<1>1. /\ \/ children[at[d]][held[d]] = "succeeded" /\ Goto(d, "drive", "ok") /\ UNCHANGED locals
         \/ \E status \in {"FAILED", "CREDIT_BLOCKED"} : Fail(d, "drive", status)
      /\ pc[d] = "drive" /\ UNCHANGED <<rows, world, bounds>>
    BY DEF ReadChild
<1>2. CASE children[at[d]][held[d]] = "succeeded" /\ Goto(d, "drive", "ok") /\ UNCHANGED locals
  <2>1. Moves(d) /\ pc'[d] = "ok" /\ at'[d] = at[d] /\ held'[d] = held[d] /\ seen'[d] = seen[d]
      BY <1>2, Hopped DEF PCs
  <2>2. /\ at[d] \in StepIds /\ 1 \in StepIds /\ (at[d] > 1 => Done(1)) /\ at[d] \in Nat /\ at[d] >= 1
        /\ held[d] \in 1 .. Len(children[at[d]]) /\ Len(children[at[d]]) \in Nat
      BY <1>1, WorkFacts
  <2>3. Done(1)
    <3>1. CASE at[d] = 1
      <4>1. DOMAIN children[1] = 1 .. Len(children[1])  BY <1>0, <2>2, ChildFacts
      <4> QED BY <1>2, <2>2, <3>1, <4>1 DEF Done
    <3>2. CASE at[d] # 1  BY <2>2, <3>2
    <3> QED BY <3>1, <3>2
  <2>4. UNCHANGED <<run, steps, world>>  BY <1>1 DEF rows
  <2>5. Local(d)'
      BY <2>1, <2>2, <2>3, <2>4, SeenStays, WorldStays
      DEF Local, Place, Holding, Past, Inside, Driving, Deciding, Leaving
  <2> QED BY <1>0, <1>1, <2>1, <2>4, <2>5, RowStep, RowsTrueStay DEF bounds, TypeOK
<1>3. ASSUME NEW status \in {"FAILED", "CREDIT_BLOCKED"}, Fail(d, "drive", status) PROVE Inv'
  <2>1. "drive" \in Trying  BY DEF Trying
  <2> QED BY <1>1, <1>3, <2>1, FailKeepsInv
<1> QED BY <1>1, <1>2, <1>3

LEMMA WorkKeepsInv ==
    ASSUME Inv, NEW d \in Drivers
    PROVE  StepThrows(d) \/ Evaluate(d) \/ Draft(d) \/ Save(d) => Inv'
<1>0. TypeOK /\ Local(d)  BY DEF Inv
<1>1. ASSUME StepThrows(d) PROVE Inv'
    BY <1>1, FailKeepsInv DEF StepThrows, Trying
<1>2. ASSUME Evaluate(d) PROVE Inv'
  <2>1. PICK to \in {"ok", "halt"} : Goto(d, "execute", to)  BY <1>2 DEF Evaluate
  <2>2. UNCHANGED <<run, steps, world, bounds, locals>> /\ Workflow[at[d]] = "condition"
      BY <1>2 DEF Evaluate, Executes, Here, rows
  <2>3. /\ Moves(d) /\ pc[d] = "execute" /\ pc'[d] = to /\ at'[d] = at[d]
        /\ held'[d] = held[d] /\ seen'[d] = seen[d]
      BY <2>1, <2>2, Hopped DEF PCs
  <2>4. /\ at[d] \in StepIds /\ held[d] = 0 /\ (at[d] > 1 => Done(1)) /\ Len(children[at[d]]) \in Nat
        /\ at[d] \in Nat /\ at[d] >= 1
      BY <2>3, WorkFacts
  <2>5. at[d] > 1 /\ Done(1)  BY <2>2, <2>4, StepFacts
  <2>6. Local(d)'
      BY <2>2, <2>3, <2>4, <2>5, SeenStays, WorldStays
      DEF Local, Place, Holding, Past, Inside, Driving, Deciding, Leaving
  <2> QED BY <1>0, <2>2, <2>3, <2>6, RowStep, RowsTrueStay DEF bounds, TypeOK
<1>3. ASSUME Draft(d) PROVE Inv'
  <2>1. CASE effects[at[d]] = 0
    <3>1. /\ Goto(d, "execute", "ok") /\ effects' = [effects EXCEPT ![at[d]] = 1]
          /\ UNCHANGED <<run, steps, met, children, notices, bounds, locals>>
        BY <1>3, <2>1 DEF Draft, Put, rows
    <3>2. 1 \in Nat /\ 1 > 0  OBVIOUS
    <3> QED BY <3>1, <3>2, EffectKeepsInv
  <2>2. CASE effects[at[d]] # 0
    <3>1. Fail(d, "execute", "FAILED") /\ UNCHANGED <<rows, world, bounds>>
        BY <1>3, <2>2 DEF Draft, world
    <3> QED BY <3>1, FailKeepsInv DEF Trying
  <2> QED BY <2>1, <2>2
<1>4. ASSUME Save(d) PROVE Inv'
  <2>1. /\ Goto(d, "execute", "ok") /\ effects' = [effects EXCEPT ![at[d]] = effects[at[d]] + 1]
        /\ UNCHANGED <<run, steps, met, children, notices, bounds, locals>>
      BY <1>4 DEF Save, Put, rows
  <2>2. pc[d] = "execute"  BY <2>1 DEF Goto
  <2>3. effects[at[d]] \in Nat  BY <1>0, <2>2, WorkFacts DEF TypeOK
  <2>4. effects[at[d]] + 1 \in Nat /\ effects[at[d]] + 1 > 0  BY <2>3
  <2> QED BY <2>1, <2>4, EffectKeepsInv
<1> QED BY <1>1, <1>2, <1>3, <1>4

LEMMA ChildKeepsInv ==
    ASSUME Inv, NEW d \in Drivers
    PROVE  RecordChild(d) \/ ResumeChild(d) \/ DriveOut(d) \/ Yield(d) => Inv'
<1>0. TypeOK /\ Local(d)  BY DEF Inv
<1>1. ASSUME RecordChild(d) PROVE Inv'
  <2> DEFINE row == [steps[at[d]] EXCEPT !.child = held[d]]
  <2>1. /\ Goto(d, "record", "drive") /\ SetStep(d, row)
        /\ UNCHANGED <<run, world, bounds, locals>>
      BY <1>1 DEF RecordChild
  <2>2. /\ Moves(d) /\ pc[d] = "record" /\ pc'[d] = "drive" /\ at'[d] = at[d]
        /\ held'[d] = held[d] /\ seen'[d] = seen[d]
      BY <2>1, Hopped DEF PCs
  <2>3. /\ at[d] \in StepIds /\ (at[d] > 1 => Done(1)) /\ held[d] \in Nat
        /\ held[d] >= 1 /\ held[d] <= Len(children[at[d]])
      BY <1>0, <2>2 DEF Local, Place, Holding, Past, Inside, Driving, TypeOK
  <2>4. /\ row \in StepRows /\ row.status = steps[at[d]].status /\ row.child = held[d]
        /\ RowTrue(at[d], steps[at[d]])
      BY <1>0, <2>3 DEF TypeOK, StepRows, Inv, RowsTrue
  <2> HIDE DEF row
  <2>5. RowTrue(at[d], row)  BY <2>3, <2>4 DEF RowTrue
  <2>6. steps' \in [StepIds -> StepRows] /\ RowsTrue'  BY <2>1, <2>3, <2>4, <2>5, RowSet
  <2>7. Local(d)'
      BY <2>1, <2>2, <2>3, SeenStays, WorldStays
      DEF Local, Place, Holding, Past, Inside, Driving, Deciding, Leaving
  <2> QED BY <1>0, <2>1, <2>2, <2>6, <2>7, RowStep DEF bounds, TypeOK
<1>2. ASSUME ResumeChild(d) PROVE Inv'
  <2>1. /\ pc[d] = "execute" /\ pc' = [pc EXCEPT ![d] = "drive"]
        /\ held' = [held EXCEPT ![d] = seen[d][at[d]].child] /\ seen[d][at[d]].child # 0
        /\ UNCHANGED <<run, steps, world, bounds, at, seen, ctx, final>>
      BY <1>2 DEF ResumeChild, Executes, Goto, Put, rows
  <2>2. at[d] \in StepIds /\ (at[d] > 1 => Done(1))  BY <2>1, WorkFacts
  <2>3. seen[d][at[d]] \in StepRows /\ RowTrue(at[d], seen[d][at[d]])
      BY <1>0, <2>2 DEF TypeOK, Local, SeenTrue
  <2>4. /\ seen[d][at[d]].child \in Nat /\ seen[d][at[d]].child >= 1
        /\ seen[d][at[d]].child <= Len(children[at[d]])
      BY <2>1, <2>3 DEF StepRows, RowTrue
  <2>5. Moves(d) /\ pc'[d] = "drive" /\ held'[d] = seen[d][at[d]].child
      BY <1>0, <2>1, <2>4 DEF TypeOK, Moves, PCs
  <2>6. Local(d)'
      BY <2>1, <2>2, <2>4, <2>5, SeenStays, WorldStays
      DEF Local, Place, Holding, Past, Inside, Driving, Deciding, Leaving
  <2> QED BY <1>0, <2>1, <2>5, <2>6, RowStep, RowsTrueStay DEF bounds, TypeOK
<1>3. ASSUME DriveOut(d) PROVE Inv'
  <2>1. Goto(d, "drive", "yield") /\ yields' = yields + 1
        /\ UNCHANGED <<run, steps, world, canceller, crashes, locals>>
      BY <1>3 DEF DriveOut, rows
  <2>2. /\ Moves(d) /\ pc[d] = "drive" /\ pc'[d] = "yield" /\ at'[d] = at[d]
        /\ held'[d] = held[d] /\ seen'[d] = seen[d]
      BY <2>1, Hopped DEF PCs
  <2>3. Local(d)'
      BY <1>0, <2>1, <2>2, SeenStays, WorldStays
      DEF Local, Place, Holding, Past, Inside, Driving, Deciding, Leaving
  <2>4. /\ yields' \in Nat /\ crashes' \in Nat /\ UNCHANGED canceller
        /\ steps' \in [StepIds -> StepRows]
      BY <1>0, <2>1 DEF TypeOK
  <2> QED BY <2>1, <2>2, <2>3, <2>4, RowStep, RowsTrueStay
<1>4. ASSUME Yield(d) PROVE Inv'
  <2> DEFINE row == [status |-> "RUNNING", child |-> held[d]]
  <2>1. /\ pc[d] = "yield" /\ Return(d, "yield") /\ SetStep(d, row)
        /\ UNCHANGED <<run, world, bounds>>
      BY <1>4 DEF Yield
  <2>2. at[d] \in StepIds /\ held[d] \in Nat /\ held[d] <= Len(children[at[d]])
      BY <1>0, <2>1 DEF Local, Place, Holding, Inside, Driving, TypeOK
  <2>3. row \in StepRows /\ RowTrue(at[d], row)  BY <2>2 DEF StepRows, StepStatuses, RowTrue
  <2> HIDE DEF row
  <2>4. steps' \in [StepIds -> StepRows] /\ RowsTrue'  BY <2>1, <2>2, <2>3, RowSet
  <2>5. children' \in [StepIds -> Seq(Ends)]  BY <1>0, <2>1 DEF world, TypeOK, Ends
  <2> QED BY <1>0, <2>1, <2>4, <2>5, Returned, RowStep DEF bounds, TypeOK
<1> QED BY <1>1, <1>2, <1>3, <1>4

-----------------------------------------------------------------------------
LEMMA StepOkKeepsInv == ASSUME Inv, NEW d \in Drivers, StepOk(d) PROVE Inv'
<1>0. TypeOK /\ Local(d)  BY DEF Inv
<1> DEFINE row == [status |-> "OK", child |-> held[d]]
<1>1. /\ GoOnAt(d, "ok", at[d] + 1, seen[d]) /\ SetStep(d, row)
      /\ held' = [held EXCEPT ![d] = 0] /\ ctx' = Put(ctx, d, ctx[d] \cup {at[d]})
      /\ UNCHANGED <<run, world, bounds, seen>>
    BY DEF StepOk, Put
<1>2. at[d] + 1 \in Nat \ {0}  BY <1>0 DEF TypeOK
<1>3. /\ pc[d] = "ok"
      /\ \/ /\ pc' = [pc EXCEPT ![d] = "finalize"] /\ at' = at
            /\ \E s \in {"SUCCEEDED", "FAILED"} : final' = [final EXCEPT ![d] = s]
         \/ /\ pc' = [pc EXCEPT ![d] = "check"] /\ final' = final
            /\ \E n \in StepIds : at' = [at EXCEPT ![d] = n]
    BY <1>1, <1>2, GoOnEnds
<1>4. at[d] \in StepIds /\ Done(1) /\ held[d] \in Nat /\ held[d] <= Len(children[at[d]])
    BY <1>0, <1>3 DEF Local, Place, Holding, Past, Inside, TypeOK
<1>5. row \in StepRows /\ RowTrue(at[d], row)  BY <1>4 DEF StepRows, StepStatuses, RowTrue
<1> HIDE DEF row
<1>6. steps' \in [StepIds -> StepRows] /\ RowsTrue'  BY <1>1, <1>4, <1>5, RowSet
<1>7. /\ held' \in [Drivers -> Nat] /\ held'[d] = 0 /\ (\A e \in Drivers \ {d} : held'[e] = held[e])
      /\ ctx' \in [Drivers -> SUBSET StepIds] /\ seen' = seen
    BY <1>0, <1>1, <1>4 DEF TypeOK, Put
<1>8. SeenTrue(d)'  BY <1>1, SeenStays
<1>9. CASE pc' = [pc EXCEPT ![d] = "finalize"] /\ at' = at
           /\ \E s \in {"SUCCEEDED", "FAILED"} : final' = [final EXCEPT ![d] = s]
  <2>1. Moves(d) /\ pc'[d] = "finalize" /\ final'[d] \in Terminal \ {"CONDITION_HALTED"}
      BY <1>0, <1>7, <1>9 DEF Moves, TypeOK, PCs, RunStatuses, Terminal
  <2>2. Local(d)'  BY <1>8, <2>1 DEF Local, Place, Holding, Past, Inside, Driving, Deciding, Leaving
  <2> QED BY <1>0, <1>1, <1>6, <2>1, <2>2, RowStep DEF bounds, TypeOK
<1>10. ASSUME pc' = [pc EXCEPT ![d] = "check"], final' = final,
              NEW n \in StepIds, at' = [at EXCEPT ![d] = n]
       PROVE  Inv'
  <2>1. Moves(d) /\ pc'[d] = "check" /\ at'[d] = n
      BY <1>0, <1>7, <1>10, StepFacts DEF Moves, TypeOK, PCs
  <2>2. Local(d)'
      BY <1>1, <1>4, <1>7, <1>8, <2>1, WorldStays
      DEF Local, Place, Holding, Past, Inside, Driving, Deciding, Leaving
  <2> QED BY <1>0, <1>1, <1>6, <2>1, <2>2, RowStep DEF bounds, TypeOK
<1> QED BY <1>3, <1>9, <1>10

(* A halt or a failure: the step's own row, then everything behind it. *)
LEMMA StopKeepsInv ==
    ASSUME Inv, NEW d \in Drivers, NEW from, NEW status \in {"OK", "FAILED"}, NEW end \in Terminal,
           pc[d] \in {"halt", "failed"}, pc[d] = "halt" \/ status = "FAILED",
           SkipFrom(d, from, at[d] + 1, end), StepStatus(d, status),
           NEW h \in Nat, held' = [held EXCEPT ![d] = h],
           end = "CONDITION_HALTED" => pc[d] = "halt" /\ h = at[d],
           UNCHANGED <<run, world, bounds, seen, ctx>>
    PROVE  Inv'
<1>0. TypeOK /\ Local(d)  BY DEF Inv
<1>1. /\ at[d] \in StepIds /\ at[d] \in Nat /\ at[d] >= 1 /\ (status = "OK" => at[d] > 1)
      /\ end = "CONDITION_HALTED" => at[d] > 1 /\ Done(1) /\ h = at[d]
    BY <1>0, StepFacts DEF Local, Place, Past, Inside
<1>2. steps' \in [StepIds -> StepRows] /\ RowsTrue'  BY <1>1, StatusSet DEF StepStatuses
<1>3. /\ pc' = [pc EXCEPT ![d] = "skip"] /\ at' = [at EXCEPT ![d] = at[d] + 1]
      /\ final' = [final EXCEPT ![d] = end]
    BY DEF SkipFrom, Goto, Put
<1>4. Moves(d) /\ pc'[d] = "skip" /\ at'[d] = at[d] + 1 /\ final'[d] = end /\ held'[d] = h
    BY <1>0, <1>1, <1>3 DEF TypeOK, Moves, PCs, RunStatuses
<1>5. at'[d] > 1  BY <1>1, <1>4
<1>6. SeenTrue(d)'  BY SeenStays
<1>7. Local(d)'
    BY <1>4, <1>5, <1>6, <1>0, <1>1, WorldStays DEF Local, Place, Holding, Past, Inside, Driving, Deciding, Leaving
<1> QED BY <1>0, <1>2, <1>4, <1>7, RowStep DEF bounds, TypeOK

LEMMA StopsKeepInv ==
    ASSUME Inv, NEW d \in Drivers
    PROVE  StepHalts(d) \/ StepFails(d) \/ HaltThrows(d) => Inv'
<1>0. TypeOK /\ Local(d)  BY DEF Inv
<1>1. ASSUME StepHalts(d) PROVE Inv'
  <2>1. /\ SkipFrom(d, "halt", at[d] + 1, "CONDITION_HALTED") /\ StepStatus(d, "OK")
        /\ held' = [held EXCEPT ![d] = at[d]] /\ UNCHANGED <<run, world, bounds, seen, ctx>>
      BY <1>1 DEF StepHalts, Put
  <2>2. pc[d] = "halt" /\ "CONDITION_HALTED" \in Terminal /\ at[d] \in Nat
      BY <1>0, <2>1 DEF SkipFrom, Goto, Terminal, TypeOK
  <2> QED BY <2>1, <2>2, StopKeepsInv
<1>2. ASSUME StepFails(d) PROVE Inv'
  <2>1. /\ SkipFrom(d, "failed", at[d] + 1, final[d]) /\ StepStatus(d, "FAILED")
        /\ UNCHANGED <<run, world, bounds, seen, held, ctx>>
      BY <1>2 DEF StepFails
  <2>2. pc[d] = "failed"  BY <2>1 DEF SkipFrom, Goto
  <2>3. final[d] \in Terminal /\ final[d] # "CONDITION_HALTED"
      BY <2>2 DEF Inv, Local, Place, Deciding
  <2>4. held[d] \in Nat /\ held' = [held EXCEPT ![d] = held[d]]  BY <1>0, <2>1 DEF TypeOK
  <2> QED BY <2>1, <2>2, <2>3, <2>4, StopKeepsInv
<1>3. ASSUME HaltThrows(d) PROVE Inv'
  <2>1. /\ pc[d] \in Leaving /\ final[d] = "CONDITION_HALTED"
        /\ pc' = [pc EXCEPT ![d] = "failed"] /\ at' = [at EXCEPT ![d] = held[d]]
        /\ held' = [held EXCEPT ![d] = 0] /\ final' = [final EXCEPT ![d] = "FAILED"]
        /\ UNCHANGED <<run, steps, world, bounds, seen, ctx>>
      BY <1>3 DEF HaltThrows, Goto, Put, Leaving, rows
  <2>2. held[d] \in StepIds /\ held[d] \in Nat /\ Done(1)
      BY <1>0, <2>1 DEF Local, Holding, Past, TypeOK
  <2>3. /\ Moves(d) /\ pc'[d] = "failed" /\ at'[d] = held[d] /\ seen'[d] = seen[d]
        /\ final'[d] = "FAILED"
      BY <1>0, <2>1, <2>2 DEF TypeOK, Moves, PCs, RunStatuses, Terminal
  <2>4. Local(d)'
      BY <2>1, <2>2, <2>3, SeenStays, WorldStays
      DEF Local, Place, Holding, Past, Inside, Driving, Deciding, Leaving, Terminal
  <2> QED BY <1>0, <2>1, <2>3, <2>4, RowStep, RowsTrueStay DEF bounds, TypeOK
<1> QED BY <1>1, <1>2, <1>3

LEMMA SkipsKeepInv ==
    ASSUME Inv, NEW d \in Drivers
    PROVE  SkipRead(d) \/ SkipNext(d) \/ Crash(d) => Inv'
<1>0. TypeOK /\ Local(d)  BY DEF Inv
<1>1. ASSUME SkipRead(d) PROVE Inv'
  <2>1. /\ pc[d] = "skip" /\ pc' = [pc EXCEPT ![d] = "skipping"] /\ seen' = [seen EXCEPT ![d] = steps]
        /\ UNCHANGED <<run, steps, world, bounds, at, held, ctx, final>>
      BY <1>1 DEF SkipRead, Goto, Put, rows
  <2>2. Moves(d) /\ pc'[d] = "skipping" /\ seen'[d] = steps
      BY <1>0, <2>1 DEF TypeOK, Moves, PCs
  <2>3. RowsTrue'  BY <2>1, RowsTrueStay
  <2>4. SeenTrue(d)'  BY <2>1, <2>2, <2>3 DEF SeenTrue, RowsTrue, RowTrue
  <2>5. Local(d)'
      BY <1>0, <2>1, <2>2, <2>4, WorldStays
      DEF Local, Place, Holding, Past, Inside, Driving, Deciding, Leaving
  <2> QED BY <1>0, <2>1, <2>2, <2>3, <2>5, RowStep DEF bounds, TypeOK
<1>2. ASSUME SkipNext(d) PROVE Inv'
  <2>1. /\ pc[d] = "skipping" /\ UNCHANGED <<run, world, bounds, seen, held, ctx, final>>
        /\ final[d] \in Terminal /\ at[d] \in Nat /\ at[d] >= 1 /\ (at[d] = 1 => run.cancel)
        /\ final[d] = "CONDITION_HALTED" => held[d] \in StepIds /\ held[d] > 1 /\ Done(1)
    <3>1. pc[d] = "skipping"  BY <1>2 DEF SkipNext
    <3> QED BY <1>0, <1>2, <3>1
        DEF SkipNext, Local, Place, Holding, Past, Deciding, Leaving, TypeOK
  <2>2. SeenTrue(d)'  BY <2>1, SeenStays
  <2>3. CASE at[d] > Len(Workflow)
    <3>1. pc' = [pc EXCEPT ![d] = "finalize"] /\ UNCHANGED <<steps, at>>
        BY <1>2, <2>3 DEF SkipNext, Goto
    <3>2. Moves(d) /\ pc'[d] = "finalize"  BY <1>0, <2>1, <3>1 DEF TypeOK, Moves, PCs
    <3>3. Local(d)'
        BY <2>1, <2>2, <3>2, WorldStays
        DEF Local, Place, Holding, Past, Inside, Driving, Deciding, Leaving
    <3> QED BY <1>0, <2>1, <3>1, <3>2, <3>3, RowStep, RowsTrueStay DEF bounds, TypeOK
  <2>4. CASE ~ (at[d] > Len(Workflow))
    <3>1. at[d] \in StepIds  BY <2>1, <2>4, StepFacts DEF StepIds
    <3>2. /\ pc' = pc /\ at' = [at EXCEPT ![d] = at[d] + 1]
          /\ UNCHANGED steps \/ StepStatus(d, "SKIPPED")
        BY <1>2, <2>4 DEF SkipNext, Put
    <3>3. steps' \in [StepIds -> StepRows] /\ RowsTrue'
      <4>1. CASE UNCHANGED steps  BY <1>0, <2>1, <4>1, RowsTrueStay DEF TypeOK
      <4>2. CASE StepStatus(d, "SKIPPED")
        BY <2>1, <3>1, <4>2, StatusSet DEF StepStatuses
      <4> QED BY <3>2, <4>1, <4>2
    <3>4. Moves(d) /\ pc'[d] = "skipping" /\ at'[d] = at[d] + 1
        BY <1>0, <2>1, <3>2 DEF TypeOK, Moves
    <3>5. at'[d] > 1  BY <2>1, <3>4
    <3>6. Local(d)'
        BY <2>1, <2>2, <3>4, <3>5, WorldStays
        DEF Local, Place, Holding, Past, Inside, Driving, Deciding, Leaving
    <3> QED BY <1>0, <2>1, <3>3, <3>4, <3>6, RowStep DEF bounds, TypeOK
  <2> QED BY <2>3, <2>4
<1>3. ASSUME Crash(d) PROVE Inv'
  <2>1. /\ Return(d, pc[d]) /\ crashes' = crashes + 1
        /\ UNCHANGED <<run, steps, world, canceller, yields>>
      BY <1>3 DEF Crash, rows
  <2>2. children' \in [StepIds -> Seq(Ends)]  BY <1>0, <2>1 DEF world, TypeOK, Ends
  <2>3. /\ yields' \in Nat /\ crashes' \in Nat /\ steps' \in [StepIds -> StepRows]
        /\ UNCHANGED <<run, steps, world, canceller>>
      BY <1>0, <2>1 DEF TypeOK
  <2> QED BY <1>0, <2>1, <2>2, <2>3, Returned, RowStep, RowsTrueStay
<1> QED BY <1>1, <1>2, <1>3

-----------------------------------------------------------------------------
(* What a change of the run's row leaves true. *)
LEMMA RunChanges ==
    ASSUME Inv, UNCHANGED <<steps, children, effects>>, run.cancel => run'.cancel
    PROVE  /\ Grows /\ RowsTrue' /\ FirstStepGate'
           /\ \A d \in Drivers : seen'[d] = seen[d] => SeenTrue(d)'
<1>1. \A i \in StepIds : Len(children[i]) \in Nat  BY ChildFacts DEF Inv
<1>2. Grows  BY <1>1 DEF Grows, Done
<1>3. RowsTrue'  BY DEF Inv, RowsTrue, RowTrue, Done
<1>4. FirstStepGate'  BY DEF Inv, FirstStepGate, HasEffect, Done
<1>5. \A d \in Drivers : seen'[d] = seen[d] => SeenTrue(d)'
    BY DEF Inv, Local, SeenTrue, RowTrue, Done
<1> QED BY <1>2, <1>3, <1>4, <1>5

LEMMA ClaimRunKeepsInv == ASSUME Inv, NEW d \in Drivers, ClaimRun(d) PROVE Inv'
<1>0. TypeOK /\ Local(d)  BY DEF Inv
<1>1. UNCHANGED <<steps, world, bounds, locals>>  BY DEF ClaimRun
<1>2. PICK to \in {"snapshot", "reread"} : Goto(d, "claim", to)  BY DEF ClaimRun
<1>3. /\ run' \in [status : RunStatuses, cancel : BOOLEAN] /\ run'.cancel = run.cancel
      /\ (run'.status = run.status \/ (run.status \notin Terminal /\ run'.status \notin Terminal))
  <2>1. CASE run.status = "QUEUED"
    <3>1. run' = [run EXCEPT !.status = "RUNNING"]  BY <2>1 DEF ClaimRun
    <3> QED BY <1>0, <2>1, <3>1 DEF TypeOK, RunStatuses, Terminal
  <2>2. CASE run.status # "QUEUED"
    <3>1. run' = run  BY <2>2 DEF ClaimRun
    <3> QED BY <1>0, <3>1 DEF TypeOK
  <2> QED BY <2>1, <2>2
<1>4. /\ Moves(d) /\ pc[d] = "claim" /\ pc'[d] = to /\ at'[d] = at[d]
      /\ held'[d] = held[d] /\ seen'[d] = seen[d]
    BY <1>1, <1>2, Hopped DEF PCs
<1>5. TypeOK'  BY <1>0, <1>1, <1>3, <1>4 DEF TypeOK, Moves, world, bounds
<1>6. Grows /\ RowsTrue' /\ FirstStepGate' /\ SeenTrue(d)'  BY <1>1, <1>3, <1>4, RunChanges DEF world
<1>7. Local(d)'
    BY <1>0, <1>4, <1>6 DEF Local, Place, Holding, Past, Inside, Driving, Deciding, Leaving
<1>8. \A e \in Drivers : Local(e)'  BY <1>4, <1>5, <1>6, <1>7, OthersKeep
<1>9. OneNotice'
  <2>1. /\ notices' = notices /\ pc'[d] # "notify"
        /\ \A e \in Drivers \ {d} : pc'[e] = pc[e]
      BY <1>1, <1>4 DEF world, Moves
  <2>2. run'.status \in Terminal <=> run.status \in Terminal  BY <1>3
  <2> QED BY <2>1, <2>2 DEF Inv, OneNotice, NotifiedOnce
<1> QED BY <1>5, <1>6, <1>8, <1>9 DEF Inv

LEMMA CloseKeepsInv ==
    ASSUME Inv, NEW d \in Drivers
    PROVE  Finalize(d) \/ Notify(d) => Inv'
<1>0. TypeOK /\ Local(d)  BY DEF Inv
<1>1. ASSUME Finalize(d) PROVE Inv'
  <2>1. UNCHANGED <<steps, world, bounds>>  BY <1>1 DEF Finalize
  <2>2. CASE run.status \notin Terminal
    <3>1. /\ Goto(d, "finalize", "notify") /\ UNCHANGED locals
          /\ run' = [run EXCEPT !.status = final[d]]
        BY <1>1, <2>2 DEF Finalize
    <3>2. /\ Moves(d) /\ pc[d] = "finalize" /\ pc'[d] = "notify" /\ at'[d] = at[d]
          /\ held'[d] = held[d] /\ seen'[d] = seen[d] /\ final'[d] = final[d]
        BY <3>1, Hopped DEF PCs
    <3>3. /\ final[d] \in Terminal
          /\ final[d] = "CONDITION_HALTED" => held[d] \in StepIds /\ held[d] > 1 /\ Done(1)
        BY <1>0, <3>2 DEF Local, Place, Holding, Past, Deciding, Leaving
    <3>4. /\ run' \in [status : RunStatuses, cancel : BOOLEAN] /\ run'.cancel = run.cancel
          /\ run'.status \in Terminal
        BY <1>0, <3>1, <3>3 DEF TypeOK, RunStatuses
    <3>5. TypeOK'  BY <1>0, <2>1, <3>2, <3>4 DEF TypeOK, Moves, world, bounds
    <3>6. Grows /\ RowsTrue' /\ FirstStepGate' /\ SeenTrue(d)'
        BY <2>1, <3>2, <3>4, RunChanges DEF world
    <3>d. Done(1)' <=> Done(1)  BY <2>1 DEF Done, world
    <3>7. Local(d)'
        BY <3>2, <3>3, <3>6, <3>d DEF Local, Place, Holding, Past, Inside, Driving, Deciding, Leaving
    <3>8. \A e \in Drivers : Local(e)'  BY <3>2, <3>5, <3>6, <3>7, OthersKeep
    <3>9. OneNotice'
      <4>1. notices = 0 /\ notices' = notices /\ \A e \in Drivers : pc[e] # "notify"
          BY <2>1, <2>2 DEF Inv, OneNotice, world
      <4> QED BY <3>2, <3>4, <4>1 DEF OneNotice, NotifiedOnce, Moves
    <3> QED BY <3>5, <3>6, <3>8, <3>9 DEF Inv
  <2>3. CASE run.status \in Terminal
    <3>1. Return(d, "finalize") /\ UNCHANGED run  BY <1>1, <2>3 DEF Finalize
    <3>2. children' \in [StepIds -> Seq(Ends)]  BY <1>0, <2>1 DEF world, TypeOK, Ends
    <3> QED BY <1>0, <2>1, <3>1, <3>2, Returned, RowStep, RowsTrueStay DEF bounds, TypeOK
  <2> QED BY <2>2, <2>3
<1>2. ASSUME Notify(d) PROVE Inv'
  <2>1. /\ pc[d] = "notify" /\ Return(d, "notify") /\ notices' \in {notices, notices + 1}
        /\ UNCHANGED <<run, steps, met, children, effects, bounds>>
      BY <1>2 DEF Notify, Return, Goto, rows
  <2>2. children' \in [StepIds -> Seq(Ends)]  BY <1>0, <2>1 DEF TypeOK, Ends
  <2>3. Moves(d) /\ Local(d)' /\ pc'[d] = "idle"  BY <1>0, <2>1, <2>2, Returned
  <2>4. notices = 0 /\ run.status \in Terminal /\ \A e \in Drivers \ {d} : pc[e] # "notify"
      BY <2>1 DEF Inv, OneNotice
  <2>5. TypeOK'  BY <1>0, <2>1, <2>3, <2>4 DEF TypeOK, Moves, bounds
  <2>6. Grows /\ RowsTrue' /\ FirstStepGate'  BY <2>1, RunChanges
  <2>7. \A e \in Drivers : Local(e)'  BY <2>3, <2>5, <2>6, OthersKeep
  <2>8. OneNotice'
    <3>1. \A e \in Drivers : pc'[e] # "notify"  BY <2>3, <2>4 DEF Moves
    <3>2. notices' \in {0, 1} /\ run'.status \in Terminal  BY <2>1, <2>4
    <3>3. notices' <= 1  BY <3>2
    <3> QED BY <3>1, <3>2, <3>3 DEF OneNotice, NotifiedOnce
  <2> QED BY <2>5, <2>6, <2>7, <2>8 DEF Inv
<1> QED BY <1>1, <1>2

LEMMA CancelKeepsInv == ASSUME Inv, CancelRead \/ CancelPatch PROVE Inv'
<1>0. TypeOK  BY DEF Inv
<1>1. /\ UNCHANGED <<steps, world, pc, at, seen, held, ctx, final, yields, crashes>>
      /\ canceller' \in {"done", "QUEUED", "RUNNING"}
      /\ run' \in [status : RunStatuses, cancel : BOOLEAN] /\ (run.cancel => run'.cancel)
      /\ run'.status = run.status \/ run'.status = "CANCELLED"
  <2>1. CASE CancelRead
    <3>1. run.status \in {"QUEUED", "RUNNING"}  BY <1>0, <2>1 DEF CancelRead, TypeOK, RunStatuses
    <3> QED BY <1>0, <2>1, <3>1 DEF CancelRead, rows, locals, TypeOK
  <2>2. CASE CancelPatch
    BY <1>0, <2>2 DEF CancelPatch, locals, TypeOK, RunStatuses, Terminal
  <2> QED BY <2>1, <2>2
<1>2. TypeOK'  BY <1>0, <1>1 DEF TypeOK, world
<1>3. Grows /\ RowsTrue' /\ FirstStepGate'  BY <1>1, RunChanges DEF world
<1>4. \A e \in Drivers : Local(e)'  BY <1>1, <1>2, <1>3, Keeps
<1>5. "CANCELLED" \in Terminal  BY DEF Terminal
<1>6. OneNotice'  BY <1>1, <1>5 DEF Inv, OneNotice, NotifiedOnce, world
<1> QED BY <1>2, <1>3, <1>4, <1>6 DEF Inv

-----------------------------------------------------------------------------
LEMMA InvInit == Init => Inv
<1> SUFFICES ASSUME Init PROVE Inv  OBVIOUS
<1>1. NoRows \in [StepIds -> StepRows] /\ \A i \in StepIds : NoRows[i].child = 0 /\ NoRows[i].status = "none"
    BY DEF NoRows, NoRow, StepRows, StepStatuses
<1>2. <<>> \in Seq(ChildEnds \cup {"open"}) /\ Len(<<>>) = 0  BY EmptySeq
<1>3. TypeOK
    BY <1>1, <1>2 DEF Init, TypeOK, RunStatuses, OfKind, PCs
<1>4. \A i \in StepIds : Len(children[i]) = 0 /\ children[i] = <<>> /\ effects[i] = 0
    BY <1>2 DEF Init
<1>5. RowsTrue  BY <1>1, <1>4 DEF Init, RowsTrue, RowTrue
<1>6. \A d \in Drivers : Local(d)
  <2> SUFFICES ASSUME NEW d \in Drivers PROVE Local(d)  OBVIOUS
  <2>1. pc[d] = "idle" /\ seen[d] = NoRows /\ held[d] = 0  BY DEF Init
  <2>2. SeenTrue(d)  BY <1>1, <1>4, <2>1 DEF SeenTrue, RowTrue
  <2> QED BY <2>1, <2>2 DEF Local, Place, Holding, Past, Inside, Driving, Deciding, Leaving
<1>7. OneNotice  BY DEF Init, OneNotice, NotifiedOnce
<1>8. FirstStepGate  BY <1>4 DEF FirstStepGate, HasEffect
<1> QED BY <1>3, <1>5, <1>6, <1>7, <1>8 DEF Inv

LEMMA InvNext == Inv /\ [Next]_vars => Inv'
<1> SUFFICES ASSUME Inv, [Next]_vars PROVE Inv'  OBVIOUS
<1>1. CASE UNCHANGED vars
  <2>1. UNCHANGED <<run, steps, world, bounds, pc, at, seen, held, ctx, final>>
      BY <1>1 DEF vars, world, bounds
  <2>2. TypeOK'  BY <1>1 DEF vars, Inv, TypeOK
  <2>3. Grows /\ RowsTrue' /\ FirstStepGate'  BY <2>1, RunChanges DEF world
  <2>4. \A d \in Drivers : Local(d)'  BY <2>1, <2>2, <2>3, Keeps
  <2>5. OneNotice'  BY <2>1 DEF Inv, OneNotice, NotifiedOnce, world
  <2> QED BY <2>2, <2>3, <2>4, <2>5 DEF Inv
<1>2. ASSUME NEW d \in Drivers, Drive(d) PROVE Inv'
  <2>1. CASE Begin(d)  BY <2>1, BeginKeepsInv, ClaimRunKeepsInv DEF Begin
  <2>2. CASE Enter(d)  BY <2>2, EnterKeepsInv DEF Enter
  <2>3. CASE Work(d)
      BY <2>3, WorkKeepsInv, ChildKeepsInv, StartChildKeepsInv, EndChildKeepsInv, ReadChildKeepsInv
      DEF Work, Child
  <2>4. CASE Finish(d)  BY <2>4, StepOkKeepsInv, StopsKeepInv, SkipsKeepInv DEF Finish
  <2>5. CASE Close(d)  BY <2>5, CloseKeepsInv DEF Close
  <2> QED BY <1>2, <2>1, <2>2, <2>3, <2>4, <2>5 DEF Drive
<1>3. ASSUME NEW d \in Drivers, Crash(d) PROVE Inv'  BY <1>3, SkipsKeepInv
<1>4. CASE CancelRead \/ CancelPatch  BY <1>4, CancelKeepsInv
<1> QED BY <1>1, <1>2, <1>3, <1>4 DEF Next

THEOREM Invariance == Spec => []Inv
BY InvInit, InvNext, PTL DEF Spec

(* The rows of a run and the locals of its drivers keep their types, whatever *)
(* the workflow and however many drive, die or cancel.                        *)
THEOREM TypeCorrect == Spec => []TypeOK
<1>1. Inv => TypeOK  BY DEF Inv
<1> QED BY <1>1, Invariance, PTL

(* The owner of a run is notified at most once: finalize() of dispatcher.ts   *)
(* notifies only for the invocation that made the run terminal, and no claim, *)
(* cancellation or crash makes it active again.                               *)
THEOREM OwnerNotifiedOnce == Spec => []NotifiedOnce
<1>1. Inv => NotifiedOnce  BY DEF Inv, OneNotice
<1> QED BY <1>1, Invariance, PTL

(* No step of dispatchAutomationRun() has effects before the first step of    *)
(* the workflow has done its work, in any overlap, crash or cancellation.     *)
THEOREM FirstStepFirst == Spec => []FirstStepGate
<1>1. Inv => FirstStepGate  BY DEF Inv
<1> QED BY <1>1, Invariance, PTL

-----------------------------------------------------------------------------
(* Who writes the run's row: the claim, the end, and the owner.               *)
LEMMA RunIsWrittenBy ==
    ASSUME NEW d \in Drivers, Drive(d) \/ Crash(d)
    PROVE  ClaimRun(d) \/ Finalize(d) \/ run' = run
<1>1. Begin(d) => ClaimRun(d) \/ run' = run  BY DEF Begin, Load, Reread, Snapshot, rows
<1>2. Enter(d) => run' = run
    BY DEF Enter, CheckCancel, AppendStep, ClaimStep, MarkRunning, rows
<1>3. Child(d) => run' = run
    BY DEF Child, StartChild, RecordChild, ResumeChild, EndChild, ReadChild, DriveOut, Yield, rows
<1>4. Work(d) => run' = run  BY <1>3 DEF Work, StepThrows, Evaluate, Draft, Save, rows
<1>5. Finish(d) => run' = run
    BY DEF Finish, StepOk, StepHalts, HaltThrows, StepFails, SkipRead, SkipNext, rows
<1>6. Close(d) => Finalize(d) \/ run' = run  BY DEF Close, Notify, rows
<1>7. Crash(d) => run' = run  BY DEF Crash, rows
<1> QED BY <1>1, <1>2, <1>4, <1>5, <1>6, <1>7 DEF Drive

(* The end of a run is rewritten by nobody but an owner whose cancellation    *)
(* had read it QUEUED, and only to CANCELLED (run-dispatch.ts:247), whatever  *)
(* the workflow and however many drive, die or cancel.                        *)
THEOREM EndsAreKeptHolds == Spec => EndsAreKept
<1> DEFINE Kept == (run.status \in Terminal /\ run'.status # run.status)
                       => (run'.status = "CANCELLED" /\ canceller = "QUEUED" /\ canceller' = "done")
<1>1. Inv /\ [Next]_vars => [Kept]_vars
  <2> SUFFICES ASSUME Inv, Next PROVE Kept  OBVIOUS
  <2>1. run \in [status : RunStatuses, cancel : BOOLEAN] /\ "QUEUED" \notin Terminal
      BY DEF Inv, TypeOK, Terminal
  <2>2. ASSUME NEW d \in Drivers, Drive(d) \/ Crash(d) PROVE Kept
    <3>1. CASE run' = run  BY <3>1
    <3>2. CASE ClaimRun(d)  BY <2>1, <3>2 DEF ClaimRun
    <3>3. CASE Finalize(d)  BY <3>3 DEF Finalize
    <3> QED BY <2>2, <3>1, <3>2, <3>3, RunIsWrittenBy
  <2>3. CASE CancelRead  BY <2>3 DEF CancelRead, rows
  <2>4. CASE CancelPatch  BY <2>1, <2>4 DEF CancelPatch
  <2> QED BY <2>2, <2>3, <2>4 DEF Next
<1> QED BY <1>1, Invariance, PTL DEF Spec, EndsAreKept

-----------------------------------------------------------------------------
(***************************************************************************)
(* One invocation at a time that is not killed: what the prefix of the     *)
(* steps holds at every place.  Behind the step at hand every step has     *)
(* done its work, beyond it nothing has begun; between two passes either   *)
(* nothing has begun or one child run is waited for; and the rest of the   *)
(* rows is settled before the run is.  A condition sees the agent it reads *)
(* only if no agent between the two can end a pass (NearReads): the        *)
(* context is rebuilt without what the agents found.                       *)
(***************************************************************************)
NearReads ==
    \A i \in OfKind("condition") :
        /\ Reads[i] < i
        /\ \A j \in OfKind("agent_run") : ~ (Reads[i] < j /\ j < i)

Clean(j) == children[j] = <<>> /\ effects[j] = 0
Blank(j) == steps[j] = NoRow /\ Clean(j)
Claimed(j) == steps[j] = [status |-> "RUNNING", child |-> 0] /\ Clean(j)
Waiting(j) ==
    /\ Workflow[j] = "agent_run" /\ steps[j] = [status |-> "RUNNING", child |-> 1]
    /\ children[j] = <<"open">> /\ effects[j] = 0
Driven(j) ==
    /\ Workflow[j] = "agent_run" /\ steps[j] = [status |-> "RUNNING", child |-> 1]
    /\ (\E end \in Ends : children[j] = <<end>>) /\ effects[j] = 0
Good(j) ==
    /\ steps[j].status = "OK"
    /\ Workflow[j] = "agent_run" => steps[j].child = 1 /\ children[j] = <<"succeeded">>
    /\ Workflow[j] # "agent_run" => steps[j].child = 0
    /\ Workflow[j] = "condition" => j \in met
    /\ Workflow[j] \notin {"agent_run", "condition"} => effects[j] = 1
Settled(j) == steps[j].status \in {"OK", "SKIPPED", "FAILED"}

Before(n) == \A j \in StepIds : j < n => Good(j)
After(n) == \A j \in StepIds : j > n => Blank(j)
Resting ==
    \/ \A j \in StepIds : Blank(j)
    \/ \E q \in StepIds : Before(q) /\ Waiting(q) /\ After(q)

Ahead(d) ==
    /\ Before(at[d]) /\ After(at[d])
    /\ \A j \in StepIds : j > at[d] => seen[d][j] = NoRow
    /\ \A j \in StepIds : j < at[d] =>
         j \in ctx[d] \/ \E a \in OfKind("agent_run") : j < a /\ a <= at[d]

Hand(d, p) ==
    /\ pc[d] \in {"check", "append"} => (Blank(p) \/ Waiting(p)) /\ seen[d][p] = steps[p]
    /\ pc[d] = "claimStep" =>
         steps[p] = [status |-> "PENDING", child |-> 0] /\ Clean(p) /\ seen[d][p].child = 0
    /\ pc[d] \in {"mark", "execute"} => (Claimed(p) \/ Waiting(p)) /\ seen[d][p].child = steps[p].child
    /\ pc[d] = "record" =>
         /\ Workflow[p] = "agent_run" /\ steps[p] = [status |-> "RUNNING", child |-> 0]
         /\ children[p] = <<"open">> /\ effects[p] = 0 /\ held[d] = 1
    /\ pc[d] = "drive" => Driven(p) /\ held[d] = 1
    /\ pc[d] = "yield" => Waiting(p) /\ held[d] = 1
    /\ pc[d] = "ok" =>
         /\ Workflow[p] = "agent_run" => held[d] = 1 /\ children[p] = <<"succeeded">>
         /\ Workflow[p] # "agent_run" => held[d] = 0
         /\ Workflow[p] = "condition" => p \in met
         /\ Workflow[p] \notin {"agent_run", "condition"} => effects[p] = 1
    /\ pc[d] = "halt" => Workflow[p] = "condition" /\ (p \in met => ~ NearReads)

Reason(status) ==
    /\ status = "FAILED" => \E j \in StepIds : steps[j].status = "FAILED"
    /\ status = "CREDIT_BLOCKED" =>
         \E j \in StepIds : steps[j].status = "FAILED" /\ RecordedEnd(j, "credit_limit")
    /\ status = "CONDITION_HALTED" /\ NearReads => ~ (OfKind("condition") \subseteq met)
Verdict(status) ==
    /\ Reason(status)
    /\ status = "SUCCEEDED" => \A j \in StepIds : Good(j)
    /\ status \in {"FAILED", "CREDIT_BLOCKED", "CONDITION_HALTED"} => \A j \in StepIds : Settled(j)

(* A halt may still fail while it is carried out, so what is before the        *)
(* condition that halts stays settled until then.                              *)
Closing(d) ==
    /\ pc[d] = "failed" =>
         /\ final[d] \in {"FAILED", "CREDIT_BLOCKED"}
         /\ final[d] = "CREDIT_BLOCKED" => RecordedEnd(at[d], "credit_limit")
         /\ \A j \in StepIds : j < at[d] => Settled(j)
    /\ pc[d] \in {"skip", "skipping"} =>
         /\ final[d] # "SUCCEEDED" /\ Reason(final[d])
         /\ \A j \in StepIds : j < at[d] => Settled(j)
    /\ pc[d] = "skipping" => \A j \in StepIds : j >= at[d] => seen[d][j] = steps[j]
    /\ pc[d] = "finalize" => Verdict(final[d])
    /\ pc[d] = "notify" => run.status \in {final[d], "CANCELLED"}
    /\ pc[d] \in Leaving /\ final[d] = "CONDITION_HALTED" =>
         \A j \in StepIds : j < held[d] => Settled(j)

Front(f) ==
    /\ \A j \in StepIds : j < f =>
         /\ Workflow[j] = "agent_run" => children[j] = <<"succeeded">>
         /\ Workflow[j] = "condition" => j \in met
    /\ \A j \in StepIds : j > f => Clean(j)

Standing == Inside \ {"failed"}
Walk(d) ==
    /\ pc[d] \in Standing => Ahead(d) /\ Hand(d, at[d])
    /\ pc[d] \in {"claim", "reread", "snapshot"} => Resting
    /\ pc[d] = "idle" /\ run.status \notin Terminal => Resting
    /\ Closing(d)
    /\ run.status \in Terminal \ {"CANCELLED"} =>
         \/ pc[d] \in {"idle", "notify"}
         \/ run.status = "CONDITION_HALTED" /\ pc[d] \in {"failed", "skip", "skipping", "finalize"}

Tidy == Verdict(run.status) /\ OneChildPerStep /\ \E f \in 0 .. Len(Workflow) : Front(f)

AloneInv(d) == Walk(d) /\ Tidy

(* A run that has not ended by itself: where every step but the last two is.   *)
StillOpen == run.status \notin Terminal \ {"CANCELLED"}

LEMMA TidyStays ==
    ASSUME Tidy, StillOpen', UNCHANGED <<met, children, effects>>
    PROVE  Tidy'
<1>1. Verdict(run.status)'  BY DEF StillOpen, Verdict, Reason, Terminal
<1>2. OneChildPerStep' /\ \E f \in 0 .. Len(Workflow) : Front(f)'
    BY DEF Tidy, OneChildPerStep, Front, Clean
<1> QED BY <1>1, <1>2 DEF Tidy

LEMMA TidyRests ==
    ASSUME Tidy, UNCHANGED <<steps, met, children, effects>>, run'.status = run.status
    PROVE  Tidy'
<1>1. OneChildPerStep' /\ \E f \in 0 .. Len(Workflow) : Front(f)'
    BY DEF Tidy, OneChildPerStep, Front, Clean
<1>2. Verdict(run.status)'  BY DEF Tidy, Verdict, Reason, RecordedEnd, Settled, Good
<1> QED BY <1>1, <1>2 DEF Tidy

(* What an invocation does that ends a pass, when the run may have halted.     *)
LEMMA TidyEnds ==
    ASSUME Tidy, UNCHANGED <<run, met, children, effects>>,
           StillOpen \/ run.status = "CONDITION_HALTED",
           \A j \in StepIds : Settled(j) => Settled(j)'
    PROVE  Tidy'
<1>1. CASE StillOpen  BY <1>1, TidyStays DEF StillOpen
<1>2. CASE run.status = "CONDITION_HALTED"
  <2>1. Verdict(run.status)'  BY <1>2 DEF Tidy, Verdict, Reason
  <2>2. OneChildPerStep' /\ \E f \in 0 .. Len(Workflow) : Front(f)'
      BY DEF Tidy, OneChildPerStep, Front, Clean
  <2> QED BY <2>1, <2>2 DEF Tidy
<1> QED BY <1>1, <1>2

(* The work on step p, with everything before it done and nothing after it. *)
LEMMA TidyWork ==
    ASSUME Tidy, StillOpen', met' = met, NEW p \in StepIds, Before(p), After(p),
           \A j \in StepIds \ {p} : children'[j] = children[j] /\ effects'[j] = effects[j],
           Len(children'[p]) <= 1
    PROVE  Tidy'
<1>1. Verdict(run.status)'  BY DEF StillOpen, Verdict, Reason, Terminal
<1>2. OneChildPerStep'  BY DEF Tidy, OneChildPerStep
<1>3. Front(p)'
    BY StepFacts DEF Front, Before, After, Good, Blank, Clean
<1>4. p \in 0 .. Len(Workflow)  BY StepFacts DEF StepIds
<1> QED BY <1>1, <1>2, <1>3, <1>4 DEF Tidy

(* A step that stays at the step in hand changes nothing before or after it.   *)
LEMMA StaysAhead ==
    ASSUME NEW d \in Drivers, Ahead(d), at[d] \in StepIds, at'[d] = at[d], met' = met,
           \A j \in StepIds \ {at[d]} :
              /\ steps'[j] = steps[j] /\ children'[j] = children[j] /\ effects'[j] = effects[j]
              /\ seen'[d][j] = seen[d][j],
           ctx'[d] = ctx[d]
    PROVE  Ahead(d)'
<1>1. \A j \in StepIds : (j < at[d] \/ j > at[d]) => j # at[d]  BY StepFacts
<1>2. Before(at[d])'
    BY <1>1 DEF Ahead, Before, Good
<1>3. After(at[d])'
    BY <1>1 DEF Ahead, After, Blank, Clean
<1>4. \A j \in StepIds : j > at[d] => seen'[d][j] = NoRow  BY <1>1 DEF Ahead
<1> QED BY <1>2, <1>3, <1>4 DEF Ahead

LEMMA InsideWalks ==
    ASSUME NEW d \in Drivers, pc'[d] \in Standing, Ahead(d)', Hand(d, at[d])', StillOpen'
    PROVE  Walk(d)'
BY DEF Walk, Standing, Inside, Closing, Leaving, StillOpen

LEMMA WalkingIsOpen ==
    ASSUME NEW d \in Drivers, Walk(d),
           pc[d] \notin {"idle", "notify", "failed", "skip", "skipping", "finalize"}
    PROVE  StillOpen
BY DEF Walk, StillOpen

LEMMA EndingIsOpen ==
    ASSUME NEW d \in Drivers, Walk(d), pc[d] \in {"failed", "skip", "skipping", "finalize"}
    PROVE  StillOpen \/ run.status = "CONDITION_HALTED"
BY DEF Walk, StillOpen

(* Where the loop goes on when n is the first step left, and when none is.     *)
LEMMA GoOnTo ==
    ASSUME NEW d \in Drivers, NEW from, NEW i \in Nat \ {0}, NEW known, GoOnAt(d, from, i, known),
           NEW n \in StepIds, n >= i, known[n].status \notin {"OK", "SKIPPED", "FAILED"},
           \A j \in StepIds : j >= i /\ j < n => known[j].status \in {"OK", "SKIPPED"}
    PROVE  Goto(d, from, "check") /\ at' = Put(at, d, n) /\ UNCHANGED final
<1> DEFINE left == {j \in i .. Len(Workflow) : known[j].status \notin {"OK", "SKIPPED"}}
           next == CHOOSE j \in left : \A k \in left : j <= k
<1>1. \A j \in left : j \in StepIds /\ j >= i  BY StepFacts DEF StepIds
<1>2. n \in left  BY StepFacts DEF StepIds
<1>3. \A k \in left : n <= k  BY <1>1, StepFacts
<1>4. \A m \in left : (\A k \in left : m <= k) => m = n
  <2> SUFFICES ASSUME NEW m \in left, \A k \in left : m <= k PROVE m = n  OBVIOUS
  <2>1. m <= n /\ n <= m  BY <1>2, <1>3
  <2>2. m \in Nat /\ n \in Nat  BY <1>1, StepFacts
  <2> QED BY <2>1, <2>2
<1>5. next = n
  <2> HIDE DEF left
  <2> QED BY <1>2, <1>3, <1>4
<1>6. left # {} /\ known[next].status # "FAILED"  BY <1>2, <1>5
<1>7. Goto(d, from, "check") /\ at' = Put(at, d, next) /\ UNCHANGED final
    BY <1>6 DEF GoOnAt
<1> QED BY <1>5, <1>7

LEMMA GoOnOut ==
    ASSUME NEW d \in Drivers, NEW from, NEW i \in Nat \ {0}, NEW known, GoOnAt(d, from, i, known),
           \A j \in StepIds : j >= i => known[j].status \in {"OK", "SKIPPED"}
    PROVE  Goto(d, from, "finalize") /\ final' = Put(final, d, "SUCCEEDED") /\ UNCHANGED at
<1> DEFINE left == {j \in i .. Len(Workflow) : known[j].status \notin {"OK", "SKIPPED"}}
<1>1. \A j \in left : j \in StepIds /\ j >= i  BY StepFacts DEF StepIds
<1>2. left = {}  BY <1>1
<1> QED BY <1>2 DEF GoOnAt

(* The beginning of a pass.                                                    *)
LEMMA RestsOn ==
    ASSUME Resting, UNCHANGED <<steps, met, children, effects>>
    PROVE  Resting'
BY DEF Resting, Blank, Clean, Before, After, Good, Waiting

LEMMA BeginAlone ==
    ASSUME Inv, NEW d \in Drivers, Walk(d), Tidy, Begin(d)
    PROVE  Walk(d)' /\ Tidy'
<1>0. TypeOK  BY DEF Inv
<1>1. CASE Load(d)
  <2>1. /\ pc[d] = "idle" /\ pc'[d] \in {"claim", "snapshot"} /\ run.status \notin Terminal
        /\ UNCHANGED <<run, steps, met, children, effects>>
      BY <1>0, <1>1 DEF Load, Goto, TypeOK, rows, world
  <2>2. Resting'  BY <2>1, RestsOn DEF Walk
  <2>3. Walk(d)'  BY <2>1, <2>2 DEF Walk, Closing, Leaving, Standing, Inside
  <2> QED BY <2>1, <2>3, TidyRests
<1>2. CASE ClaimRun(d)
  <2>1. /\ pc[d] = "claim" /\ pc'[d] \in {"snapshot", "reread"}
        /\ UNCHANGED <<steps, met, children, effects>>
        /\ run'.status \in {run.status, "RUNNING"}
      BY <1>0, <1>2 DEF ClaimRun, Goto, TypeOK, world
  <2>2. StillOpen'  BY <2>1, WalkingIsOpen DEF StillOpen, Terminal
  <2>3. Walk(d)'  BY <2>1, <2>2, RestsOn DEF Walk, Closing, Leaving, Standing, Inside, StillOpen
  <2> QED BY <2>1, <2>2, <2>3, TidyStays
<1>3. CASE Reread(d)
  <2>1. /\ pc[d] = "reread" /\ UNCHANGED <<run, steps, met, children, effects>>
        /\ pc'[d] \in {"idle", "snapshot"}
      BY <1>0, <1>3 DEF Reread, Return, Goto, TypeOK, rows, world
  <2>2. StillOpen'  BY <2>1, WalkingIsOpen DEF StillOpen
  <2>3. Walk(d)'  BY <2>1, <2>2, RestsOn DEF Walk, Closing, Leaving, Standing, Inside, StillOpen
  <2> QED BY <2>1, <2>3, TidyRests
<1>4. CASE Snapshot(d)
  <2>1. /\ GoOnAt(d, "snapshot", 1, steps) /\ seen' = Put(seen, d, steps) /\ ctx' = Put(ctx, d, {})
        /\ UNCHANGED <<run, steps, met, children, effects>>
      BY <1>4 DEF Snapshot, rows, world
  <2>2. seen'[d] = steps /\ ctx'[d] = {}  BY <1>0, <2>1 DEF TypeOK, Put
  <2>3. Resting  BY <2>1 DEF GoOnAt, Goto, Walk
  <2>4. StillOpen'
    <3>1. pc[d] = "snapshot"  BY <2>1 DEF GoOnAt, Goto
    <3> QED BY <2>1, <3>1, WalkingIsOpen DEF StillOpen
  <2>t. Tidy'  BY <2>1, TidyRests
  <2>5. ASSUME NEW q \in StepIds, Before(q), Blank(q) \/ Waiting(q), After(q),
               q = 1 \/ Workflow[q] = "agent_run"
        PROVE  Walk(d)'
    <3>1. Goto(d, "snapshot", "check") /\ at' = Put(at, d, q)
      <4>1. \A j \in StepIds : j >= 1 /\ j < q => steps[j].status \in {"OK", "SKIPPED"}
          BY <2>5 DEF Before, Good
      <4>2. steps[q].status \notin {"OK", "SKIPPED", "FAILED"}  BY <2>5 DEF Blank, Waiting, NoRow
      <4>3. q >= 1 /\ 1 \in Nat \ {0}  BY StepFacts
      <4> QED BY <2>1, <4>1, <4>2, <4>3, GoOnTo
    <3>2. pc'[d] = "check" /\ at'[d] = q  BY <1>0, <3>1 DEF Goto, Put, TypeOK
    <3>3. Ahead(d)'
      <4>1. Before(q)' /\ After(q)'  BY <2>1, <2>5 DEF Before, After, Good, Blank, Clean
      <4>2. \A j \in StepIds : j > q => steps[j] = NoRow  BY <2>5 DEF After, Blank
      <4>3. \A j \in StepIds : j < q => \E a \in OfKind("agent_run") : j < a /\ a <= q
        <5> SUFFICES ASSUME NEW j \in StepIds, j < q PROVE q \in OfKind("agent_run") /\ q <= q  OBVIOUS
        <5>1. q # 1  BY StepFacts
        <5> QED BY <2>5, <5>1, StepFacts DEF OfKind
      <4> QED BY <2>2, <3>2, <4>1, <4>2, <4>3 DEF Ahead
    <3>4. Hand(d, q)'
      <4>1. (Blank(q) \/ Waiting(q))'  BY <2>1, <2>5 DEF Blank, Waiting, Clean
      <4> QED BY <2>1, <2>2, <3>2, <4>1 DEF Hand
    <3>5. Hand(d, at[d])'  BY <3>2, <3>4
    <3> QED BY <2>4, <3>2, <3>3, <3>5, InsideWalks DEF Standing, Inside
  <2>6. CASE \E q \in StepIds : Before(q) /\ Waiting(q) /\ After(q)
      BY <2>5, <2>6, <2>t DEF Waiting
  <2>7. CASE (\A j \in StepIds : Blank(j)) /\ 1 \in StepIds
    <3>1. Before(1) /\ After(1)  BY <2>7, StepFacts DEF Before, After
    <3> QED BY <2>5, <2>7, <2>t, <3>1
  <2>8. CASE 1 \notin StepIds
    <3>1. StepIds = {}  BY <2>8, StepFacts DEF StepIds
    <3>2. Goto(d, "snapshot", "finalize") /\ final' = Put(final, d, "SUCCEEDED")
      <4>1. 1 \in Nat \ {0} /\ \A j \in StepIds : j >= 1 => steps[j].status \in {"OK", "SKIPPED"}  BY <3>1
      <4> QED BY <2>1, <4>1, GoOnOut
    <3>3. pc'[d] = "finalize" /\ final'[d] = "SUCCEEDED"  BY <1>0, <3>2 DEF Goto, Put, TypeOK
    <3>4. Verdict(final[d])'  BY <3>1, <3>3 DEF Verdict, Reason, OfKind
    <3> QED BY <2>4, <2>t, <3>3, <3>4 DEF Walk, Closing, Leaving, Standing, Inside, StillOpen
  <2> QED BY <2>3, <2>6, <2>7, <2>8 DEF Resting
<1> QED BY <1>1, <1>2, <1>3, <1>4 DEF Begin

(* What holds where an invocation stands at a step. *)
LEMMA AtHand ==
    ASSUME Inv, NEW d \in Drivers, Walk(d), pc[d] \in Standing
    PROVE  at[d] \in StepIds /\ Ahead(d) /\ Hand(d, at[d]) /\ StillOpen
BY WalkingIsOpen DEF Inv, Local, Place, Walk, Standing, Inside

LEMMA EnterAlone ==
    ASSUME Inv, NEW d \in Drivers, Walk(d), Tidy, Enter(d)
    PROVE  Walk(d)' /\ Tidy'
<1> DEFINE p == at[d]
<1>0. TypeOK /\ run' = run /\ UNCHANGED <<met, children, effects>>
    BY DEF Inv, Enter, CheckCancel, AppendStep, ClaimStep, MarkRunning, rows, world
<1>1. pc[d] \in {"check", "append", "claimStep", "mark"}
    BY DEF Enter, CheckCancel, SkipFrom, AppendStep, ClaimStep, MarkRunning, Goto
<1>2. p \in StepIds /\ Ahead(d) /\ Hand(d, p) /\ StillOpen  BY <1>1, AtHand DEF Standing, Inside
<1>3. StillOpen' /\ Tidy'
    BY <1>0, <1>2, TidyStays DEF StillOpen
<1>4. CASE CheckCancel(d)
  <2>1. CASE run.cancel
    <3>1. /\ pc'[d] = "skip" /\ at'[d] = p /\ final'[d] = "CANCELLED" /\ steps' = steps
        BY <1>0, <1>4, <2>1 DEF CheckCancel, SkipFrom, Goto, Put, TypeOK, rows
    <3>2. \A j \in StepIds : j < p => Settled(j)'
        BY <1>2, <3>1 DEF Ahead, Before, Good, Settled
    <3> QED BY <1>3, <3>1, <3>2 DEF Walk, Closing, Leaving, Standing, Inside, Reason, StillOpen
  <2>2. CASE ~ run.cancel
    <3>1. /\ pc[d] = "check" /\ pc'[d] = "append" /\ UNCHANGED <<at, seen, ctx, steps>>
        BY <1>0, <1>4, <2>2 DEF CheckCancel, Goto, TypeOK, rows
    <3>2. Ahead(d)'  BY <1>0, <1>2, <3>1, StaysAhead
    <3>3. Hand(d, at[d])'  BY <1>0, <1>2, <3>1 DEF Hand, Blank, Waiting, Clean
    <3> QED BY <1>3, <3>1, <3>2, <3>3, InsideWalks DEF Standing, Inside
  <2> QED BY <2>1, <2>2
<1>5. CASE AppendStep(d)
  <2>1. /\ pc[d] = "append" /\ seen[d][p] = steps[p] /\ (Blank(p) \/ Waiting(p))
        /\ UNCHANGED <<at, ctx>>
      BY <1>2, <1>5 DEF AppendStep, Hand, Goto
  <2>2. CASE Blank(p)
    <3> DEFINE row == [status |-> "PENDING", child |-> 0]
    <3>1. /\ steps[p].status = "none" /\ seen[d][p].status = "none"
          /\ [NoRow EXCEPT !.status = "PENDING"] = row
        BY <1>5, <2>1, <2>2 DEF Blank, NoRow, AppendStep, Hand
    <3>2. /\ pc' = [pc EXCEPT ![d] = "claimStep"] /\ steps' = Put(steps, p, row)
          /\ seen' = Put(seen, d, Put(seen[d], p, row))
        BY <1>5, <3>1 DEF AppendStep, Goto
    <3>3. /\ pc'[d] = "claimStep" /\ steps'[p] = row /\ seen'[d][p] = row
          /\ \A j \in StepIds \ {p} : steps'[j] = steps[j] /\ seen'[d][j] = seen[d][j]
        BY <1>0, <1>2, <3>2 DEF Put, TypeOK
    <3>4. Ahead(d)'  BY <1>0, <1>2, <2>1, <3>3, StaysAhead
    <3>5. Hand(d, at[d])'  BY <1>0, <2>1, <2>2, <3>3 DEF Hand, Blank, Clean
    <3> QED BY <1>3, <3>3, <3>4, <3>5, InsideWalks DEF Standing, Inside
  <2>3. CASE Waiting(p)
    <3>1. steps[p].status = "RUNNING" /\ seen[d][p] = steps[p]
        BY <1>5, <2>1, <2>3 DEF Waiting, AppendStep, Hand
    <3>2. /\ pc' = [pc EXCEPT ![d] = "mark"] /\ steps' = steps
          /\ seen' = Put(seen, d, Put(seen[d], p, seen[d][p]))
        BY <1>5, <3>1 DEF AppendStep, Goto
    <3>3. pc'[d] = "mark" /\ seen'[d] = seen[d]  BY <1>0, <1>2, <3>2 DEF Put, TypeOK
    <3>4. Ahead(d)'  BY <1>0, <1>2, <2>1, <3>2, <3>3, StaysAhead
    <3>5. Hand(d, at[d])'  BY <1>0, <2>1, <2>3, <3>1, <3>2, <3>3 DEF Hand, Waiting
    <3> QED BY <1>3, <3>3, <3>4, <3>5, InsideWalks DEF Standing, Inside
  <2> QED BY <2>1, <2>2, <2>3
<1>6. CASE ClaimStep(d)
  <2>1. pc[d] = "claimStep"  BY <1>6 DEF ClaimStep
  <2>2. steps[p] = [status |-> "PENDING", child |-> 0] /\ Clean(p) /\ seen[d][p].child = 0
      BY <1>2, <2>1 DEF Hand
  <2>3. /\ pc'[d] = "mark" /\ UNCHANGED <<at, seen, ctx>>
        /\ steps' = Put(steps, p, [steps[p] EXCEPT !.status = "RUNNING"])
    <3>1. Goto(d, "claimStep", "mark") /\ StepStatus(d, "RUNNING") /\ UNCHANGED locals
        BY <1>6, <2>2 DEF ClaimStep
    <3> QED BY <1>0, <3>1 DEF StepStatus, SetStep, Goto, TypeOK, locals
  <2>4. /\ steps'[p] = [status |-> "RUNNING", child |-> 0]
        /\ \A j \in StepIds \ {p} : steps'[j] = steps[j]
      BY <1>0, <1>2, <2>2, <2>3 DEF Put, TypeOK
  <2>5. Ahead(d)'  BY <1>0, <1>2, <2>3, <2>4, StaysAhead
  <2>6. Hand(d, at[d])'  BY <1>0, <2>2, <2>3, <2>4 DEF Hand, Claimed, Clean
  <2> QED BY <1>3, <2>3, <2>5, <2>6, InsideWalks DEF Standing, Inside
<1>7. CASE MarkRunning(d)
  <2>1. pc[d] = "mark"  BY <1>7 DEF MarkRunning, Goto
  <2>2. (Claimed(p) \/ Waiting(p)) /\ seen[d][p].child = steps[p].child  BY <1>2, <2>1 DEF Hand
  <2>3. /\ pc'[d] = "execute" /\ UNCHANGED <<at, seen, ctx>>
        /\ steps' = Put(steps, p, [steps[p] EXCEPT !.status = "RUNNING"])
      BY <1>0, <1>7 DEF MarkRunning, StepStatus, SetStep, Goto, TypeOK, locals
  <2>4. steps' = steps
    <3>1. [steps[p] EXCEPT !.status = "RUNNING"] = steps[p]  BY <2>2 DEF Claimed, Waiting
    <3> QED BY <1>0, <1>2, <2>3, <3>1 DEF Put, TypeOK
  <2>5. Ahead(d)'  BY <1>0, <1>2, <2>3, <2>4, StaysAhead
  <2>6. Hand(d, at[d])'  BY <1>0, <2>2, <2>3, <2>4 DEF Hand, Claimed, Waiting, Clean
  <2> QED BY <1>3, <2>3, <2>5, <2>6, InsideWalks DEF Standing, Inside
<1> QED BY <1>3, <1>4, <1>5, <1>6, <1>7 DEF Enter

(* An attempt at a step may fail wherever it is. *)
LEMMA FailAlone ==
    ASSUME Inv, NEW d \in Drivers, Walk(d), Tidy, pc[d] \in Standing,
           NEW status \in {"FAILED", "CREDIT_BLOCKED"}, Fail(d, pc[d], status),
           UNCHANGED <<run, steps, met, children, effects>>,
           status = "CREDIT_BLOCKED" => RecordedEnd(at[d], "credit_limit")
    PROVE  Walk(d)' /\ Tidy'
<1>1. at[d] \in StepIds /\ Before(at[d]) /\ StillOpen /\ StillOpen'
    BY AtHand DEF Ahead, StillOpen
<1>2. pc'[d] = "failed" /\ final'[d] = status /\ at' = at
    BY DEF Fail, Goto, Put, Inv, TypeOK
<1>3. \A j \in StepIds : j < at'[d] => Settled(j)'
    BY <1>1, <1>2 DEF Before, Good, Settled
<1>4. status = "CREDIT_BLOCKED" => RecordedEnd(at[d], "credit_limit")'
    BY <1>2 DEF RecordedEnd
<1>5. Closing(d)'  BY <1>2, <1>3, <1>4 DEF Closing, Leaving
<1>6. Walk(d)'  BY <1>1, <1>2, <1>5 DEF Walk, Standing, StillOpen
<1> QED BY <1>6, TidyRests

(* The work on one step. *)
LEMMA ThrowAlone ==
    ASSUME Inv, NEW d \in Drivers, Walk(d), Tidy, StepThrows(d)
    PROVE  Walk(d)' /\ Tidy'
<1>1. pc[d] \in Standing  BY DEF StepThrows, Standing, Inside
<1>2. Fail(d, pc[d], "FAILED") /\ UNCHANGED <<run, steps, met, children, effects>>
    BY DEF StepThrows, rows, world
<1> QED BY <1>1, <1>2, FailAlone

LEMMA EvaluateAlone ==
    ASSUME Inv, NEW d \in Drivers, Walk(d), Tidy, Evaluate(d)
    PROVE  Walk(d)' /\ Tidy'
<1> DEFINE p == at[d]
<1>0. TypeOK /\ UNCHANGED <<run, steps, met, children, effects>> /\ pc[d] = "execute"
    BY DEF Inv, Evaluate, Executes, rows, world
<1>1. p \in StepIds /\ Ahead(d) /\ Hand(d, p) /\ StillOpen
    BY <1>0, AtHand DEF Standing, Inside
<1>2. StillOpen' /\ Tidy'
    BY <1>0, <1>1, TidyRests DEF StillOpen
<1>3. /\ Workflow[p] = "condition" /\ UNCHANGED <<at, seen, held, ctx>>
      /\ pc'[d] = (IF Holds(d) THEN "ok" ELSE "halt")
    BY <1>0 DEF Evaluate, Executes, Here, Goto, TypeOK, locals
<1>4. Ahead(d)'  BY <1>0, <1>1, <1>3, StaysAhead
<1>5. CASE Holds(d)
  <2>1. held[d] = 0  BY <1>0 DEF Inv, Local, Holding, Driving, Deciding, Leaving
  <2>2. Hand(d, at[d])'  BY <1>0, <1>3, <1>5, <2>1 DEF Hand, Holds
  <2> QED BY <1>2, <1>3, <1>4, <1>5, <2>2, InsideWalks DEF Standing, Inside
<1>6. CASE ~ Holds(d)
  <2>1. p \in met => ~ NearReads
    <3> SUFFICES ASSUME p \in met, NearReads PROVE FALSE  OBVIOUS
    <3>1. Reads[p] \notin ctx[d]  BY <1>6 DEF Holds
    <3>2. p \in OfKind("condition")  BY <1>1, <1>3 DEF OfKind
    <3>3. Reads[p] < p /\ Reads[p] \in StepIds  BY <1>1, <3>2, AutomationConstants DEF NearReads
    <3>4. PICK a \in OfKind("agent_run") : Reads[p] < a /\ a <= p
        BY <1>1, <3>1, <3>3 DEF Ahead
    <3>5. a # p /\ a \in StepIds  BY <1>3, <3>4 DEF OfKind
    <3>6. a < p  BY <1>1, <3>4, <3>5, StepFacts
    <3> QED BY <3>2, <3>4, <3>6 DEF NearReads
  <2>2. Hand(d, at[d])'  BY <1>0, <1>3, <1>6, <2>1 DEF Hand
  <2> QED BY <1>2, <1>3, <1>4, <1>6, <2>2, InsideWalks DEF Standing, Inside
<1> QED BY <1>5, <1>6

LEMMA ChildAlone ==
    ASSUME Inv, NEW d \in Drivers, Walk(d), Tidy, Child(d)
    PROVE  Walk(d)' /\ Tidy'
<1> DEFINE p == at[d]
<1>0. TypeOK /\ run' = run /\ met' = met /\ effects' = effects
    BY DEF Inv, Child, StartChild, RecordChild, ResumeChild, EndChild, ReadChild, DriveOut, Yield,
           rows, world
<1>1. pc[d] \in {"execute", "record", "drive", "yield"}
    BY DEF Child, StartChild, RecordChild, ResumeChild, EndChild, ReadChild, DriveOut, Yield,
           Executes, Goto
<1>2. p \in StepIds /\ Ahead(d) /\ Hand(d, p) /\ StillOpen /\ StillOpen'
    BY <1>0, <1>1, AtHand DEF Standing, Inside, StillOpen
<1>3. p \in StepIds /\ Before(p) /\ After(p) /\ children \in [StepIds -> Seq(Ends)]
    BY <1>0, <1>2 DEF Ahead, TypeOK, Ends
<1>4. CASE StartChild(d)
  <2>1. /\ pc[d] = "execute" /\ Workflow[p] = "agent_run" /\ seen[d][p].child = 0
        /\ pc'[d] = "record" /\ UNCHANGED <<steps, at, seen, ctx>>
        /\ children' = Put(children, p, Append(children[p], "open"))
        /\ held'[d] = Len(children[p]) + 1
      BY <1>0, <1>4 DEF StartChild, Executes, Here, Goto, Put, TypeOK, rows
  <2>2. Claimed(p)  BY <1>2, <2>1 DEF Hand, Waiting
  <2>3. children[p] = <<>> /\ Append(children[p], "open") = <<"open">> /\ held'[d] = 1
      BY <2>1, <2>2 DEF Claimed, Clean
  <2>4. /\ children'[p] = <<"open">>
        /\ \A j \in StepIds \ {p} : children'[j] = children[j]
      BY <1>3, <2>1, <2>3 DEF Put
  <2>t. Len(children'[p]) <= 1  BY <2>4
  <2>5. Tidy'  BY <1>0, <1>2, <1>3, <2>4, <2>t, TidyWork
  <2>6. Ahead(d)'  BY <1>0, <1>2, <2>1, <2>4, StaysAhead
  <2>7. Hand(d, at[d])'  BY <1>0, <2>1, <2>2, <2>3, <2>4 DEF Hand, Claimed, Clean
  <2> QED BY <1>2, <2>1, <2>5, <2>6, <2>7, InsideWalks DEF Standing, Inside
<1>5. CASE RecordChild(d)
  <2>1. /\ pc[d] = "record" /\ pc'[d] = "drive" /\ UNCHANGED <<children, at, seen, held, ctx>>
        /\ steps' = Put(steps, p, [steps[p] EXCEPT !.child = held[d]])
      BY <1>0, <1>5 DEF RecordChild, SetStep, Goto, TypeOK, world, locals
  <2>2. /\ Workflow[p] = "agent_run" /\ steps[p] = [status |-> "RUNNING", child |-> 0]
        /\ children[p] = <<"open">> /\ effects[p] = 0 /\ held[d] = 1
      BY <1>2, <2>1 DEF Hand
  <2>3. /\ steps'[p] = [status |-> "RUNNING", child |-> 1]
        /\ \A j \in StepIds \ {p} : steps'[j] = steps[j]
      BY <1>0, <1>2, <2>1, <2>2 DEF Put, TypeOK
  <2>4. Ahead(d)'  BY <1>0, <1>2, <2>1, <2>3, StaysAhead
  <2>5. Hand(d, at[d])'  BY <1>0, <2>1, <2>2, <2>3 DEF Hand, Driven, Ends
  <2>6. Tidy'  BY <1>0, <1>2, <2>1, TidyStays
  <2> QED BY <1>2, <2>1, <2>4, <2>5, <2>6, InsideWalks DEF Standing, Inside
<1>6. CASE ResumeChild(d)
  <2>1. /\ pc[d] = "execute" /\ pc'[d] = "drive" /\ UNCHANGED <<steps, children, at, seen, ctx>>
        /\ held'[d] = seen[d][p].child /\ seen[d][p].child # 0
      BY <1>0, <1>6 DEF ResumeChild, Executes, Goto, Put, TypeOK, rows, world
  <2>2. Waiting(p) /\ held'[d] = 1  BY <1>2, <2>1 DEF Hand, Claimed, Waiting
  <2>3. Ahead(d)'  BY <1>0, <1>2, <2>1, StaysAhead
  <2>4. Hand(d, at[d])'  BY <1>0, <2>1, <2>2 DEF Hand, Waiting, Driven, Ends
  <2>5. Tidy'  BY <1>0, <1>2, <2>1, TidyStays
  <2> QED BY <1>2, <2>1, <2>3, <2>4, <2>5, InsideWalks DEF Standing, Inside
<1>7. CASE EndChild(d)
  <2>0. pc[d] = "drive" /\ UNCHANGED <<steps, pc, at, seen, held, ctx>>
      BY <1>7 DEF EndChild, rows, locals
  <2>1. Driven(p) /\ held[d] = 1  BY <1>2, <2>0 DEF Hand
  <2>2. PICK end \in ChildEnds : children' = Put(children, p, Put(children[p], held[d], end))
      BY <1>7 DEF EndChild
  <2>3. /\ children'[p] = [children[p] EXCEPT ![1] = end]
        /\ \A j \in StepIds \ {p} : children'[j] = children[j]
      BY <1>3, <2>1, <2>2 DEF Put
  <2>4. children'[p] = <<end>> /\ end \in Ends  BY <2>1, <2>2, <2>3 DEF Driven, Ends
  <2>5. Len(children'[p]) <= 1  BY <2>4
  <2>6. Tidy'  BY <1>0, <1>2, <1>3, <2>3, <2>5, TidyWork
  <2>7. Ahead(d)'  BY <1>0, <1>2, <2>0, <2>3, StaysAhead
  <2>8. Hand(d, at[d])'
    <3>1. Driven(p)'  BY <1>0, <2>0, <2>1, <2>4 DEF Driven
    <3> QED BY <2>0, <2>1, <3>1 DEF Hand
  <2> QED BY <1>2, <2>0, <2>6, <2>7, <2>8, InsideWalks DEF Standing, Inside
<1>r. CASE ReadChild(d)
  <2>0. pc[d] = "drive" /\ pc[d] \in Standing /\ UNCHANGED <<run, steps, met, children, effects>>
      BY <1>r DEF ReadChild, Standing, Inside, rows, world
  <2>1. Driven(p) /\ held[d] = 1  BY <1>2, <2>0 DEF Hand
  <2>2. PICK end \in Ends : children[p] = <<end>>  BY <2>1 DEF Driven
  <2>3. children[p][held[d]] = end /\ DOMAIN children[p] = {1}  BY <2>1, <2>2
  <2>4. CASE end = "succeeded"
    <3>1. Goto(d, "drive", "ok") /\ UNCHANGED locals  BY <1>r, <2>3, <2>4 DEF ReadChild
    <3>2. pc'[d] = "ok" /\ UNCHANGED <<at, seen, held, ctx>>
        BY <1>0, <3>1 DEF Goto, TypeOK, locals
    <3>3. Hand(d, at[d])'  BY <2>0, <2>1, <2>2, <2>4, <3>2 DEF Hand, Driven
    <3>4. Ahead(d)'  BY <1>2, <2>0, <3>2, StaysAhead
    <3>5. Tidy'  BY <2>0, TidyRests
    <3> QED BY <1>2, <3>2, <3>3, <3>4, <3>5, InsideWalks DEF Standing, Inside
  <2>5. CASE end = "credit_limit"
    <3>1. Fail(d, pc[d], "CREDIT_BLOCKED")  BY <1>r, <2>0, <2>3, <2>5 DEF ReadChild
    <3>2. RecordedEnd(p, "credit_limit")  BY <2>1, <2>3, <2>5 DEF RecordedEnd, Driven
    <3> QED BY <2>0, <3>1, <3>2, FailAlone
  <2>6. CASE end \notin {"succeeded", "credit_limit"}
    <3>1. Fail(d, pc[d], "FAILED")  BY <1>r, <2>0, <2>3, <2>6 DEF ReadChild
    <3> QED BY <2>0, <3>1, FailAlone
  <2> QED BY <2>4, <2>5, <2>6
<1>8. CASE DriveOut(d)
  <2>1. /\ pc[d] = "drive" /\ pc'[d] = "yield" /\ UNCHANGED <<steps, children, at, seen, held, ctx>>
        /\ children[p][held[d]] = "open"
      BY <1>0, <1>8 DEF DriveOut, Goto, TypeOK, rows, world, locals
  <2>2. Waiting(p) /\ held[d] = 1
    <3>1. Driven(p) /\ held[d] = 1  BY <1>2, <2>1 DEF Hand
    <3> QED BY <2>1, <3>1 DEF Driven, Waiting
  <2>3. Ahead(d)'  BY <1>0, <1>2, <2>1, StaysAhead
  <2>4. Hand(d, at[d])'  BY <1>0, <1>2, <2>1, <2>2 DEF Hand, Waiting
  <2>5. Tidy'  BY <1>0, <1>2, <2>1, TidyStays
  <2> QED BY <1>2, <2>1, <2>3, <2>4, <2>5, InsideWalks DEF Standing, Inside
<1>9. CASE Yield(d)
  <2>1. /\ pc[d] = "yield" /\ pc'[d] = "idle" /\ children' = children
        /\ steps' = Put(steps, p, [status |-> "RUNNING", child |-> held[d]])
      BY <1>0, <1>9 DEF Yield, SetStep, Return, Goto, TypeOK, world
  <2>2. Waiting(p) /\ held[d] = 1  BY <1>2, <2>1 DEF Hand
  <2>3. steps' = steps
    <3>1. steps' = [steps EXCEPT ![p] = steps[p]]  BY <2>1, <2>2 DEF Waiting, Put
    <3> QED BY <1>0, <1>2, <3>1 DEF TypeOK
  <2>4. Resting'  BY <1>0, <1>3, <2>1, <2>2, <2>3, RestsOn DEF Resting
  <2>5. Tidy'  BY <1>0, <1>2, <2>1, TidyStays
  <2> QED BY <1>2, <2>1, <2>4, <2>5 DEF Walk, Closing, Leaving, Standing, Inside, StillOpen
<1> QED BY <1>4, <1>5, <1>6, <1>7, <1>r, <1>8, <1>9 DEF Child

LEMMA EffectAlone ==
    ASSUME Inv, NEW d \in Drivers, Walk(d), Tidy, Draft(d) \/ Save(d)
    PROVE  Walk(d)' /\ Tidy'
<1> DEFINE p == at[d]
<1>0. /\ TypeOK /\ UNCHANGED <<run, steps, met, children>> /\ pc[d] = "execute"
      /\ Workflow[p] \in {"publication_draft", "workspace_save"}
    BY DEF Inv, Draft, Save, Executes, Here, rows
<1>1. p \in StepIds /\ Ahead(d) /\ Hand(d, p) /\ StillOpen /\ StillOpen'
    BY <1>0, AtHand DEF Standing, Inside, StillOpen
<1>2. Claimed(p) /\ held[d] = 0
  <2>1. held[d] = 0  BY <1>0 DEF Inv, Local, Holding, Driving, Deciding, Leaving
  <2> QED BY <1>0, <1>1, <2>1 DEF Hand, Waiting
<1>3. /\ pc'[d] = "ok" /\ UNCHANGED <<at, seen, held, ctx>>
      /\ effects'[p] = 1 /\ \A j \in StepIds \ {p} : effects'[j] = effects[j]
  <2>1. effects[p] = 0  BY <1>2 DEF Claimed, Clean
  <2>2. Goto(d, "execute", "ok") /\ effects' = Put(effects, p, 1) /\ UNCHANGED locals
      BY <2>1 DEF Draft, Save
  <2> QED BY <1>0, <1>1, <2>2 DEF Goto, Put, TypeOK, locals
<1>4. Len(children'[p]) <= 1  BY <1>0, <1>2 DEF Claimed, Clean
<1>5. Tidy'  BY <1>0, <1>1, <1>3, <1>4, TidyWork DEF Ahead
<1>6. Ahead(d)'  BY <1>0, <1>1, <1>3, StaysAhead
<1>7. Hand(d, at[d])'  BY <1>0, <1>2, <1>3 DEF Hand
<1> QED BY <1>1, <1>3, <1>5, <1>6, <1>7, InsideWalks DEF Standing, Inside

LEMMA WorkAlone ==
    ASSUME Inv, NEW d \in Drivers, Walk(d), Tidy, Work(d)
    PROVE  Walk(d)' /\ Tidy'
BY ThrowAlone, EvaluateAlone, ChildAlone, EffectAlone DEF Work

(* The end of a step, and of the run. *)
LEMMA StepOkAlone ==
    ASSUME Inv, NEW d \in Drivers, Walk(d), Tidy, StepOk(d)
    PROVE  Walk(d)' /\ Tidy'
<1> DEFINE row == [status |-> "OK", child |-> held[d]]
<1>s. TypeOK /\ run' = run /\ pc[d] = "ok"
    BY DEF Inv, StepOk, GoOnAt, Goto
<1>p. PICK p \in StepIds : p = at[d]  BY <1>s, AtHand DEF Standing, Inside
<1>0. /\ TypeOK /\ UNCHANGED <<run, met, children, effects, seen>> /\ pc[d] = "ok"
      /\ GoOnAt(d, "ok", p + 1, seen[d]) /\ steps' = Put(steps, p, row)
      /\ ctx' = Put(ctx, d, ctx[d] \cup {p})
    BY <1>s, <1>p DEF StepOk, SetStep, world
<1>1. p \in StepIds /\ Before(p) /\ After(p) /\ Ahead(d) /\ Hand(d, p) /\ StillOpen /\ StillOpen'
    BY <1>0, <1>p, AtHand DEF Standing, Inside, StillOpen, Ahead
<1>2. Tidy'  BY <1>0, <1>1, TidyStays
<1>3. /\ steps'[p] = row /\ \A j \in StepIds \ {p} : steps'[j] = steps[j]
      /\ ctx'[d] = ctx[d] \cup {p}
    BY <1>0, <1>1 DEF Put, TypeOK
<1>4. Good(p)'
  <2>1. /\ Workflow[p] = "agent_run" => held[d] = 1 /\ children[p] = <<"succeeded">>
        /\ Workflow[p] # "agent_run" => held[d] = 0
        /\ Workflow[p] = "condition" => p \in met
        /\ Workflow[p] \notin {"agent_run", "condition"} => effects[p] = 1
      BY <1>0, <1>1 DEF Hand
  <2> QED BY <1>0, <1>3, <2>1 DEF Good
<1>5. \A j \in StepIds : j <= p => Good(j)'
  <2> SUFFICES ASSUME NEW j \in StepIds, j <= p PROVE Good(j)'  OBVIOUS
  <2>1. CASE j = p  BY <1>4, <2>1
  <2>2. CASE j # p
    <3>1. j < p  BY <1>1, <2>2, StepFacts
    <3>2. Good(j) /\ steps'[j] = steps[j]  BY <1>1, <1>3, <2>2, <3>1 DEF Ahead, Before
    <3> QED BY <1>0, <3>2 DEF Good
  <2> QED BY <2>1, <2>2
<1>6. \A j \in StepIds : j > p => Blank(j)' /\ seen[d][j] = NoRow /\ steps'[j] = NoRow
  <2> SUFFICES ASSUME NEW j \in StepIds, j > p
               PROVE  Blank(j)' /\ seen[d][j] = NoRow /\ steps'[j] = NoRow  OBVIOUS
  <2>1. j # p  BY <1>1, StepFacts
  <2>2. Blank(j) /\ seen[d][j] = NoRow /\ steps'[j] = steps[j]
      BY <1>1, <1>p, <1>3, <2>1 DEF Ahead, After
  <2> QED BY <1>0, <2>2 DEF Blank, Clean
<1>7. CASE p + 1 \in StepIds
  <2> DEFINE n == p + 1
  <2>1. Goto(d, "ok", "check") /\ at' = Put(at, d, n)
    <3>1. \A j \in StepIds : ~ (j >= n /\ j < n) /\ n >= n  BY <1>7, StepFacts
    <3>2. seen[d][n].status \notin {"OK", "SKIPPED", "FAILED"}
      <4>1. n > p  BY <1>1, StepFacts
      <4> QED BY <1>6, <1>7, <4>1 DEF NoRow
    <3>3. n \in Nat \ {0}  BY <1>7, StepFacts
    <3> HIDE DEF n
    <3> QED BY <1>0, <1>7, <3>1, <3>2, <3>3, GoOnTo DEF n
  <2>2. pc'[d] = "check" /\ at'[d] = n  BY <1>0, <2>1 DEF Goto, Put, TypeOK
  <2>3. \A j \in StepIds : (j < n <=> j <= p) /\ (j > n => j > p) /\ n > p
      BY <1>1, <1>7, StepFacts
  <2>4. Ahead(d)'
    <3>1. Before(n)' /\ After(n)'  BY <1>5, <1>6, <2>3 DEF Before, After
    <3>2. \A j \in StepIds : j > n => seen'[d][j] = NoRow  BY <1>0, <1>6, <2>3
    <3>3. ASSUME NEW j \in StepIds, j < n
          PROVE  j \in ctx'[d] \/ \E a \in OfKind("agent_run") : j < a /\ a <= n
      <4>1. CASE j = p  BY <1>3, <4>1
      <4>2. CASE j # p
        <5>1. j < p  BY <1>1, <2>3, <3>3, <4>2, StepFacts
        <5>2. j \in ctx[d] \/ \E a \in OfKind("agent_run") : j < a /\ a <= p
            BY <1>1, <1>p, <5>1 DEF Ahead
        <5>3. \A a \in OfKind("agent_run") : a <= p => a <= n
            BY <1>1, StepFacts DEF OfKind
        <5> QED BY <1>3, <5>2, <5>3
      <4> QED BY <4>1, <4>2
    <3> HIDE DEF n
    <3> QED BY <2>2, <3>1, <3>2, <3>3 DEF Ahead
  <2>5. Hand(d, at[d])'
    <3>1. Blank(n)' /\ seen'[d][n] = steps'[n]  BY <1>0, <1>6, <1>7, <2>3
    <3> HIDE DEF n
    <3> QED BY <2>2, <3>1 DEF Hand
  <2> QED BY <1>1, <1>2, <2>2, <2>4, <2>5, InsideWalks DEF Standing, Inside
<1>8. CASE p + 1 \notin StepIds
  <2>1. \A j \in StepIds : j <= p  BY <1>1, <1>8, StepFacts DEF StepIds
  <2>2. Goto(d, "ok", "finalize") /\ final' = Put(final, d, "SUCCEEDED")
    <3>1. p + 1 \in Nat \ {0} /\ \A j \in StepIds : ~ (j >= p + 1)  BY <1>1, <2>1, StepFacts
    <3> QED BY <1>0, <3>1, GoOnOut
  <2>3. pc'[d] = "finalize" /\ final'[d] = "SUCCEEDED"  BY <1>0, <2>2 DEF Goto, Put, TypeOK
  <2>4. \A j \in StepIds : Good(j)'  BY <1>5, <2>1
  <2>5. Verdict(final[d])'  BY <2>3, <2>4 DEF Verdict, Reason
  <2> QED BY <1>1, <1>2, <2>3, <2>5 DEF Walk, Closing, Leaving, Standing, Inside, StillOpen
<1> QED BY <1>7, <1>8

LEMMA StopAlone ==
    ASSUME Inv, NEW d \in Drivers, Walk(d), Tidy, StepHalts(d) \/ StepFails(d)
    PROVE  Walk(d)' /\ Tidy'
<1>s. /\ TypeOK /\ UNCHANGED <<run, met, children, effects>> /\ pc[d] \in {"halt", "failed"}
      /\ pc'[d] = "skip" /\ at'[d] = at[d] + 1
    BY DEF Inv, StepHalts, StepFails, SkipFrom, Goto, Put, TypeOK, world
<1>p. PICK p \in StepIds : p = at[d]  BY <1>s DEF Inv, Local, Place, Inside
<1>0. /\ TypeOK /\ UNCHANGED <<run, met, children, effects>> /\ pc[d] \in {"halt", "failed"}
      /\ pc'[d] = "skip" /\ at'[d] = p + 1
    BY <1>s, <1>p
<1>1. /\ p \in StepIds /\ (StillOpen \/ run.status = "CONDITION_HALTED")
      /\ \A j \in StepIds : j < p => Settled(j)
  <2>1. CASE pc[d] = "halt"
    <3>1. Before(p) /\ StillOpen  BY <1>p, <2>1, AtHand DEF Standing, Inside, Ahead
    <3> QED BY <3>1 DEF Before, Good, Settled
  <2>2. CASE pc[d] = "failed"  BY <1>p, <2>2, EndingIsOpen DEF Walk, Closing
  <2> QED BY <1>0, <2>1, <2>2
<1>3. \E s \in {"OK", "FAILED"} : steps' = Put(steps, p, [steps[p] EXCEPT !.status = s])
    BY <1>p DEF StepHalts, StepFails, StepStatus, SetStep
<1>4. /\ steps'[p].status \in {"OK", "FAILED"} /\ steps'[p].child = steps[p].child
      /\ \A j \in StepIds \ {p} : steps'[j] = steps[j]
    BY <1>0, <1>1, <1>3 DEF Put, TypeOK, StepRows
<1>5. \A j \in StepIds : j < p + 1 => Settled(j)'
  <2> SUFFICES ASSUME NEW j \in StepIds, j < p + 1 PROVE Settled(j)'  OBVIOUS
  <2>1. CASE j = p  BY <1>4, <2>1 DEF Settled
  <2>2. CASE j # p
    <3>1. j < p  BY <1>1, <2>2, StepFacts
    <3> QED BY <1>1, <1>4, <2>2, <3>1 DEF Settled
  <2> QED BY <2>1, <2>2
<1>t. \A j \in StepIds : Settled(j) => Settled(j)'  BY <1>1, <1>4 DEF Settled
<1>2. Tidy'  BY <1>0, <1>1, <1>t, TidyEnds
<1>o. /\ StillOpen' \/ run'.status = "CONDITION_HALTED"
      /\ pc[d] = "halt" => StillOpen'
  <2>1. pc[d] = "halt" => StillOpen  BY AtHand DEF Standing, Inside
  <2> QED BY <1>0, <1>1, <2>1 DEF StillOpen
<1>6. CASE StepHalts(d)
  <2>1. pc[d] = "halt" /\ final'[d] = "CONDITION_HALTED" /\ held'[d] = p
      BY <1>0, <1>p, <1>6 DEF StepHalts, SkipFrom, Goto, Put, TypeOK
  <2>2. Workflow[p] = "condition" /\ (NearReads => p \notin met)
      BY <1>p, <2>1, AtHand DEF Standing, Inside, Hand
  <2>3. Reason("CONDITION_HALTED")'  BY <1>0, <1>1, <2>2 DEF Reason, OfKind
  <2>4. \A j \in StepIds : j < held'[d] => Settled(j)'  BY <1>1, <1>5, <2>1, StepFacts
  <2>5. Closing(d)'  BY <1>0, <1>5, <2>1, <2>3, <2>4 DEF Closing, Leaving
  <2> QED BY <1>0, <1>2, <1>o, <2>1, <2>5 DEF Walk, Standing, Inside, StillOpen
<1>7. CASE StepFails(d)
  <2>1. pc[d] = "failed" /\ final'[d] = final[d] /\ steps'[p].status = "FAILED"
      BY <1>0, <1>p, <1>7 DEF StepFails, SkipFrom, StepStatus, SetStep, Goto, Put, TypeOK, StepRows
  <2>2. /\ final[d] \in {"FAILED", "CREDIT_BLOCKED"}
        /\ final[d] = "CREDIT_BLOCKED" => RecordedEnd(p, "credit_limit")
      BY <1>p, <2>1 DEF Walk, Closing
  <2>3. final[d] = "CREDIT_BLOCKED" => RecordedEnd(p, "credit_limit")'
      BY <1>0, <1>4, <2>2 DEF RecordedEnd
  <2>4. Reason(final[d])'  BY <1>1, <2>1, <2>2, <2>3 DEF Reason
  <2>5. Closing(d)'  BY <1>0, <1>5, <2>1, <2>2, <2>4 DEF Closing, Leaving
  <2> QED BY <1>0, <1>2, <1>o, <2>5 DEF Walk, Standing, Inside, StillOpen
<1> QED BY <1>6, <1>7

LEMMA HaltThrowsAlone ==
    ASSUME Inv, NEW d \in Drivers, Walk(d), Tidy, HaltThrows(d)
    PROVE  Walk(d)' /\ Tidy'
<1>1. /\ TypeOK /\ UNCHANGED <<run, steps, met, children, effects>>
      /\ pc[d] \in Leaving /\ final[d] = "CONDITION_HALTED"
      /\ pc'[d] = "failed" /\ final'[d] = "FAILED" /\ at'[d] = held[d]
    BY DEF Inv, HaltThrows, Leaving, Goto, Put, TypeOK, rows, world
<1>2. StillOpen \/ run.status = "CONDITION_HALTED"
  <2>1. CASE pc[d] = "notify"
    <3>1. run.status \in {"CONDITION_HALTED", "CANCELLED"}  BY <1>1, <2>1 DEF Walk, Closing
    <3> QED BY <3>1 DEF StillOpen
  <2>2. CASE pc[d] # "notify"  BY <1>1, <2>2, EndingIsOpen DEF Leaving
  <2> QED BY <2>1, <2>2
<1>3. \A j \in StepIds : j < at'[d] => Settled(j)'  BY <1>1 DEF Walk, Closing, Settled
<1>4. Closing(d)'  BY <1>1, <1>3 DEF Closing, Leaving
<1>5. Walk(d)'  BY <1>1, <1>2, <1>4 DEF Walk, Standing, StillOpen
<1>6. Tidy'  BY <1>1, TidyRests
<1> QED BY <1>5, <1>6

LEMMA SkipsAlone ==
    ASSUME Inv, NEW d \in Drivers, Walk(d), Tidy, SkipRead(d) \/ SkipNext(d)
    PROVE  Walk(d)' /\ Tidy'
<1>0. /\ TypeOK /\ UNCHANGED <<run, met, children, effects>> /\ pc[d] \in {"skip", "skipping"}
      /\ final' = final /\ held' = held
    BY DEF Inv, SkipRead, SkipNext, Goto, rows, world
<1>p. PICK p \in Nat : p = at[d]  BY <1>0 DEF TypeOK
<1>1. /\ p \in Nat /\ p >= 1 /\ final[d] # "SUCCEEDED" /\ Reason(final[d])
      /\ \A j \in StepIds : j < p => Settled(j)
      /\ final[d] = "CONDITION_HALTED" => \A j \in StepIds : j < held[d] => Settled(j)
    BY <1>0, <1>p DEF Inv, Local, Place, Walk, Closing, Leaving
<1>o. StillOpen \/ run.status = "CONDITION_HALTED"  BY <1>0, EndingIsOpen
<1>k. /\ \A j \in StepIds : Settled(j) => Settled(j)'
      /\ \A j \in StepIds : steps'[j].child = steps[j].child
      /\ \A j \in StepIds : steps[j].status = "FAILED" => steps'[j].status = "FAILED"
      /\ \A j \in StepIds : p < j => steps'[j] = steps[j]
      /\ SkipNext(d) /\ p \in StepIds => Settled(p)'
  <2>1. CASE steps' = steps /\ (SkipNext(d) /\ p \in StepIds => steps[p].status \in {"OK", "FAILED"})
    BY <2>1 DEF Settled
  <2>2. CASE /\ SkipNext(d) /\ p \in StepIds /\ steps[p].status \notin {"OK", "FAILED"}
             /\ steps' = Put(steps, p, [steps[p] EXCEPT !.status = "SKIPPED"])
    <3>1. /\ steps'[p].status = "SKIPPED" /\ steps'[p].child = steps[p].child
          /\ \A j \in StepIds \ {p} : steps'[j] = steps[j]
        BY <1>0, <2>2 DEF Put, TypeOK, StepRows
    <3>2. \A j \in StepIds : p < j => j # p  BY <1>1, StepFacts
    <3> QED BY <2>2, <3>1, <3>2 DEF Settled
  <2>3. CASE SkipNext(d) /\ p \in StepIds
    <3>1. seen[d][p] = steps[p]
      <4>1. pc[d] = "skipping" /\ p >= p  BY <1>1, <2>3 DEF SkipNext
      <4> QED BY <1>p, <2>3, <4>1 DEF Walk, Closing
    <3>2. ~ (p > Len(Workflow))  BY <2>3, StepFacts DEF StepIds
    <3>3. \/ steps[p].status \in {"OK", "FAILED"} /\ steps' = steps
          \/ /\ steps[p].status \notin {"OK", "FAILED"}
             /\ steps' = Put(steps, p, [steps[p] EXCEPT !.status = "SKIPPED"])
        BY <1>p, <2>3, <3>1, <3>2 DEF SkipNext, StepStatus, SetStep
    <3> QED BY <2>1, <2>2, <2>3, <3>3
  <2>4. CASE SkipNext(d) /\ p \notin StepIds
    <3>1. p > Len(Workflow)  BY <1>1, <2>4, StepFacts DEF StepIds
    <3>2. steps' = steps  BY <1>p, <2>4, <3>1 DEF SkipNext
    <3> QED BY <2>1, <2>4, <3>2
  <2>5. CASE SkipRead(d) /\ ~ SkipNext(d)
    <3>1. steps' = steps  BY <2>5 DEF SkipRead, rows
    <3> QED BY <2>1, <2>5, <3>1
  <2> QED BY <2>3, <2>4, <2>5
<1>2. Tidy'  BY <1>0, <1>o, <1>k, TidyEnds
<1>3. Reason(final[d])'
  <2>1. \A j \in StepIds : RecordedEnd(j, "credit_limit") => RecordedEnd(j, "credit_limit")'
      BY <1>0, <1>k DEF RecordedEnd
  <2> QED BY <1>0, <1>1, <1>k, <2>1 DEF Reason
<1>h. final'[d] = "CONDITION_HALTED" => \A j \in StepIds : j < held'[d] => Settled(j)'
    BY <1>0, <1>1, <1>k
<1>4. CASE SkipRead(d)
  <2>1. /\ pc'[d] = "skipping" /\ at' = at /\ steps' = steps /\ seen'[d] = steps
      BY <1>0, <1>p, <1>4 DEF SkipRead, Goto, Put, TypeOK, rows
  <2>2. \A j \in StepIds : j < at'[d] => Settled(j)'  BY <1>1, <1>p, <1>k, <2>1
  <2>3. Closing(d)'  BY <1>0, <1>1, <1>3, <1>h, <2>1, <2>2 DEF Closing, Leaving
  <2> QED BY <1>0, <1>2, <1>o, <2>1, <2>3 DEF Walk, Standing, Inside, StillOpen
<1>5. CASE SkipNext(d) /\ p > Len(Workflow)
  <2>1. /\ pc[d] = "skipping" /\ pc'[d] = "finalize" /\ steps' = steps
      BY <1>0, <1>p, <1>5 DEF SkipNext, Goto, TypeOK
  <2>2. \A j \in StepIds : Settled(j)'
    <3>1. \A j \in StepIds : j < p  BY <1>1, <1>5, StepFacts DEF StepIds
    <3> QED BY <1>1, <1>k, <3>1
  <2>3. Verdict(final[d])'  BY <1>0, <1>1, <1>3, <2>2 DEF Verdict
  <2>4. Closing(d)'  BY <1>0, <1>h, <2>1, <2>3 DEF Closing, Leaving
  <2> QED BY <1>0, <1>2, <1>o, <2>1, <2>4 DEF Walk, Standing, Inside, StillOpen
<1>6. CASE SkipNext(d) /\ ~ (p > Len(Workflow))
  <2>0. p \in StepIds  BY <1>1, <1>6, StepFacts DEF StepIds
  <2>1. pc[d] = "skipping" /\ pc' = pc /\ at'[d] = p + 1 /\ seen' = seen
      BY <1>0, <1>p, <1>6 DEF SkipNext, Put, TypeOK
  <2>4. \A j \in StepIds : j < p + 1 => Settled(j)'
    <3> SUFFICES ASSUME NEW j \in StepIds, j < p + 1 PROVE Settled(j)'  OBVIOUS
    <3>1. CASE j = p  BY <1>6, <1>k, <2>0, <3>1
    <3>2. CASE j # p
      <4>1. j < p  BY <1>1, <3>2, StepFacts
      <4> QED BY <1>1, <1>k, <4>1
    <3> QED BY <3>1, <3>2
  <2>5. \A j \in StepIds : j >= p + 1 => seen'[d][j] = steps'[j]
    <3> SUFFICES ASSUME NEW j \in StepIds, j >= p + 1 PROVE seen'[d][j] = steps'[j]  OBVIOUS
    <3>1. j >= p /\ p < j  BY <1>1, StepFacts
    <3> QED BY <1>p, <1>k, <2>1, <3>1 DEF Walk, Closing
  <2>6. Closing(d)'  BY <1>0, <1>1, <1>3, <1>h, <2>1, <2>4, <2>5 DEF Closing, Leaving
  <2> QED BY <1>0, <1>2, <1>o, <2>1, <2>6 DEF Walk, Standing, Inside, StillOpen
<1> QED BY <1>4, <1>5, <1>6

LEMMA CloseAlone ==
    ASSUME Inv, NEW d \in Drivers, Walk(d), Tidy, Close(d)
    PROVE  Walk(d)' /\ Tidy'
<1>0. TypeOK /\ UNCHANGED <<steps, met, children, effects>>
    BY DEF Inv, Close, Finalize, Notify, rows, world
<1>1. CASE Finalize(d) /\ run.status \notin Terminal
  <2>1. /\ pc[d] = "finalize" /\ pc'[d] = "notify" /\ run'.status = final[d]
        /\ UNCHANGED <<held, final>>
      BY <1>0, <1>1 DEF Finalize, Goto, TypeOK, locals
  <2>2. Verdict(final[d])  BY <2>1 DEF Walk, Closing
  <2>3. Verdict(run.status)'  BY <1>0, <2>1, <2>2 DEF Verdict, Reason, RecordedEnd, Settled, Good
  <2>4. OneChildPerStep' /\ \E f \in 0 .. Len(Workflow) : Front(f)'
      BY <1>0 DEF Tidy, OneChildPerStep, Front, Clean
  <2>5. Closing(d)'  BY <1>0, <2>1 DEF Walk, Closing, Leaving, Settled
  <2>6. Walk(d)'  BY <2>1, <2>5 DEF Walk, Standing, Inside
  <2> QED BY <2>3, <2>4, <2>6 DEF Tidy
<1>2. CASE Finalize(d) /\ run.status \in Terminal
  <2>1. pc'[d] = "idle" /\ run' = run
      BY <1>0, <1>2 DEF Finalize, Return, Goto, TypeOK
  <2>2. Tidy'  BY <1>0, <2>1, TidyRests
  <2> QED BY <1>2, <2>1, <2>2 DEF Walk, Closing, Leaving, Standing, Inside
<1>3. CASE Notify(d)
  <2>1. pc[d] = "notify" /\ pc'[d] = "idle" /\ run' = run
      BY <1>0, <1>3 DEF Notify, Return, Goto, TypeOK, rows
  <2>2. run.status \in Terminal  BY <2>1 DEF Inv, OneNotice
  <2>3. Tidy'  BY <1>0, <2>1, TidyRests
  <2> QED BY <2>1, <2>2, <2>3 DEF Walk, Closing, Leaving, Standing, Inside
<1> QED BY <1>1, <1>2, <1>3 DEF Close

(* Whatever else happens leaves the invocation where it is. *)
LEMMA WalkStays ==
    ASSUME NEW d \in Drivers, Walk(d),
           UNCHANGED <<steps, met, children, effects, pc, at, seen, held, ctx, final>>,
           run'.status \notin Terminal => run.status \notin Terminal,
           run'.status \in {run.status, "CANCELLED"}
    PROVE  Walk(d)'
<1>1. Ahead(d) => Ahead(d)'  BY DEF Ahead, Before, After, Good, Blank, Clean
<1>2. Hand(d, at[d]) => Hand(d, at[d])'  BY DEF Hand, Blank, Waiting, Driven, Claimed, Clean
<1>3. Resting => Resting'  BY RestsOn
<1>4. Closing(d)'  BY DEF Walk, Closing, Verdict, Reason, RecordedEnd, Settled, Good
<1> QED BY <1>1, <1>2, <1>3, <1>4 DEF Walk

LEMMA CancelAlone ==
    ASSUME Inv, NEW d \in Drivers, Walk(d), Tidy, CancelRead \/ CancelPatch
    PROVE  Walk(d)' /\ Tidy'
<1>1. UNCHANGED <<steps, met, children, effects, pc, at, seen, held, ctx, final>>
    BY DEF CancelRead, CancelPatch, rows, world, locals
<1>2. /\ run'.status \notin Terminal => run.status \notin Terminal
      /\ run'.status \in {run.status, "CANCELLED"}
  <2>1. CASE CancelRead  BY <2>1 DEF CancelRead, rows
  <2>2. CASE CancelPatch /\ canceller = "QUEUED"
    <3>1. run'.status = "CANCELLED"  BY <2>2 DEF CancelPatch
    <3> QED BY <3>1 DEF Terminal
  <2>3. CASE CancelPatch /\ canceller # "QUEUED"
    <3>1. run'.status = run.status  BY <2>3 DEF CancelPatch, Inv, TypeOK
    <3> QED BY <3>1
  <2> QED BY <2>1, <2>2, <2>3
<1>3. Walk(d)'  BY <1>1, <1>2, WalkStays
<1>4. CASE run'.status = run.status  BY <1>1, <1>3, <1>4, TidyRests
<1>5. CASE run'.status = "CANCELLED"  BY <1>1, <1>3, <1>5, TidyStays DEF StillOpen
<1> QED BY <1>2, <1>4, <1>5

LEMMA AloneInit == ASSUME Init, NEW d \in Drivers PROVE Walk(d) /\ Tidy
<1>1. \A j \in StepIds : Blank(j) /\ Len(children[j]) <= 1
  <2> SUFFICES ASSUME NEW j \in StepIds PROVE Blank(j) /\ Len(children[j]) <= 1  OBVIOUS
  <2>1. steps[j] = NoRow /\ children[j] = <<>> /\ effects[j] = 0  BY DEF Init, NoRows
  <2> QED BY <2>1 DEF Blank, Clean
<1>2. pc[d] = "idle" /\ run.status = "QUEUED"  BY DEF Init
<1>3. Walk(d)  BY <1>1, <1>2 DEF Walk, Resting, Closing, Leaving, Standing, Inside, Terminal
<1>4. Verdict(run.status)  BY <1>2 DEF Verdict, Reason
<1>5. OneChildPerStep  BY <1>1 DEF OneChildPerStep
<1>6. Front(0) /\ 0 \in 0 .. Len(Workflow)  BY <1>1, StepFacts DEF Front, Blank
<1> QED BY <1>3, <1>4, <1>5, <1>6 DEF Tidy

LEMMA AloneStep ==
    ASSUME NEW d \in Drivers, Drivers = {d}, MaxCrashes = 0, Inv, AloneInv(d), [Next]_vars
    PROVE  AloneInv(d)'
<1>1. Walk(d) /\ Tidy  BY DEF AloneInv
<1>2. CASE Drive(d)
  <2>1. CASE Begin(d)  BY <1>1, <2>1, BeginAlone DEF AloneInv
  <2>2. CASE Enter(d)  BY <1>1, <2>2, EnterAlone DEF AloneInv
  <2>3. CASE Work(d)  BY <1>1, <2>3, WorkAlone DEF AloneInv
  <2>4. CASE Finish(d)
      BY <1>1, <2>4, StepOkAlone, StopAlone, HaltThrowsAlone, SkipsAlone DEF AloneInv, Finish
  <2>5. CASE Close(d)  BY <1>1, <2>5, CloseAlone DEF AloneInv
  <2> QED BY <1>2, <2>1, <2>2, <2>3, <2>4, <2>5 DEF Drive
<1>3. ~ Crash(d)  BY DEF Crash, Inv, TypeOK
<1>4. CASE CancelRead \/ CancelPatch  BY <1>1, <1>4, CancelAlone DEF AloneInv
<1>5. CASE UNCHANGED vars
  <2>1. UNCHANGED <<run, steps, met, children, effects, pc, at, seen, held, ctx, final>>
      BY <1>5 DEF vars
  <2> QED BY <1>1, <2>1, WalkStays, TidyRests DEF AloneInv
<1> QED BY <1>2, <1>3, <1>4, <1>5 DEF Next

(* An invocation that has the run for itself and is not killed goes through    *)
(* the steps in order: no step is begun, not even by a later pass that resumes *)
(* the run, before every agent run before it has succeeded and every condition *)
(* before it is satisfied (dispatchAutomationRun's loop over the snapshot).    *)
THEOREM StepsGateAlone ==
    ASSUME NEW d \in Drivers, Drivers = {d}, MaxCrashes = 0
    PROVE  Spec => []StepsGate
<1>1. Init => AloneInv(d)  BY AloneInit DEF AloneInv
<1>2. Inv /\ AloneInv(d) /\ [Next]_vars => AloneInv(d)'  BY AloneStep
<1>3. AloneInv(d) => StepsGate
  <2> SUFFICES ASSUME AloneInv(d) PROVE StepsGate  OBVIOUS
  <2>1. PICK f \in 0 .. Len(Workflow) : Front(f)  BY DEF AloneInv, Tidy
  <2>2. ASSUME NEW i \in StepIds, HasEffect(i), NEW j \in StepIds, j < i
        PROVE  /\ Workflow[j] = "agent_run" => children[j] = <<"succeeded">>
               /\ Workflow[j] = "condition" => j \in met
    <3>1. ~ (i > f)  BY <2>1, <2>2 DEF Front, Clean, HasEffect
    <3>2. j < f  BY <2>1, <2>2, <3>1, StepFacts
    <3> QED BY <2>1, <3>2 DEF Front
  <2>3. \A s : s = <<"succeeded">> => \E c \in DOMAIN s : s[c] = "succeeded"
    <3>1. 1 \in DOMAIN <<"succeeded">> /\ <<"succeeded">>[1] = "succeeded"  OBVIOUS
    <3> QED BY <3>1
  <2>4. AgentsGate  BY <2>2, <2>3 DEF AgentsGate, OfKind
  <2>5. ConditionsGate  BY <2>2 DEF ConditionsGate, OfKind
  <2> QED BY <2>4, <2>5 DEF StepsGate
<1> QED BY <1>1, <1>2, <1>3, Invariance, PTL DEF Spec

(* Alone and not killed, it starts no second child run for an agent step,      *)
(* however often the run yields, is resumed or cancelled.                      *)
THEOREM OneChildAlone ==
    ASSUME NEW d \in Drivers, Drivers = {d}, MaxCrashes = 0
    PROVE  Spec => []OneChildPerStep
<1>1. Init => AloneInv(d)  BY AloneInit DEF AloneInv
<1>2. Inv /\ AloneInv(d) /\ [Next]_vars => AloneInv(d)'  BY AloneStep
<1>3. AloneInv(d) => OneChildPerStep  BY DEF AloneInv, Tidy
<1> QED BY <1>1, <1>2, <1>3, Invariance, PTL DEF Spec

(* And the end it writes is the one its steps had, where every condition looks *)
(* at the agent step closest before it.  Without that the run can stop at a    *)
(* condition the agents' results satisfy: a pass that resumes the run rebuilds *)
(* its context without what the agents found (rebuildContext).                 *)
THEOREM EndsAsItsStepsSayAlone ==
    ASSUME NEW d \in Drivers, Drivers = {d}, MaxCrashes = 0, NearReads
    PROVE  Spec => []EndsAsItsStepsSay
<1>1. Init => AloneInv(d)  BY AloneInit DEF AloneInv
<1>2. Inv /\ AloneInv(d) /\ [Next]_vars => AloneInv(d)'  BY AloneStep
<1>3. AloneInv(d) => EndsAsItsStepsSay
  <2> SUFFICES ASSUME AloneInv(d) PROVE EndsAsItsStepsSay  OBVIOUS
  <2>1. Verdict(run.status)  BY DEF AloneInv, Tidy
  <2>2. ASSUME NEW i \in StepIds, Good(i) PROVE steps[i].status = "OK" /\ Worked(i)
    <3>1. CASE Workflow[i] = "agent_run"
      <4>1. steps[i].child = 1 /\ children[i] = <<"succeeded">>  BY <2>2, <3>1 DEF Good
      <4>2. 1 \in DOMAIN children[i] /\ children[i][1] = "succeeded"  BY <4>1
      <4> QED BY <2>2, <3>1, <4>1, <4>2 DEF Worked, RecordedEnd, Good
    <3>2. CASE Workflow[i] # "agent_run"  BY <2>2, <3>2 DEF Worked, Good
    <3> QED BY <3>1, <3>2
  <2> QED BY <2>1, <2>2 DEF EndsAsItsStepsSay, Verdict, Reason, Settled
<1> QED BY <1>1, <1>2, <1>3, Invariance, PTL DEF Spec

-----------------------------------------------------------------------------
(***************************************************************************)
(* One invocation at a time that may be killed at any await.  A step that   *)
(* leads (no condition is at or before it) and is SKIPPED has been skipped  *)
(* by a cancellation or behind a failure.  Whoever resumes the run sees the *)
(* one at its first check, and stops at the other, for nothing that is not  *)
(* finished comes before a FAILED row, not even when the condition at which *)
(* the run halts becomes one.                                               *)
(***************************************************************************)
Over(j) == steps[j].status \in {"OK", "SKIPPED"}
Failed(j) == steps[j].status = "FAILED"

LeadTrue ==
    \A j \in Leading :
        /\ steps[j].status = "OK" => Done(j)
        /\ steps[j].status = "SKIPPED" => run.cancel \/ \E k \in StepIds : k < j /\ Failed(k)
FailedFirst == \A k \in StepIds : Failed(k) => \A i \in StepIds : i < k => Over(i)

AtStep(d) ==
    /\ \A j \in StepIds : j < at[d] => Over(j)
    /\ ~ Over(at[d]) /\ ~ Failed(at[d])
    /\ \A j \in StepIds : j > at[d] => seen[d][j] = steps[j]
    /\ pc[d] \in {"check", "append"} => seen[d][at[d]] = steps[at[d]]
    /\ pc[d] # "check" => \A j \in Leading : j < at[d] => Done(j)
    /\ pc[d] = "ok" /\ at[d] \in Leading => Done(at[d])
    /\ pc[d] = "halt" => Workflow[at[d]] = "condition"

Unfailed(i) == (\A j \in StepIds : j < i => Over(j)) /\ \A k \in StepIds : ~ Failed(k)

Excused(d) ==
    \/ run.cancel
    \/ \E k \in StepIds : k < at[d] /\ Failed(k)
    \/ \E k \in OfKind("condition") : k < at[d]

Tread(d) ==
    /\ pc[d] \in Standing => AtStep(d)
    /\ pc[d] = "failed" => Unfailed(at[d])
    /\ pc[d] \in {"skip", "skipping"} => Excused(d)
    /\ pc[d] = "skipping" => \A j \in StepIds : j >= at[d] => seen[d][j] = steps[j]
    /\ pc[d] \in Leaving /\ final[d] = "CONDITION_HALTED" => Unfailed(held[d])

KilledInv(d) == LeadTrue /\ FailedFirst /\ GateToCondition /\ Tread(d)

(* Work done stays done. *)
Lasts == \A j \in StepIds : Done(j) => Done(j)'

LEMMA LeadingFacts ==
    /\ Leading \subseteq StepIds
    /\ \A j \in Leading : Workflow[j] # "condition"
    /\ \A j \in Leading, k \in OfKind("condition") : ~ (k < j)
BY StepFacts DEF Leading, OfKind

LEMMA NothingFailed ==
    ASSUME NEW d \in Drivers, AtStep(d), NEW p \in StepIds, p = at[d], FailedFirst
    PROVE  Unfailed(p)
<1> SUFFICES ASSUME NEW k \in StepIds, Failed(k) PROVE FALSE
    BY DEF Unfailed, AtStep
<1>1. p \in Nat /\ k \in Nat  BY StepFacts
<1>2. ~ (k < p) /\ k # p  BY DEF AtStep, Over, Failed
<1>3. p < k  BY <1>1, <1>2
<1> QED BY <1>3 DEF FailedFirst, AtStep

(* Steps that leave the rows and the work alone. *)
LEMMA KilledRests ==
    ASSUME NEW d \in Drivers, KilledInv(d), UNCHANGED <<steps, children, effects>>,
           run.cancel => run'.cancel, Tread(d)'
    PROVE  KilledInv(d)'
BY DEF KilledInv, LeadTrue, FailedFirst, GateToCondition, HasEffect, Done, Over, Failed

(* Steps that change one row, which is not finished before nor after. *)
LEMMA KilledRow ==
    ASSUME TypeOK, NEW d \in Drivers, KilledInv(d), run' = run, UNCHANGED <<children, effects>>,
           NEW p \in StepIds, ~ Over(p), ~ Failed(p), ~ Over(p)', ~ Failed(p)',
           \A j \in StepIds \ {p} : steps'[j] = steps[j], Tread(d)'
    PROVE  KilledInv(d)'
<1>1. LeadTrue'
  <2> SUFFICES ASSUME NEW j \in Leading
               PROVE  /\ steps'[j].status = "OK" => Done(j)'
                      /\ steps'[j].status = "SKIPPED" => run'.cancel \/ \E k \in StepIds : k < j /\ Failed(k)'
      BY DEF LeadTrue
  <2>1. j # p => steps'[j] = steps[j]  BY LeadingFacts
  <2>2. j = p => ~ Over(j)'  OBVIOUS
  <2>3. \A k \in StepIds : Failed(k) => Failed(k)'  BY DEF Failed
  <2>4. Done(j) => Done(j)'  BY DEF Done
  <2> QED BY <2>1, <2>2, <2>3, <2>4 DEF KilledInv, LeadTrue, Over
<1>2. FailedFirst'
  <2> SUFFICES ASSUME NEW k \in StepIds, Failed(k)', NEW i \in StepIds, i < k PROVE Over(i)'
      BY DEF FailedFirst
  <2>1. k # p /\ Failed(k)  BY DEF Failed
  <2>2. Over(i)  BY <2>1 DEF KilledInv, FailedFirst
  <2> QED BY <2>2 DEF Over
<1>3. GateToCondition'  BY DEF KilledInv, GateToCondition, HasEffect, Done
<1> QED BY <1>1, <1>2, <1>3 DEF KilledInv

(* Where the loop goes on after the step at hand, or begins. *)
LEMMA GoOnFirst ==
    ASSUME NEW d \in Drivers, NEW from, NEW i \in Nat \ {0}, NEW known, GoOnAt(d, from, i, known)
    PROVE  \/ /\ Goto(d, from, "finalize")
              /\ \E s \in {"SUCCEEDED", "FAILED"} : final' = Put(final, d, s)
           \/ \E n \in StepIds :
                /\ Goto(d, from, "check") /\ at' = Put(at, d, n) /\ n >= i
                /\ known[n].status \notin {"OK", "SKIPPED", "FAILED"}
                /\ \A j \in StepIds : j >= i /\ j < n => known[j].status \in {"OK", "SKIPPED"}
<1> DEFINE left == {j \in i .. Len(Workflow) : known[j].status \notin {"OK", "SKIPPED"}}
           next == CHOOSE j \in left : \A k \in left : j <= k
<1>1. CASE left = {}  BY <1>1 DEF GoOnAt
<1>2. CASE left # {}
  <2>1. left \in SUBSET Nat  BY StepFacts
  <2>2. next \in left /\ \A k \in left : next <= k  BY <1>2, <2>1, LeastStep
  <2>3. next \in StepIds /\ next >= i /\ next \in Nat  BY <2>2, StepFacts DEF StepIds
  <2>4. \A j \in StepIds : j >= i /\ j < next => known[j].status \in {"OK", "SKIPPED"}
    <3> SUFFICES ASSUME NEW j \in StepIds, j >= i, j < next, known[j].status \notin {"OK", "SKIPPED"}
                 PROVE  FALSE
        OBVIOUS
    <3>1. j \in left /\ j \in Nat  BY StepFacts DEF StepIds
    <3>2. next <= j  BY <2>2, <3>1
    <3> HIDE DEF next
    <3> QED BY <2>3, <3>1, <3>2
  <2>5. known[next].status \notin {"OK", "SKIPPED"}  BY <2>2
  <2>6. \/ Goto(d, from, "finalize") /\ final' = Put(final, d, "FAILED")
        \/ /\ known[next].status # "FAILED"
           /\ Goto(d, from, "check") /\ at' = Put(at, d, next)
      BY <1>2 DEF GoOnAt
  <2> HIDE DEF next
  <2> QED BY <2>3, <2>4, <2>5, <2>6
<1> QED BY <1>1, <1>2

LEMMA BeginKilled ==
    ASSUME Inv, NEW d \in Drivers, KilledInv(d), Begin(d)
    PROVE  KilledInv(d)'
<1>0. /\ TypeOK /\ UNCHANGED <<steps, children, effects>>
      /\ run.cancel => run'.cancel
    BY DEF Inv, TypeOK, Begin, Load, ClaimRun, Reread, Snapshot, rows, world
<1>1. CASE Load(d) \/ ClaimRun(d) \/ Reread(d)
  <2>1. pc'[d] \in {"claim", "snapshot", "reread", "idle"}
      BY <1>0, <1>1 DEF Load, ClaimRun, Reread, Return, Goto, TypeOK
  <2>2. Tread(d)'  BY <2>1 DEF Tread, Standing, Inside, Leaving
  <2> QED BY <1>0, <2>2, KilledRests
<1>2. CASE Snapshot(d)
  <2>1. GoOnAt(d, "snapshot", 1, steps) /\ seen' = Put(seen, d, steps)  BY <1>2 DEF Snapshot
  <2>2. seen'[d] = steps /\ 1 \in Nat \ {0}  BY <1>0, <2>1 DEF TypeOK, Put
  <2>3. CASE Goto(d, "snapshot", "finalize") /\ \E s \in {"SUCCEEDED", "FAILED"} : final' = Put(final, d, s)
    <3>1. pc'[d] = "finalize" /\ final'[d] # "CONDITION_HALTED"  BY <1>0, <2>3 DEF Goto, Put, TypeOK
    <3> QED BY <1>0, <3>1, KilledRests DEF Tread, Standing, Inside, Leaving
  <2>4. ASSUME NEW n \in StepIds, Goto(d, "snapshot", "check"), at' = Put(at, d, n),
               steps[n].status \notin {"OK", "SKIPPED", "FAILED"},
               \A j \in StepIds : j >= 1 /\ j < n => steps[j].status \in {"OK", "SKIPPED"}
        PROVE  KilledInv(d)'
    <3>1. pc'[d] = "check" /\ at'[d] = n  BY <1>0, <2>4 DEF Goto, Put, TypeOK
    <3>2. AtStep(d)'
        BY <1>0, <2>2, <2>4, <3>1, StepFacts DEF AtStep, Over, Failed
    <3> QED BY <1>0, <3>1, <3>2, KilledRests DEF Tread, Standing, Inside, Leaving
  <2> QED BY <2>1, <2>2, <2>3, <2>4, GoOnFirst
<1> QED BY <1>1, <1>2 DEF Begin

LEMMA EnterKilled ==
    ASSUME Inv, NEW d \in Drivers, KilledInv(d), Enter(d)
    PROVE  KilledInv(d)'
<1>0. TypeOK /\ run' = run /\ UNCHANGED <<children, effects>>
    BY DEF Inv, Enter, CheckCancel, AppendStep, ClaimStep, MarkRunning, rows, world
<1>1. pc[d] \in {"check", "append", "claimStep", "mark"}
    BY DEF Enter, CheckCancel, SkipFrom, AppendStep, ClaimStep, MarkRunning, Goto
<1>2. PICK p \in StepIds : p = at[d]
    BY <1>1 DEF Inv, Local, Place, Inside
<1>3. AtStep(d) /\ ~ Over(p) /\ ~ Failed(p)
    BY <1>1, <1>2 DEF KilledInv, Tread, Standing, Inside, Leaving, AtStep
<1>4. CASE CheckCancel(d)
  <2>1. pc[d] = "check" /\ steps' = steps /\ seen' = seen
      BY <1>4 DEF CheckCancel, SkipFrom, Goto, rows
  <2>2. CASE run.cancel
    <3>1. pc'[d] = "skip" /\ final'[d] = "CANCELLED"
        BY <1>0, <1>4, <2>2 DEF CheckCancel, SkipFrom, Goto, Put, TypeOK
    <3>2. Tread(d)'  BY <1>0, <2>2, <3>1 DEF Tread, Standing, Inside, Leaving, Excused
    <3> QED BY <1>0, <2>1, <3>2, KilledRests
  <2>3. CASE ~ run.cancel
    <3>1. pc'[d] = "append" /\ at' = at  BY <1>0, <1>4, <2>3 DEF CheckCancel, Goto, TypeOK
    <3>2. ASSUME NEW j \in Leading, j < p PROVE Done(j)
      <4>1. j \in StepIds /\ Over(j)  BY <1>2, <1>3, <3>2, LeadingFacts DEF AtStep
      <4>2. ~ \E k \in StepIds : k < j /\ Failed(k)
          BY <1>2, <1>3, <3>2, <4>1, StepFacts DEF AtStep, Over, Failed
      <4> QED BY <2>3, <4>1, <4>2 DEF KilledInv, LeadTrue, Over
    <3>3. AtStep(d)'
        BY <1>0, <1>2, <1>3, <2>1, <3>1, <3>2 DEF AtStep, Over, Failed, Done
    <3> QED BY <1>0, <2>1, <3>1, <3>3, KilledRests DEF Tread, Standing, Inside, Leaving
  <2> QED BY <2>2, <2>3
<1>5. CASE AppendStep(d)
  <2> DEFINE fresh == IF steps[p].status = "none" THEN [NoRow EXCEPT !.status = "PENDING"] ELSE steps[p]
             row == IF seen[d][p].status = "none" THEN fresh ELSE seen[d][p]
  <2>1. /\ pc[d] = "append" /\ pc'[d] \in {"claimStep", "mark"} /\ at' = at
        /\ steps' = IF seen[d][p].status = "none" THEN [steps EXCEPT ![p] = fresh] ELSE steps
        /\ seen' = [seen EXCEPT ![d] = [seen[d] EXCEPT ![p] = row]]
      BY <1>0, <1>2, <1>5 DEF AppendStep, Goto, Put, TypeOK
  <2>2. seen[d][p] = steps[p]  BY <1>2, <1>3, <2>1 DEF AtStep
  <2>3. /\ \A j \in StepIds \ {p} : steps'[j] = steps[j] /\ seen'[d][j] = seen[d][j]
        /\ steps'[p] = fresh
    <3> HIDE DEF fresh, row
    <3>1. seen'[d] = [seen[d] EXCEPT ![p] = row]  BY <1>0, <2>1 DEF TypeOK
    <3>2. steps'[p] = fresh
        BY <1>0, <2>1, <2>2 DEF TypeOK, fresh
    <3> QED BY <1>0, <2>1, <3>1, <3>2 DEF TypeOK
  <2>4. fresh.status = "PENDING" \/ fresh = steps[p]  BY DEF NoRow
  <2> HIDE DEF fresh, row
  <2>5. ~ Over(p)' /\ ~ Failed(p)'  BY <1>3, <2>3, <2>4 DEF Over, Failed
  <2>6. AtStep(d)'
      BY <1>0, <1>2, <1>3, <2>1, <2>3, <2>5, StepFacts DEF AtStep, Over, Failed, Done
  <2> QED BY <1>0, <1>3, <2>1, <2>3, <2>5, <2>6, KilledRow DEF Tread, Standing, Inside, Leaving
<1>6. CASE ClaimStep(d)
  <2>1. CASE steps[p].status = "PENDING"
    <3>1. /\ pc[d] = "claimStep" /\ pc'[d] = "mark" /\ at' = at /\ seen' = seen
          /\ steps'[p].status = "RUNNING" /\ \A j \in StepIds \ {p} : steps'[j] = steps[j]
      <4>1. Goto(d, "claimStep", "mark") /\ StepStatus(d, "RUNNING") /\ UNCHANGED locals
          BY <1>2, <1>6, <2>1 DEF ClaimStep
      <4> QED BY <1>0, <1>2, <4>1 DEF Goto, StepStatus, SetStep, Put, TypeOK, StepRows, locals
    <3>2. ~ Over(p)' /\ ~ Failed(p)'  BY <3>1 DEF Over, Failed
    <3>3. AtStep(d)'
        BY <1>0, <1>2, <1>3, <3>1, <3>2, StepFacts DEF AtStep, Over, Failed, Done
    <3> QED BY <1>0, <1>3, <3>1, <3>2, <3>3, KilledRow DEF Tread, Standing, Inside, Leaving
  <2>2. CASE steps[p].status # "PENDING"
    <3>1. pc'[d] = "idle" /\ steps' = steps
        BY <1>0, <1>2, <1>6, <2>2 DEF ClaimStep, Return, Goto, TypeOK
    <3>2. Tread(d)'  BY <3>1 DEF Tread, Standing, Inside, Leaving
    <3> QED BY <1>0, <3>1, <3>2, KilledRests
  <2> QED BY <2>1, <2>2
<1>7. CASE MarkRunning(d)
  <2>1. /\ pc[d] = "mark" /\ pc'[d] = "execute" /\ at' = at /\ seen' = seen
        /\ steps'[p].status = "RUNNING" /\ \A j \in StepIds \ {p} : steps'[j] = steps[j]
      BY <1>0, <1>2, <1>7 DEF MarkRunning, Goto, StepStatus, SetStep, Put, TypeOK, StepRows, locals
  <2>2. ~ Over(p)' /\ ~ Failed(p)'  BY <2>1 DEF Over, Failed
  <2>3. AtStep(d)'
      BY <1>0, <1>2, <1>3, <2>1, <2>2, StepFacts DEF AtStep, Over, Failed, Done
  <2> QED BY <1>0, <1>3, <2>1, <2>2, <2>3, KilledRow DEF Tread, Standing, Inside, Leaving
<1> QED BY <1>4, <1>5, <1>6, <1>7 DEF Enter

(* The work on the step at hand: every leading step before it is done. *)
LEMMA KilledWork ==
    ASSUME TypeOK, NEW d \in Drivers, KilledInv(d), UNCHANGED <<run, steps>>, Lasts,
           NEW p \in StepIds, p = at[d], pc[d] \in Standing \ {"check"},
           \A j \in StepIds \ {p} : HasEffect(j)' => HasEffect(j), Tread(d)'
    PROVE  KilledInv(d)'
<1>1. LeadTrue'
  <2> SUFFICES ASSUME NEW j \in Leading
               PROVE  /\ steps[j].status = "OK" => Done(j)'
                      /\ steps[j].status = "SKIPPED" => run.cancel \/ \E k \in StepIds : k < j /\ Failed(k)'
      BY DEF LeadTrue
  <2>1. (Done(j) => Done(j)') /\ \A k \in StepIds : Failed(k) => Failed(k)'
      BY LeadingFacts DEF Lasts, Failed
  <2> QED BY <2>1 DEF KilledInv, LeadTrue
<1>2. FailedFirst'  BY DEF KilledInv, FailedFirst, Failed, Over
<1>3. GateToCondition'
  <2> SUFFICES ASSUME NEW i \in StepIds, HasEffect(i)', NEW j \in Leading, j < i PROVE Done(j)'
      BY DEF GateToCondition
  <2>1. CASE i = p
    <3>1. Done(j)  BY <2>1 DEF KilledInv, Tread, AtStep, Standing
    <3> QED BY <3>1, LeadingFacts DEF Lasts
  <2>2. CASE i # p
    <3>1. Done(j)  BY <2>2 DEF KilledInv, GateToCondition
    <3> QED BY <3>1, LeadingFacts DEF Lasts
  <2> QED BY <2>1, <2>2
<1> QED BY <1>1, <1>2, <1>3 DEF KilledInv

(* What the step at hand knows while it is worked on. *)
LEMMA WorksOn ==
    ASSUME NEW d \in Drivers, NEW p \in StepIds, p = at[d], AtStep(d), pc[d] \in Standing \ {"check"},
           pc'[d] \in Standing \ {"check", "append"}, UNCHANGED <<steps, at, seen>>, Lasts,
           pc'[d] = "ok" /\ p \in Leading => Done(p)',
           pc'[d] = "halt" => Workflow[p] = "condition"
    PROVE  Tread(d)'
<1>1. \A j \in Leading : j < p => Done(j)'
    BY LeadingFacts DEF AtStep, Lasts
<1>2. AtStep(d)'  BY <1>1 DEF AtStep, Over, Failed
<1> QED BY <1>2 DEF Tread, Standing, Inside, Leaving

(* An attempt at a step may fail wherever it is. *)
LEMMA FailKilled ==
    ASSUME Inv, NEW d \in Drivers, KilledInv(d), pc[d] \in Standing, NEW status, Fail(d, pc[d], status),
           UNCHANGED <<run, steps, children, effects>>
    PROVE  KilledInv(d)'
<1>1. PICK p \in StepIds : p = at[d]  BY DEF Inv, Local, Place, Standing
<1>2. Unfailed(p)  BY <1>1, NothingFailed DEF KilledInv, Tread
<1>3. pc'[d] = "failed" /\ at' = at  BY DEF Fail, Goto, Inv, TypeOK
<1>4. Unfailed(at[d])'  BY <1>1, <1>2, <1>3 DEF Unfailed, Over, Failed
<1>5. Tread(d)'  BY <1>3, <1>4 DEF Tread, Standing, Inside, Leaving
<1> QED BY <1>5, KilledRests

LEMMA WorkKilled ==
    ASSUME Inv, NEW d \in Drivers, KilledInv(d), Work(d)
    PROVE  KilledInv(d)'
<1>0. TypeOK /\ run' = run
    BY DEF Inv, Work, StepThrows, Evaluate, Child, StartChild, RecordChild, ResumeChild, EndChild,
           ReadChild, DriveOut, Yield, Draft, Save, rows
<1>1. pc[d] \in Standing \ {"check"}
    BY DEF Work, StepThrows, Evaluate, Child, StartChild, RecordChild, ResumeChild, EndChild,
           ReadChild, DriveOut, Yield, Draft, Save, Executes, Goto, Standing, Inside
<1>2. PICK p \in StepIds : p = at[d]
    BY <1>1 DEF Inv, Local, Place, Standing
<1>3. AtStep(d) /\ ~ Over(p) /\ ~ Failed(p) /\ pc[d] \in Standing \ {"check"}
    BY <1>1, <1>2 DEF KilledInv, Tread, AtStep
<1>c. children[p] \in Seq(Ends) /\ Len(children[p]) \in Nat /\ DOMAIN children[p] = 1 .. Len(children[p])
    BY <1>0, ChildFacts
<1>h. pc[d] = "drive" => held[d] \in DOMAIN children[p]
  <2> SUFFICES ASSUME pc[d] = "drive" PROVE held[d] \in DOMAIN children[p]  OBVIOUS
  <2>1. held[d] \in Nat /\ held[d] >= 1 /\ held[d] <= Len(children[at[d]])
      BY <1>0 DEF Inv, TypeOK, Local, Holding, Driving
  <2> QED BY <1>2, <1>c, <2>1
<1>t. CASE StepThrows(d)
  <2>1. Fail(d, pc[d], "FAILED") /\ UNCHANGED <<run, steps, children, effects>>
      BY <1>t DEF StepThrows, rows, world
  <2> QED BY <1>1, <2>1, FailKilled
<1>4. CASE Evaluate(d) \/ ResumeChild(d) \/ DriveOut(d)
  <2>1. UNCHANGED <<steps, children, effects, at, seen>>
      BY <1>4 DEF Evaluate, ResumeChild, DriveOut, rows, world, locals
  <2>2. /\ pc'[d] \in {"ok", "halt", "drive", "yield"}
        /\ pc'[d] \in {"ok", "halt"} => Workflow[p] = "condition"
      BY <1>0, <1>2, <1>4 DEF Evaluate, ResumeChild, DriveOut, Executes, Here, Goto, TypeOK
  <2>3. Lasts  BY <2>1 DEF Lasts, Done
  <2>4. Tread(d)'  BY <1>2, <1>3, <2>1, <2>2, <2>3, WorksOn, LeadingFacts DEF Standing, Inside
  <2> QED BY <1>0, <2>1, <2>4, KilledRests
<1>5. CASE StartChild(d)
  <2>1. /\ UNCHANGED <<steps, effects, at, seen>> /\ pc'[d] = "record"
        /\ children' = [children EXCEPT ![p] = Append(children[p], "open")]
      BY <1>0, <1>2, <1>5 DEF StartChild, Executes, Goto, Put, TypeOK, rows
  <2>2. /\ children'[p] = Append(children[p], "open")
        /\ \A j \in StepIds \ {p} : children'[j] = children[j]
      BY <1>0, <2>1 DEF TypeOK
  <2>3. Lasts
    <3> SUFFICES ASSUME NEW j \in StepIds, Done(j) PROVE Done(j)'  BY DEF Lasts
    <3>1. CASE j # p  BY <2>1, <2>2, <3>1 DEF Done
    <3>2. CASE j = p
      <4>1. CASE effects[p] > 0  BY <2>1, <3>2, <4>1 DEF Done
      <4>2. ASSUME NEW c \in DOMAIN children[p], children[p][c] = "succeeded" PROVE Done(j)'
        <5>1. c \in DOMAIN children'[p] /\ children'[p][c] = "succeeded"
            BY <1>c, <2>2, <4>2 DEF Ends
        <5> QED BY <3>2, <5>1 DEF Done
      <4> QED BY <3>2, <4>1, <4>2 DEF Done
    <3> QED BY <3>1, <3>2
  <2>4. Tread(d)'  BY <1>2, <1>3, <2>1, <2>3, WorksOn DEF Standing, Inside
  <2>5. \A j \in StepIds \ {p} : HasEffect(j)' => HasEffect(j)  BY <2>1, <2>2 DEF HasEffect
  <2> QED BY <1>0, <1>2, <1>3, <2>1, <2>3, <2>4, <2>5, KilledWork
<1>6. CASE EndChild(d)
  <2>e. PICK end \in ChildEnds : children' = Put(children, p, Put(children[p], held[d], end))
      BY <1>2, <1>6 DEF EndChild
  <2>1. /\ children[p][held[d]] = "open" /\ pc[d] = "drive"
        /\ children' = [children EXCEPT ![p] = [children[p] EXCEPT ![held[d]] = end]]
      BY <1>2, <1>6, <2>e DEF EndChild, Put
  <2>2. UNCHANGED <<steps, effects, pc, at, seen>>
      BY <1>6 DEF EndChild, rows, locals
  <2>3. held[d] \in DOMAIN children[p]  BY <1>h, <2>1
  <2>4. /\ DOMAIN children'[p] = DOMAIN children[p]
        /\ children'[p] = [children[p] EXCEPT ![held[d]] = end]
        /\ \A j \in StepIds \ {p} : children'[j] = children[j]
      BY <1>0, <2>1 DEF TypeOK
  <2>5. Lasts
    <3> SUFFICES ASSUME NEW j \in StepIds, Done(j) PROVE Done(j)'  BY DEF Lasts
    <3>1. CASE j # p  BY <2>2, <2>4, <3>1 DEF Done
    <3>2. CASE j = p
      <4>1. CASE effects[p] > 0  BY <2>2, <3>2, <4>1 DEF Done
      <4>2. ASSUME NEW c \in DOMAIN children[p], children[p][c] = "succeeded" PROVE Done(j)'
        <5>1. c # held[d]  BY <2>1, <4>2
        <5>2. c \in DOMAIN children'[p] /\ children'[p][c] = "succeeded"
            BY <1>c, <2>4, <4>2, <5>1
        <5> QED BY <3>2, <5>2 DEF Done
      <4> QED BY <3>2, <4>1, <4>2 DEF Done
    <3> QED BY <3>1, <3>2
  <2>7. Tread(d)'  BY <1>2, <1>3, <2>1, <2>2, <2>5, WorksOn DEF Standing, Inside
  <2>8. \A j \in StepIds \ {p} : HasEffect(j)' => HasEffect(j)  BY <2>2, <2>4 DEF HasEffect
  <2> QED BY <1>0, <1>2, <1>3, <2>2, <2>5, <2>7, <2>8, KilledWork
<1>r. CASE ReadChild(d)
  <2>1. pc[d] = "drive" /\ UNCHANGED <<run, steps, children, effects>>
      BY <1>r DEF ReadChild, rows, world
  <2>2. CASE \E status : Fail(d, "drive", status)  BY <1>1, <2>1, <2>2, FailKilled
  <2>3. CASE ~ \E status : Fail(d, "drive", status)
    <3>1. children[p][held[d]] = "succeeded" /\ Goto(d, "drive", "ok") /\ UNCHANGED locals
        BY <1>2, <1>r, <2>3 DEF ReadChild
    <3>2. pc'[d] = "ok" /\ UNCHANGED <<at, seen>>  BY <1>0, <3>1 DEF Goto, TypeOK, locals
    <3>3. Lasts /\ Done(p)'  BY <1>h, <2>1, <3>1 DEF Lasts, Done
    <3>4. Tread(d)'  BY <1>2, <1>3, <2>1, <3>2, <3>3, WorksOn DEF Standing, Inside
    <3> QED BY <2>1, <3>4, KilledRests
  <2> QED BY <2>2, <2>3
<1>d. CASE Draft(d) /\ \E status : Fail(d, "execute", status)
  <2>1. pc[d] = "execute" /\ UNCHANGED <<run, steps, children>>  BY <1>d DEF Draft, Executes, rows
  <2>2. effects' = effects  BY <1>0, <1>d DEF Draft, Fail, Goto, Inv, TypeOK
  <2> QED BY <1>1, <1>d, <2>1, <2>2, FailKilled
<1>7. CASE (Draft(d) /\ ~ \E status : Fail(d, "execute", status)) \/ Save(d)
  <2>1. /\ UNCHANGED <<steps, children, at, seen>> /\ pc'[d] = "ok"
        /\ \A j \in StepIds \ {p} : effects'[j] = effects[j]
        /\ effects[p] \in Nat
        /\ effects[p] > 0 => effects'[p] > 0
        /\ pc'[d] = "ok" => effects'[p] > 0
      BY <1>0, <1>2, <1>7 DEF Draft, Save, Executes, Goto, Put, TypeOK, rows, locals
  <2>2. Lasts
    <3> SUFFICES ASSUME NEW j \in StepIds, Done(j) PROVE Done(j)'  BY DEF Lasts
    <3> QED BY <2>1 DEF Done
  <2>3. pc'[d] = "ok" => Done(p)'  BY <2>1 DEF Done
  <2>4. Tread(d)'  BY <1>2, <1>3, <2>1, <2>2, <2>3, WorksOn DEF Standing, Inside
  <2>5. \A j \in StepIds \ {p} : HasEffect(j)' => HasEffect(j)  BY <2>1 DEF HasEffect
  <2> QED BY <1>0, <1>2, <1>3, <2>1, <2>2, <2>4, <2>5, KilledWork
<1>8. CASE RecordChild(d)
  <2>1. /\ UNCHANGED <<children, effects, at, seen>> /\ pc[d] = "record" /\ pc'[d] = "drive"
        /\ steps'[p].status = steps[p].status
        /\ \A j \in StepIds \ {p} : steps'[j] = steps[j]
      BY <1>0, <1>2, <1>8 DEF RecordChild, SetStep, Goto, Put, TypeOK, StepRows, world, locals
  <2>2. ~ Over(p)' /\ ~ Failed(p)'  BY <1>3, <2>1 DEF Over, Failed
  <2>3. AtStep(d)'
      BY <1>2, <1>3, <2>1, <2>2, StepFacts DEF AtStep, Over, Failed, Done
  <2> QED BY <1>0, <1>3, <2>1, <2>2, <2>3, KilledRow DEF Tread, Standing, Inside, Leaving
<1>9. CASE Yield(d)
  <2>1. /\ UNCHANGED <<children, effects>> /\ pc'[d] = "idle"
        /\ steps'[p].status = "RUNNING"
        /\ \A j \in StepIds \ {p} : steps'[j] = steps[j]
      BY <1>0, <1>2, <1>9 DEF Yield, Return, SetStep, Goto, Put, TypeOK, world
  <2>2. ~ Over(p)' /\ ~ Failed(p)'  BY <2>1 DEF Over, Failed
  <2>3. Tread(d)'  BY <2>1 DEF Tread, Standing, Inside, Leaving
  <2> QED BY <1>0, <1>3, <2>1, <2>2, <2>3, KilledRow
<1> QED BY <1>t, <1>4, <1>5, <1>6, <1>r, <1>d, <1>7, <1>8, <1>9 DEF Work, Child

LEMMA FinishKilled ==
    ASSUME Inv, NEW d \in Drivers, KilledInv(d), Finish(d)
    PROVE  KilledInv(d)'
<1>0. TypeOK /\ run' = run /\ UNCHANGED <<children, effects>>
    BY DEF Inv, Finish, StepOk, StepHalts, HaltThrows, StepFails, SkipRead, SkipNext, rows, world
<1>d. \A j \in StepIds : Done(j)' <=> Done(j)  BY <1>0 DEF Done
<1>g. GateToCondition'  BY <1>0 DEF KilledInv, GateToCondition, HasEffect, Done
<1>1. ASSUME StepOk(d) \/ StepHalts(d) PROVE KilledInv(d)'
  <2>1. pc[d] \in {"ok", "halt"} /\ pc[d] \in Standing
      BY <1>1 DEF StepOk, StepHalts, GoOnAt, SkipFrom, Goto, Standing, Inside
  <2>2. PICK p \in StepIds : p = at[d]
      BY <2>1 DEF Inv, Local, Place, Inside
  <2>3. AtStep(d) /\ ~ Over(p) /\ ~ Failed(p) /\ p \in Nat /\ p >= 1
      BY <2>1, <2>2, StepFacts DEF KilledInv, Tread, AtStep
  <2>4. \A k \in StepIds : ~ Failed(k)
      BY <2>2, <2>3, NothingFailed DEF KilledInv, Unfailed
  <2>5. steps'[p].status = "OK"
    <3>1. CASE StepOk(d)  BY <1>0, <2>2, <3>1 DEF StepOk, SetStep, Put, TypeOK
    <3>2. CASE StepHalts(d)
        BY <1>0, <2>2, <3>2 DEF StepHalts, StepStatus, SetStep, Put, TypeOK, StepRows
    <3> QED BY <1>1, <3>1, <3>2
  <2>6. \A j \in StepIds \ {p} : steps'[j] = steps[j]
      BY <1>0, <1>1, <2>2 DEF StepOk, StepHalts, StepStatus, SetStep, Put, TypeOK
  <2>7. LeadTrue'
    <3> SUFFICES ASSUME NEW j \in Leading
                 PROVE  /\ steps'[j].status = "OK" => Done(j)'
                        /\ steps'[j].status = "SKIPPED" => run'.cancel \/ \E k \in StepIds : k < j /\ Failed(k)'
        BY DEF LeadTrue
    <3>1. CASE j # p
        BY <1>0, <1>d, <2>4, <2>6, <3>1, LeadingFacts DEF KilledInv, LeadTrue
    <3>2. CASE j = p
      <4>1. StepHalts(d) => Workflow[p] = "condition"  BY <2>2, <2>3 DEF StepHalts, SkipFrom, Goto, AtStep
      <4>2. StepOk(d) => Done(p)  BY <2>2, <2>3, <3>2 DEF StepOk, GoOnAt, Goto, AtStep
      <4> QED BY <1>d, <1>1, <2>5, <3>2, <4>1, <4>2, LeadingFacts
    <3> QED BY <3>1, <3>2
  <2>f. \A k \in StepIds : ~ Failed(k)'  BY <2>4, <2>5, <2>6 DEF Failed
  <2>8. FailedFirst'  BY <2>f DEF FailedFirst
  <2>9. CASE StepOk(d)
    <3>1. GoOnAt(d, "ok", p + 1, seen[d]) /\ seen' = seen /\ p + 1 \in Nat \ {0}
        BY <2>2, <2>3, <2>9 DEF StepOk
    <3>2. CASE Goto(d, "ok", "finalize") /\ \E t \in {"SUCCEEDED", "FAILED"} : final' = Put(final, d, t)
      <4>1. pc'[d] = "finalize" /\ final'[d] # "CONDITION_HALTED"  BY <1>0, <3>2 DEF Goto, Put, TypeOK
      <4> QED BY <1>g, <2>7, <2>8, <4>1 DEF KilledInv, Tread, Standing, Inside, Leaving
    <3>3. ASSUME NEW n \in StepIds, Goto(d, "ok", "check"), at' = Put(at, d, n), n >= p + 1,
                 seen[d][n].status \notin {"OK", "SKIPPED", "FAILED"},
                 \A j \in StepIds : j >= p + 1 /\ j < n => seen[d][j].status \in {"OK", "SKIPPED"}
          PROVE  KilledInv(d)'
      <4>1. pc'[d] = "check" /\ at'[d] = n  BY <1>0, <3>3 DEF Goto, Put, TypeOK
      <4>2. \A j \in StepIds : j > p => j # p /\ seen'[d][j] = steps[j] /\ steps'[j] = steps[j]
          BY <2>2, <2>3, <2>6, <3>1, StepFacts DEF AtStep
      <4>3. n > p /\ \A j \in StepIds : j >= n => j > p  BY <2>3, <3>3, StepFacts
      <4>4. ASSUME NEW j \in StepIds, j < n PROVE Over(j)'
        <5>1. CASE j < p
          <6>1. j # p /\ Over(j)  BY <2>2, <2>3, <5>1, StepFacts DEF AtStep
          <6> QED BY <2>6, <6>1 DEF Over
        <5>2. CASE j = p
          <6>1. steps'[p].status = "OK"
              BY <1>0, <2>2, <2>9 DEF StepOk, SetStep, Put, TypeOK
          <6> QED BY <5>2, <6>1 DEF Over
        <5>3. CASE j > p
          <6>1. j >= p + 1  BY <2>3, <5>3, StepFacts
          <6>2. seen[d][j] = steps'[j]  BY <3>1, <4>2, <5>3
          <6> QED BY <3>3, <4>4, <6>1, <6>2 DEF Over
        <5> QED BY <2>3, <5>1, <5>2, <5>3, StepFacts
      <4>5. ~ Over(n)' /\ ~ Failed(n)' /\ seen'[d][n] = steps'[n]
          BY <3>1, <3>3, <4>2, <4>3 DEF Over, Failed
      <4>6. \A j \in StepIds : j > n => seen'[d][j] = steps'[j]  BY <4>2, <4>3, StepFacts
      <4>7. AtStep(d)'  BY <4>1, <4>4, <4>5, <4>6 DEF AtStep
      <4> QED BY <1>g, <2>7, <2>8, <4>1, <4>7 DEF KilledInv, Tread, Standing, Inside, Leaving
    <3> QED BY <3>1, <3>2, <3>3, GoOnFirst
  <2>10. CASE StepHalts(d)
    <3>1. pc'[d] = "skip" /\ at'[d] = p + 1 /\ held'[d] = p
        BY <1>0, <2>2, <2>10 DEF StepHalts, SkipFrom, Goto, Put, TypeOK
    <3>2. p \in OfKind("condition")  BY <2>2, <2>3, <2>10 DEF StepHalts, SkipFrom, Goto, AtStep, OfKind
    <3>3. Excused(d)'  BY <2>3, <3>1, <3>2 DEF Excused
    <3>4. \A j \in StepIds : j < p => Over(j)'
      <4> SUFFICES ASSUME NEW j \in StepIds, j < p PROVE Over(j)'  OBVIOUS
      <4>1. j # p /\ Over(j)  BY <2>2, <2>3, StepFacts DEF AtStep
      <4> QED BY <2>6, <4>1 DEF Over
    <3>5. Unfailed(held[d])'  BY <2>f, <3>1, <3>4 DEF Unfailed
    <3> QED BY <1>g, <2>7, <2>8, <3>1, <3>3, <3>5 DEF KilledInv, Tread, Standing, Inside, Leaving
  <2> QED BY <1>1, <2>9, <2>10
<1>f. ASSUME StepFails(d) PROVE KilledInv(d)'
  <2>1. pc[d] = "failed"  BY <1>f DEF StepFails, SkipFrom, Goto
  <2>2. PICK p \in StepIds : p = at[d]  BY <2>1 DEF Inv, Local, Place, Inside
  <2>3. Unfailed(p) /\ p \in Nat /\ p >= 1  BY <2>1, <2>2, StepFacts DEF KilledInv, Tread
  <2>4. /\ pc'[d] = "skip" /\ at'[d] = p + 1 /\ final'[d] = final[d]
        /\ Failed(p)' /\ \A j \in StepIds \ {p} : steps'[j] = steps[j]
      BY <1>0, <1>f, <2>2 DEF StepFails, SkipFrom, StepStatus, SetStep, Goto, Put, TypeOK, StepRows, Failed
  <2>5. final[d] # "CONDITION_HALTED"  BY <2>1 DEF Inv, Local, Place
  <2>6. \A j \in StepIds : j # p => (Over(j) => Over(j)') /\ ~ Failed(j)'
      BY <2>3, <2>4 DEF Unfailed, Over, Failed
  <2>7. LeadTrue'
    <3> SUFFICES ASSUME NEW j \in Leading
                 PROVE  /\ steps'[j].status = "OK" => Done(j)'
                        /\ steps'[j].status = "SKIPPED" => run'.cancel \/ \E k \in StepIds : k < j /\ Failed(k)'
        BY DEF LeadTrue
    <3>1. CASE j # p
        BY <1>0, <1>d, <2>3, <2>4, <3>1, LeadingFacts DEF KilledInv, LeadTrue, Unfailed
    <3>2. CASE j = p  BY <2>4, <3>2 DEF Failed
    <3> QED BY <3>1, <3>2
  <2>8. FailedFirst'
    <3> SUFFICES ASSUME NEW k \in StepIds, Failed(k)', NEW i \in StepIds, i < k PROVE Over(i)'
        BY DEF FailedFirst
    <3>1. k = p  BY <2>6
    <3>2. i # p /\ Over(i)  BY <2>3, <3>1, StepFacts DEF Unfailed
    <3> QED BY <2>6, <3>2
  <2>9. Excused(d)'  BY <2>3, <2>4 DEF Excused
  <2>10. Tread(d)'  BY <2>4, <2>5, <2>9 DEF Tread, Standing, Inside, Leaving
  <2> QED BY <1>g, <2>7, <2>8, <2>10 DEF KilledInv
<1>h. ASSUME HaltThrows(d) PROVE KilledInv(d)'
  <2>1. /\ pc[d] \in Leaving /\ final[d] = "CONDITION_HALTED" /\ UNCHANGED steps
        /\ pc'[d] = "failed" /\ at'[d] = held[d]
      BY <1>0, <1>h DEF HaltThrows, Leaving, Goto, Put, TypeOK, rows
  <2>2. Unfailed(at[d])'  BY <2>1 DEF KilledInv, Tread, Unfailed, Over, Failed
  <2>3. Tread(d)'  BY <2>1, <2>2 DEF Tread, Standing, Inside, Leaving
  <2> QED BY <1>0, <2>1, <2>3, KilledRests
<1>2. ASSUME SkipRead(d) PROVE KilledInv(d)'
  <2>1. /\ pc[d] = "skip" /\ pc'[d] = "skipping" /\ seen'[d] = steps
        /\ UNCHANGED <<steps, at, held, final>>
      BY <1>0, <1>2 DEF SkipRead, Goto, Put, TypeOK, rows
  <2>u. final[d] = "CONDITION_HALTED" => Unfailed(held[d])'
      BY <2>1 DEF KilledInv, Tread, Leaving, Unfailed, Over, Failed
  <2>2. Excused(d)'  BY <1>0, <2>1 DEF KilledInv, Tread, Excused, Failed
  <2>3. Tread(d)'  BY <2>1, <2>2, <2>u DEF Tread, Standing, Inside, Leaving
  <2> QED BY <1>0, <2>1, <2>3, KilledRests
<1>3. ASSUME SkipNext(d) PROVE KilledInv(d)'
  <2>1. /\ pc[d] = "skipping" /\ Excused(d) /\ seen' = seen /\ at[d] \in Nat /\ at[d] >= 1
        /\ UNCHANGED <<held, final>>
      BY <1>0, <1>3 DEF SkipNext, KilledInv, Tread, Inv, TypeOK, Local, Place
  <2>2. CASE at[d] > Len(Workflow)
    <3>1. pc'[d] = "finalize" /\ steps' = steps
        BY <1>0, <1>3, <2>2 DEF SkipNext, Goto, TypeOK
    <3>2. final[d] = "CONDITION_HALTED" => Unfailed(held[d])'
        BY <2>1, <3>1 DEF KilledInv, Tread, Leaving, Unfailed, Over, Failed
    <3>3. Tread(d)'  BY <2>1, <3>1, <3>2 DEF Tread, Standing, Inside, Leaving
    <3> QED BY <1>0, <3>1, <3>3, KilledRests
  <2>3. CASE ~ (at[d] > Len(Workflow))
    <3>1. PICK p \in StepIds : p = at[d]  BY <2>1, <2>3, StepFacts DEF StepIds
    <3>2. seen[d][p] = steps[p] /\ p \in Nat
        BY <2>1, <3>1, StepFacts DEF KilledInv, Tread
    <3>3. /\ pc' = pc /\ at'[d] = p + 1
          /\ IF steps[p].status \in {"OK", "FAILED"} THEN steps' = steps ELSE StepStatus(d, "SKIPPED")
        BY <1>0, <1>3, <2>3, <3>1, <3>2 DEF SkipNext, Put, TypeOK
    <3>4. /\ \A j \in StepIds \ {p} : steps'[j] = steps[j]
          /\ steps'[p].status = IF steps[p].status \in {"OK", "FAILED"} THEN steps[p].status ELSE "SKIPPED"
        BY <1>0, <3>1, <3>3 DEF StepStatus, SetStep, Put, TypeOK, StepRows
    <3>5. \A k \in StepIds : (Failed(k)' <=> Failed(k)) /\ (Over(k) => Over(k)')
        BY <3>4 DEF Failed, Over
    <3>6. LeadTrue'
      <4> SUFFICES ASSUME NEW j \in Leading
                   PROVE  /\ steps'[j].status = "OK" => Done(j)'
                          /\ steps'[j].status = "SKIPPED" => run'.cancel \/ \E k \in StepIds : k < j /\ Failed(k)'
          BY DEF LeadTrue
      <4>1. CASE j # p
          BY <1>0, <1>d, <3>4, <3>5, <4>1, LeadingFacts DEF KilledInv, LeadTrue
      <4>2. CASE j = p
        <5>1. steps'[p].status = "OK" => Done(p)
            BY <3>4, <4>2 DEF KilledInv, LeadTrue
        <5>2. run.cancel \/ \E k \in StepIds : k < p /\ Failed(k)
            BY <2>1, <3>1, <4>2, LeadingFacts DEF Excused
        <5> QED BY <1>0, <1>d, <3>5, <4>2, <5>1, <5>2
      <4> QED BY <4>1, <4>2
    <3>7. FailedFirst'
      <4> SUFFICES ASSUME NEW k \in StepIds, Failed(k)', NEW i \in StepIds, i < k PROVE Over(i)'
          BY DEF FailedFirst
      <4> QED BY <3>5 DEF KilledInv, FailedFirst
    <3>8. Excused(d)'
      <4>1. \A k \in StepIds : k < at[d] => k < at'[d]
        <5>1. \A k \in StepIds : k < p => k < p + 1  BY <3>2, StepFacts
        <5> QED BY <3>1, <3>3, <5>1
      <4>2. OfKind("condition") \subseteq StepIds  BY DEF OfKind
      <4> QED BY <1>0, <2>1, <3>5, <4>1, <4>2 DEF Excused
    <3>9. \A j \in StepIds : j >= at'[d] => seen'[d][j] = steps'[j]
      <4>1. \A j \in StepIds : j >= at'[d] => j # p /\ j >= at[d]
        <5>1. \A j \in StepIds : j >= p + 1 => j # p /\ j >= p  BY <3>2, StepFacts
        <5> QED BY <3>1, <3>3, <5>1
      <4> QED BY <2>1, <3>4, <4>1 DEF KilledInv, Tread
    <3>10. final[d] = "CONDITION_HALTED" => Unfailed(held[d])'
        BY <2>1, <3>5 DEF KilledInv, Tread, Leaving, Unfailed
    <3> QED BY <1>g, <2>1, <3>3, <3>6, <3>7, <3>8, <3>9, <3>10 DEF KilledInv, Tread, Standing, Inside, Leaving
  <2> QED BY <2>2, <2>3
<1> QED BY <1>1, <1>f, <1>h, <1>2, <1>3 DEF Finish

LEMMA KilledHolds ==
    ASSUME NEW d \in Drivers, Drivers = {d} PROVE Spec => []KilledInv(d)
<1>1. Init => KilledInv(d)
  <2> SUFFICES ASSUME Init PROVE KilledInv(d)  OBVIOUS
  <2>1. pc[d] = "idle" /\ \A j \in StepIds : steps[j].status = "none" /\ ~ HasEffect(j)
      BY DEF Init, NoRows, NoRow, HasEffect
  <2> QED BY <2>1, LeadingFacts
      DEF KilledInv, LeadTrue, FailedFirst, GateToCondition, Tread, Standing, Inside, Leaving, Failed
<1>2. Inv /\ KilledInv(d) /\ [Next]_vars => KilledInv(d)'
  <2> SUFFICES ASSUME Inv, KilledInv(d), [Next]_vars PROVE KilledInv(d)'  OBVIOUS
  <2>1. CASE Drive(d)
    <3>1. CASE Close(d)
      <4>1. /\ UNCHANGED <<steps, children, effects>> /\ run'.cancel = run.cancel
            /\ pc[d] \in Leaving /\ pc'[d] \in {"notify", "idle"}
            /\ pc'[d] = "notify" => held' = held /\ final' = final
          BY <3>1 DEF Close, Finalize, Notify, Return, Goto, Leaving, Inv, TypeOK, rows, world, locals
      <4>2. pc'[d] = "notify" /\ final[d] = "CONDITION_HALTED" => Unfailed(held[d])'
          BY <4>1 DEF KilledInv, Tread, Unfailed, Over, Failed
      <4>3. Tread(d)'  BY <4>1, <4>2 DEF Tread, Standing, Inside, Leaving
      <4> QED BY <4>1, <4>3, KilledRests
    <3> QED BY <2>1, <3>1, BeginKilled, EnterKilled, WorkKilled, FinishKilled DEF Drive
  <2>2. CASE Crash(d)
    <3>1. UNCHANGED <<run, steps, children, effects>> /\ pc'[d] = "idle"
        BY <2>2 DEF Crash, Return, Goto, Inv, TypeOK, rows, world
    <3> QED BY <3>1, KilledRests DEF Tread, Standing, Inside, Leaving
  <2>3. CASE CancelRead \/ CancelPatch \/ UNCHANGED vars
    <3>1. UNCHANGED <<steps, children, effects, pc, at, seen, held, final>>
        BY <2>3 DEF CancelRead, CancelPatch, vars, rows, world, locals
    <3>2. run.cancel => run'.cancel
        BY <2>3 DEF CancelRead, CancelPatch, vars, rows, Inv, TypeOK
    <3>3. Tread(d)'
        BY <3>1, <3>2 DEF KilledInv, Tread, AtStep, Excused, Unfailed, Over, Failed, Done
    <3> QED BY <3>1, <3>2, <3>3, KilledRests
  <2> QED BY <2>1, <2>2, <2>3 DEF Next
<1> QED BY <1>1, <1>2, Invariance, PTL DEF Spec

(* AUTOMATION_EXECUTION_CONTRACT 9, "a lost invocation loses no work": with   *)
(* one invocation at a time, killed any number of times at any await, a step  *)
(* has effects only when all steps before it, up to the first condition, have *)
(* done theirs.                                                               *)
THEOREM GateSurvivesKills ==
    ASSUME NEW d \in Drivers, Drivers = {d} PROVE Spec => []GateToCondition
<1>1. KilledInv(d) => GateToCondition  BY DEF KilledInv
<1> QED BY <1>1, KilledHolds, PTL

-----------------------------------------------------------------------------
(***************************************************************************)
(* One invocation at a time that is not killed carries the run out as      *)
(* ExecutionContract says.  To the walk through the steps this adds why     *)
(* the run is about to end as it does (Cause), that the attempt that failed *)
(* was at a step that has begun or a condition that halts (Tried), and that *)
(* only the owner's request is a reason to cancel (Asked).                 *)
(***************************************************************************)
Limited(p) == children[p] = <<"credit_limit">>
Halted(j) == Workflow[j] = "condition" /\ steps[j].status = "OK" /\ j \notin met

Cause(status, n) ==
    /\ status \in {"FAILED", "CREDIT_BLOCKED", "CONDITION_HALTED", "CANCELLED"}
    /\ status = "CANCELLED" => run.cancel
    /\ status = "CONDITION_HALTED" => \E j \in StepIds : j < n /\ Halted(j)
    /\ status = "FAILED" => \E j \in StepIds : j < n /\ Failed(j)
    /\ status = "CREDIT_BLOCKED" => \E j \in StepIds : j < n /\ Failed(j) /\ Limited(j)

Tried(p) == steps[p].status = "RUNNING" \/ Halted(p)

Asked ==
    /\ run.status = "CANCELLED" => run.cancel
    /\ canceller # "done" => ~ run.cancel

Strict(d) ==
    /\ pc[d] \notin {"idle", "claim"} => run.status # "QUEUED"
    /\ pc[d] \in {"ok", "halt"} => steps[at[d]].status = "RUNNING"
    /\ pc[d] = "failed" => Tried(at[d]) /\ (final[d] = "CREDIT_BLOCKED" => Limited(at[d]))
    /\ pc[d] \in {"skip", "skipping"} => Cause(final[d], at[d])
    /\ pc[d] = "finalize" =>
         /\ \A j \in StepIds : Settled(j)
         /\ final[d] = "SUCCEEDED" \/ Cause(final[d], Len(Workflow) + 1)
    /\ pc[d] \in Leaving /\ final[d] = "CONDITION_HALTED" => Halted(held[d])

Orderly(d) == Inv /\ Walk(d) /\ Tidy /\ Strict(d) /\ Asked

Faithful == [Contract!Next]_(Contract!contractVars)

(* The stage of a step, before and after, where there is one invocation. *)
LEMMA StageIs ==
    ASSUME NEW d \in Drivers, Drivers = {d}, NEW i \in StepIds
    PROVE  /\ steps[i].status = "OK" =>
                Stage(i) = IF Workflow[i] = "condition" /\ i \notin met THEN "halted" ELSE "done"
           /\ steps[i].status = "SKIPPED" => Stage(i) = "skipped"
           /\ steps[i].status = "FAILED" => Stage(i) = "failed"
           /\ steps[i].status \in {"PENDING", "RUNNING"} => Stage(i) = "begun"
           /\ steps[i].status = "none" =>
                Stage(i) = IF pc[d] = "append" /\ at[d] = i THEN "begun" ELSE "ahead"
BY DEF Stage, OfKind

LEMMA StageIsNext ==
    ASSUME NEW d \in Drivers, Drivers = {d}, NEW i \in StepIds
    PROVE  /\ steps'[i].status = "OK" =>
                Stage(i)' = IF Workflow[i] = "condition" /\ i \notin met' THEN "halted" ELSE "done"
           /\ steps'[i].status = "SKIPPED" => Stage(i)' = "skipped"
           /\ steps'[i].status = "FAILED" => Stage(i)' = "failed"
           /\ steps'[i].status \in {"PENDING", "RUNNING"} => Stage(i)' = "begun"
           /\ steps'[i].status = "none" =>
                Stage(i)' = IF pc'[d] = "append" /\ at'[d] = i THEN "begun" ELSE "ahead"
BY DEF Stage, OfKind

(* A row that is not written keeps its stage, but where the check is passed. *)
LEMMA StageKept ==
    ASSUME NEW d \in Drivers, Drivers = {d}, TypeOK, NEW i \in StepIds, steps'[i] = steps[i], met' = met,
           steps[i].status = "none" =>
              ((pc[d] = "append" /\ at[d] = i) <=> (pc'[d] = "append" /\ at'[d] = i))
    PROVE  Stage(i)' = Stage(i)
<1>1. steps[i].status \in StepStatuses  BY DEF TypeOK, StepRows
<1> QED BY <1>1, StageIs, StageIsNext DEF StepStatuses

LEMMA Still ==
    ASSUME run' = run, UNCHANGED <<met, children, effects>>, \A i \in StepIds : Stage(i)' = Stage(i)
    PROVE  Faithful
BY DEF Faithful, Contract!contractVars

LEMMA Moving ==
    ASSUME NEW p \in StepIds, NEW from, NEW to, Stage(p) \in from, Stage(p)' = to, run' = run,
           \A i \in StepIds \ {p} : Stage(i)' = Stage(i)
    PROVE  Contract!Move(p, from, to)
<1>1. [i \in StepIds |-> Stage(i)]' = [[i \in StepIds |-> Stage(i)] EXCEPT ![p] = to]  OBVIOUS
<1> QED BY <1>1 DEF Contract!Move

(* What the pass at hand stands at has begun or is about to. *)
LEMMA SettledIsOver ==
    ASSUME NEW d \in Drivers, Drivers = {d}, NEW i \in StepIds, Settled(i)
    PROVE  Contract!Over(i)
BY StageIs DEF Settled, Contract!Over

LEMMA GoodIsDone ==
    ASSUME NEW d \in Drivers, Drivers = {d}, NEW i \in StepIds, Good(i)
    PROVE  Stage(i) = "done"
BY StageIs DEF Good

(* A step at p leaves the stages of the others. *)
LEMMA OthersKept ==
    ASSUME NEW d \in Drivers, Drivers = {d}, TypeOK, met' = met, NEW p \in StepIds, p = at[d],
           pc'[d] = "append" => at'[d] = p,
           \A i \in StepIds \ {p} : steps'[i] = steps[i]
    PROVE  \A i \in StepIds \ {p} : Stage(i)' = Stage(i)
BY StageKept

(* Away from the check, rows that are not written keep all stages. *)
LEMMA AllKept ==
    ASSUME NEW d \in Drivers, Drivers = {d}, TypeOK, UNCHANGED <<steps, met>>,
           pc[d] # "append", pc'[d] # "append"
    PROVE  \A i \in StepIds : Stage(i)' = Stage(i)
BY StageKept

LEMMA NoneFailed ==
    ASSUME NEW d \in Drivers, NEW from, NEW i \in Nat \ {0}, NEW known, GoOnAt(d, from, i, known),
           \A j \in StepIds : j >= i => known[j].status # "FAILED"
    PROVE  \/ Goto(d, from, "finalize") /\ final' = Put(final, d, "SUCCEEDED")
           \/ Goto(d, from, "check")
<1> DEFINE left == {j \in i .. Len(Workflow) : known[j].status \notin {"OK", "SKIPPED"}}
           next == CHOOSE j \in left : \A k \in left : j <= k
<1>1. CASE left = {}  BY <1>1 DEF GoOnAt
<1>2. CASE left # {}
  <2>1. left \in SUBSET Nat  BY StepFacts
  <2>2. next \in left  BY <1>2, <2>1, LeastStep
  <2>3. next \in StepIds /\ next >= i  BY <2>2, StepFacts DEF StepIds
  <2>4. known[next].status # "FAILED"  BY <2>3
  <2> QED BY <1>2, <2>4 DEF GoOnAt
<1> QED BY <1>1, <1>2

(* Where the loop has no step left, all of them are OK. *)
LEMMA SucceedsStrictly ==
    ASSUME NEW d \in Drivers, Walk(d)', pc'[d] = "finalize", final'[d] = "SUCCEEDED",
           run'.status # "QUEUED"
    PROVE  Strict(d)'
<1>1. \A j \in StepIds : Settled(j)'  BY DEF Walk, Closing, Verdict, Settled, Good
<1> QED BY <1>1 DEF Strict, Leaving

LEMMA BeginIsFaithful ==
    ASSUME NEW d \in Drivers, Drivers = {d}, Orderly(d), Begin(d)
    PROVE  Strict(d)' /\ Asked' /\ Faithful
<1>0. /\ Inv /\ TypeOK /\ Walk(d) /\ Strict(d) /\ Asked /\ UNCHANGED <<steps, met, children, effects>>
      /\ UNCHANGED canceller
    BY DEF Orderly, Inv, Begin, Load, ClaimRun, Reread, Snapshot, rows, world, bounds
<1>1. CASE Load(d) \/ Reread(d)
  <2>1. /\ run' = run /\ pc[d] \in {"idle", "reread"} /\ pc'[d] \in {"claim", "snapshot", "idle"}
        /\ pc'[d] = "snapshot" => run.status # "QUEUED"
      BY <1>0, <1>1 DEF Load, Reread, Return, Goto, TypeOK, rows, Strict
  <2>2. Faithful  BY <1>0, <2>1, AllKept, Still
  <2> QED BY <1>0, <2>1, <2>2 DEF Strict, Leaving, Asked
<1>2. CASE ClaimRun(d)
  <2>1. /\ pc[d] = "claim" /\ pc'[d] \in {"snapshot", "reread"}
        /\ \/ run.status = "QUEUED" /\ run' = [run EXCEPT !.status = "RUNNING"]
           \/ run.status # "QUEUED" /\ run' = run
      BY <1>0, <1>2 DEF ClaimRun, Goto, TypeOK
  <2>2. \A i \in StepIds : Stage(i)' = Stage(i)  BY <1>0, <2>1, AllKept
  <2>3. CASE run' = run /\ run.status # "QUEUED"
    <3>1. Faithful  BY <1>0, <2>2, <2>3, Still
    <3> QED BY <1>0, <2>1, <2>3, <3>1 DEF Strict, Leaving, Asked
  <2>4. CASE run.status = "QUEUED" /\ run' = [run EXCEPT !.status = "RUNNING"]
    <3>1. run'.status = "RUNNING" /\ run'.cancel = run.cancel  BY <1>0, <2>4 DEF TypeOK
    <3>2. Contract!Claim  BY <1>0, <2>2, <2>4, <3>1 DEF Contract!Claim, Contract!work
    <3>3. Faithful  BY <3>2 DEF Faithful, Contract!Next
    <3> QED BY <1>0, <2>1, <3>1, <3>3 DEF Strict, Leaving, Asked
  <2> QED BY <2>1, <2>3, <2>4
<1>3. CASE Snapshot(d)
  <2>1. /\ run' = run /\ GoOnAt(d, "snapshot", 1, steps)  BY <1>3 DEF Snapshot, rows
  <2>2. pc[d] = "snapshot"  BY <2>1 DEF GoOnAt, Goto
  <2>3. \A j \in StepIds : steps[j].status # "FAILED"
    <3>1. Resting  BY <1>0, <2>2 DEF Walk
    <3>2. CASE \A j \in StepIds : Blank(j)  BY <3>2 DEF Blank, NoRow
    <3>3. ASSUME NEW q \in StepIds, Before(q), Waiting(q), After(q)
          PROVE  \A j \in StepIds : steps[j].status # "FAILED"
      <4> SUFFICES ASSUME NEW j \in StepIds PROVE steps[j].status # "FAILED"  OBVIOUS
      <4>1. CASE j = q  BY <3>3, <4>1 DEF Waiting
      <4>2. CASE j < q  BY <3>3, <4>2 DEF Before, Good
      <4>3. CASE j > q  BY <3>3, <4>3 DEF After, Blank, NoRow
      <4> QED BY <4>1, <4>2, <4>3, StepFacts
    <3> QED BY <3>1, <3>2, <3>3 DEF Resting
  <2>4. \/ Goto(d, "snapshot", "finalize") /\ final' = Put(final, d, "SUCCEEDED")
        \/ Goto(d, "snapshot", "check")
    <3>1. 1 \in Nat \ {0}  OBVIOUS
    <3> QED BY <2>1, <2>3, <3>1, NoneFailed
  <2>5. /\ pc'[d] \in {"finalize", "check"} /\ run.status # "QUEUED"
        /\ pc'[d] = "finalize" => final'[d] = "SUCCEEDED"
      BY <1>0, <2>2, <2>4 DEF Goto, Put, TypeOK, Strict
  <2>6. Faithful  BY <1>0, <2>1, <2>2, <2>5, AllKept, Still
  <2>7. Walk(d)'  BY <1>0, <1>3, BeginAlone DEF Begin, Orderly
  <2>8. Strict(d)'
    <3>1. CASE pc'[d] = "finalize"  BY <2>1, <2>5, <2>7, <3>1, SucceedsStrictly
    <3>2. CASE pc'[d] = "check"  BY <2>1, <2>5, <3>2 DEF Strict, Leaving
    <3> QED BY <2>5, <3>1, <3>2
  <2> QED BY <1>0, <2>1, <2>6, <2>8 DEF Asked
<1> QED BY <1>1, <1>2, <1>3 DEF Begin

(* Where an invocation stands at a step: the run has not been taken from it but *)
(* by the owner.                                                               *)
LEMMA AtWork ==
    ASSUME NEW d \in Drivers, Drivers = {d}, Orderly(d), pc[d] \in Standing
    PROVE  /\ TypeOK /\ at[d] \in StepIds /\ Ahead(d) /\ Hand(d, at[d])
           /\ run.status \in {"RUNNING", "CANCELLED"} /\ (run.status = "CANCELLED" => run.cancel)
           /\ \A j \in StepIds : j < at[d] => Good(j) /\ Stage(j) = "done"
<1>1. at[d] \in StepIds /\ Ahead(d) /\ Hand(d, at[d]) /\ StillOpen /\ TypeOK
    BY AtHand DEF Orderly, Inv
<1>2. run.status # "QUEUED" /\ (run.status = "CANCELLED" => run.cancel)
    BY DEF Orderly, Strict, Asked, Standing, Inside
<1>3. run.status \in {"RUNNING", "CANCELLED"}
    BY <1>1, <1>2 DEF StillOpen, TypeOK, RunStatuses, Terminal
<1>4. \A j \in StepIds : j < at[d] => Good(j)  BY <1>1 DEF Ahead, Before
<1> QED BY <1>1, <1>2, <1>3, <1>4, GoodIsDone

LEMMA EnterIsFaithful ==
    ASSUME NEW d \in Drivers, Drivers = {d}, Orderly(d), Enter(d)
    PROVE  Strict(d)' /\ Asked' /\ Faithful
<1>s. pc[d] \in {"check", "append", "claimStep", "mark"} /\ UNCHANGED <<run, met, children, effects, canceller>>
    BY DEF Enter, CheckCancel, SkipFrom, AppendStep, ClaimStep, MarkRunning, Goto, rows, world, bounds
<1>p. PICK p \in StepIds : p = at[d]  BY <1>s, AtWork DEF Standing, Inside
<1>0. /\ TypeOK /\ Hand(d, p) /\ run.status \in {"RUNNING", "CANCELLED"}
      /\ (run.status = "CANCELLED" => run.cancel) /\ Asked
      /\ \A j \in StepIds : j < p => Stage(j) = "done"
    BY <1>s, <1>p, AtWork DEF Standing, Inside, Orderly
<1>q. Asked'  BY <1>0, <1>s DEF Asked
<1>1. ASSUME pc'[d] \in {"append", "claimStep", "mark", "execute", "idle"} PROVE Strict(d)'
    BY <1>0, <1>1, <1>s DEF Strict, Leaving
<1>2. ASSUME pc'[d] = "append" => at'[d] = p, \A j \in StepIds \ {p} : steps'[j] = steps[j]
      PROVE  \A j \in StepIds \ {p} : Stage(j)' = Stage(j)
    BY <1>0, <1>p, <1>s, <1>2, OthersKept
<1>3. ASSUME Stage(p)' = Stage(p), \A j \in StepIds \ {p} : Stage(j)' = Stage(j) PROVE Faithful
    BY <1>s, <1>3, Still
<1>4. CASE CheckCancel(d)
  <2>1. pc[d] = "check" /\ steps' = steps  BY <1>4 DEF CheckCancel, SkipFrom, Goto, rows
  <2>2. CASE run.cancel
    <3>1. pc'[d] = "skip" /\ final'[d] = "CANCELLED"
        BY <1>0, <1>4, <2>2 DEF CheckCancel, SkipFrom, Goto, Put, TypeOK
    <3>2. Cause(final[d], at[d])'  BY <1>s, <2>2, <3>1 DEF Cause
    <3>3. Strict(d)'  BY <1>0, <1>s, <3>1, <3>2 DEF Strict, Leaving
    <3>4. Faithful  BY <1>0, <1>s, <2>1, <3>1, AllKept, Still
    <3> QED BY <1>q, <3>3, <3>4
  <2>3. CASE ~ run.cancel
    <3>1. pc'[d] = "append" /\ at' = at
        BY <1>0, <1>4, <2>3 DEF CheckCancel, Goto, TypeOK
    <3>2. Strict(d)'  BY <1>1, <3>1
    <3>3. \A j \in StepIds \ {p} : Stage(j)' = Stage(j)  BY <1>2, <1>p, <2>1, <3>1
    <3>4. CASE Waiting(p)
      <4>1. Stage(p)' = Stage(p)  BY <2>1, <3>4, StageIs, StageIsNext DEF Waiting
      <4> QED BY <1>3, <1>q, <3>2, <3>3, <4>1
    <3>5. CASE Blank(p)
      <4>1. Stage(p) = "ahead" /\ Stage(p)' = "begun"
          BY <1>p, <2>1, <3>1, <3>5, StageIs, StageIsNext DEF Blank, NoRow
      <4>2. Contract!Move(p, {"ahead"}, "begun")  BY <1>s, <3>3, <4>1, Moving
      <4>3. Contract!Begin(p)
          BY <1>0, <1>s, <2>3, <4>2 DEF Contract!Begin, Contract!work
      <4>4. Faithful  BY <4>3 DEF Faithful, Contract!Next
      <4> QED BY <1>q, <3>2, <4>4
    <3> QED BY <1>0, <2>1, <3>4, <3>5 DEF Hand
  <2> QED BY <2>2, <2>3
<1>5. CASE AppendStep(d)
  <2>1. pc[d] = "append" /\ at' = at /\ seen[d][p] = steps[p] /\ (Blank(p) \/ Waiting(p))
      BY <1>0, <1>p, <1>5 DEF AppendStep, Hand, Goto
  <2>2. /\ pc'[d] \in {"claimStep", "mark"}
        /\ \/ steps[p].status = "none" /\ steps' = Put(steps, p, [NoRow EXCEPT !.status = "PENDING"])
           \/ steps[p].status # "none" /\ steps' = steps
      BY <1>0, <1>p, <1>5, <2>1 DEF AppendStep, Goto, TypeOK
  <2>3. \A j \in StepIds \ {p} : steps'[j] = steps[j]  BY <1>0, <2>2 DEF Put, TypeOK
  <2>4. Stage(p) = "begun" /\ Stage(p)' = "begun"
    <3>1. CASE Waiting(p)
      <4>1. steps[p].status = "RUNNING" /\ steps'[p].status = "RUNNING"
          BY <1>0, <2>2, <3>1 DEF Waiting
      <4> QED BY <4>1, StageIs, StageIsNext
    <3>2. CASE Blank(p)
      <4>1. steps[p].status = "none" /\ steps'[p].status = "PENDING"
          BY <1>0, <2>2, <3>2 DEF Blank, NoRow, Put, TypeOK
      <4> QED BY <1>p, <2>1, <4>1, StageIs, StageIsNext
    <3> QED BY <2>1, <3>1, <3>2
  <2> QED BY <1>1, <1>2, <1>3, <1>q, <2>2, <2>3, <2>4
<1>6. CASE ClaimStep(d) \/ MarkRunning(d)
  <2>1. /\ pc[d] \in {"claimStep", "mark"} /\ pc'[d] \in {"mark", "execute", "idle"}
        /\ \/ steps' = Put(steps, p, [steps[p] EXCEPT !.status = "RUNNING"])
           \/ steps' = steps
      BY <1>0, <1>p, <1>6 DEF ClaimStep, MarkRunning, StepStatus, SetStep, Return, Goto, TypeOK
  <2>2. \A j \in StepIds \ {p} : steps'[j] = steps[j]  BY <1>0, <2>1 DEF Put, TypeOK
  <2>3. steps[p].status \in {"PENDING", "RUNNING"}  BY <1>0, <2>1 DEF Hand, Claimed, Waiting
  <2>4. steps'[p].status \in {"PENDING", "RUNNING"}
      BY <1>0, <2>1, <2>3 DEF Put, TypeOK, StepRows
  <2>5. Stage(p)' = Stage(p)  BY <2>3, <2>4, StageIs, StageIsNext
  <2> QED BY <1>1, <1>2, <1>3, <1>q, <2>1, <2>2, <2>5
<1> QED BY <1>4, <1>5, <1>6 DEF Enter

(* An attempt at a step that fails is none of the contract's steps yet. *)
LEMMA FailIsFaithful ==
    ASSUME NEW d \in Drivers, Drivers = {d}, Orderly(d), pc[d] \in Standing,
           NEW status \in {"FAILED", "CREDIT_BLOCKED"}, Fail(d, pc[d], status),
           UNCHANGED <<run, steps, met, children, effects, canceller>>,
           pc[d] \in {"execute", "record", "drive", "yield", "ok", "halt"},
           status = "CREDIT_BLOCKED" => Limited(at[d])
    PROVE  Strict(d)' /\ Asked' /\ Faithful
<1>p. PICK p \in StepIds : p = at[d]  BY AtWork
<1>0. TypeOK /\ Hand(d, p) /\ run.status # "QUEUED" /\ Asked /\ Strict(d)
    BY <1>p, AtWork DEF Orderly
<1>1. steps[p].status = "RUNNING"
    BY <1>0, <1>p DEF Hand, Claimed, Waiting, Driven, Strict
<1>2. pc'[d] = "failed" /\ final'[d] = status /\ at' = at
    BY <1>0 DEF Fail, Goto, Put, TypeOK
<1>3. Faithful  BY <1>0, <1>2, AllKept, Still
<1>4. Tried(p)'  BY <1>1 DEF Tried
<1>5. status = "CREDIT_BLOCKED" => Limited(p)'  BY <1>p DEF Limited
<1> QED BY <1>0, <1>p, <1>2, <1>3, <1>4, <1>5 DEF Strict, Leaving, Asked

LEMMA ThrowIsFaithful ==
    ASSUME NEW d \in Drivers, Drivers = {d}, Orderly(d), StepThrows(d)
    PROVE  Strict(d)' /\ Asked' /\ Faithful
<1>1. /\ pc[d] \in {"execute", "record", "drive", "yield", "ok", "halt"} /\ pc[d] \in Standing
      /\ Fail(d, pc[d], "FAILED") /\ UNCHANGED <<run, steps, met, children, effects, canceller>>
    BY DEF StepThrows, Standing, Inside, rows, world, bounds
<1> QED BY <1>1, FailIsFaithful

LEMMA EvaluateIsFaithful ==
    ASSUME NEW d \in Drivers, Drivers = {d}, Orderly(d), Evaluate(d)
    PROVE  Strict(d)' /\ Asked' /\ Faithful
<1>1. pc[d] = "execute" /\ UNCHANGED <<run, steps, met, children, effects, canceller>>
    BY DEF Evaluate, Executes, rows, world, bounds
<1>p. PICK p \in StepIds : p = at[d]  BY <1>1, AtWork DEF Standing, Inside
<1>0. TypeOK /\ Hand(d, p) /\ run.status # "QUEUED" /\ Asked
    BY <1>1, <1>p, AtWork DEF Standing, Inside, Orderly
<1>2. steps[p].status = "RUNNING"  BY <1>0, <1>1 DEF Hand, Claimed, Waiting
<1>3. pc'[d] \in {"ok", "halt"} /\ at' = at
    BY <1>0 DEF Evaluate, Goto, TypeOK, locals
<1>4. Faithful  BY <1>0, <1>1, <1>3, AllKept, Still
<1> QED BY <1>0, <1>p, <1>1, <1>2, <1>3, <1>4 DEF Strict, Leaving, Asked

LEMMA ChildIsFaithful ==
    ASSUME NEW d \in Drivers, Drivers = {d}, Orderly(d), Child(d)
    PROVE  Strict(d)' /\ Asked' /\ Faithful
<1>s. /\ pc[d] \in {"execute", "record", "drive", "yield"}
      /\ UNCHANGED <<run, met, effects, canceller>>
    BY DEF Child, StartChild, RecordChild, ResumeChild, EndChild, ReadChild, DriveOut, Yield, Executes,
       Goto, rows, world, bounds
<1>p. PICK p \in StepIds : p = at[d]  BY <1>s, AtWork DEF Standing, Inside
<1>0. /\ TypeOK /\ Hand(d, p) /\ run.status \in {"RUNNING", "CANCELLED"} /\ Asked
    BY <1>s, <1>p, AtWork DEF Standing, Inside, Orderly
<1>q. Asked'  BY <1>0, <1>s DEF Asked
<1>1. ASSUME pc'[d] \in {"record", "drive", "yield", "idle"} PROVE Strict(d)'
    BY <1>0, <1>1, <1>s DEF Strict, Leaving
<1>2. children \in [StepIds -> Seq(Ends)]  BY <1>0 DEF TypeOK, Ends
<1>3. CASE StartChild(d)
  <2>1. /\ pc[d] = "execute" /\ pc'[d] = "record" /\ Workflow[p] = "agent_run"
        /\ seen[d][p].child = 0 /\ steps' = steps
        /\ children' = Put(children, p, Append(children[p], "open"))
      BY <1>0, <1>p, <1>3 DEF StartChild, Executes, Here, Goto, TypeOK, rows
  <2>2. Claimed(p)  BY <1>0, <2>1 DEF Hand, Waiting
  <2>3. children[p] = <<>> /\ Append(children[p], "open") = <<"open">>  BY <2>2 DEF Claimed, Clean
  <2>4. Stage(p) = "begun"  BY <2>2, StageIs DEF Claimed
  <2>5. \A j \in StepIds : Stage(j)' = Stage(j)  BY <1>0, <1>s, <2>1, AllKept
  <2>6. Contract!Start(p)
      BY <1>s, <2>1, <2>3, <2>4, <2>5 DEF Contract!Start, Contract!SetChild, Put
  <2>7. Faithful  BY <2>6 DEF Faithful, Contract!Next
  <2> QED BY <1>1, <1>q, <2>1, <2>7
<1>4. CASE EndChild(d)
  <2>1. /\ pc[d] = "drive" /\ UNCHANGED <<pc, at, steps>> /\ children[p][held[d]] = "open"
      BY <1>p, <1>4 DEF EndChild, rows, locals
  <2>2. Waiting(p) /\ held[d] = 1
    <3>1. Driven(p) /\ held[d] = 1  BY <1>0, <2>1 DEF Hand
    <3> QED BY <2>1, <3>1 DEF Driven, Waiting
  <2>3. PICK end \in ChildEnds : children' = Put(children, p, Put(children[p], held[d], end))
      BY <1>p, <1>4 DEF EndChild
  <2>4. Put(children[p], held[d], end) = <<end>>
    <3>1. Put(children[p], held[d], end) = [<<"open">> EXCEPT ![1] = end]
        BY <2>2 DEF Waiting, Put
    <3> QED BY <3>1
  <2>7. Stage(p) = "begun"  BY <2>2, StageIs DEF Waiting
  <2>8. \A j \in StepIds : Stage(j)' = Stage(j)  BY <1>0, <1>s, <2>1, AllKept
  <2>9. Contract!EndChild(p, end)
      BY <1>s, <2>2, <2>3, <2>4, <2>7, <2>8
      DEF Contract!EndChild, Contract!SetChild, Put, Waiting
  <2>10. Faithful  BY <2>9 DEF Faithful, Contract!Next, ChildEnds
  <2> QED BY <1>1, <1>q, <2>1, <2>10
<1>r. CASE ReadChild(d)
  <2>1. pc[d] = "drive" /\ UNCHANGED <<run, steps, met, children, effects, canceller>>
      BY <1>r DEF ReadChild, rows, world, bounds
  <2>2. pc[d] \in Standing  BY <2>1 DEF Standing, Inside
  <2>3. Driven(p) /\ held[d] = 1  BY <1>0, <2>1 DEF Hand
  <2>4. PICK end \in Ends : children[p] = <<end>>  BY <2>3 DEF Driven
  <2>5. children[p][held[d]] = end  BY <2>3, <2>4
  <2>6. CASE end = "succeeded"
    <3>1. pc'[d] = "ok" /\ at' = at
        BY <1>0, <1>p, <1>r, <2>5, <2>6 DEF ReadChild, Goto, TypeOK, locals
    <3>2. steps[p].status = "RUNNING"  BY <2>3 DEF Driven
    <3>3. Faithful  BY <1>0, <2>1, <3>1, AllKept, Still
    <3> QED BY <1>0, <1>p, <1>q, <2>1, <3>1, <3>2, <3>3 DEF Strict, Leaving
  <2>7. CASE end = "credit_limit"
    <3>1. Fail(d, pc[d], "CREDIT_BLOCKED")  BY <1>p, <1>r, <2>1, <2>5, <2>7 DEF ReadChild
    <3>2. Limited(at[d])  BY <1>p, <2>4, <2>7 DEF Limited
    <3> QED BY <2>1, <2>2, <3>1, <3>2, FailIsFaithful
  <2>8. CASE end \notin {"succeeded", "credit_limit"}
    <3>1. Fail(d, pc[d], "FAILED")  BY <1>p, <1>r, <2>1, <2>5, <2>8 DEF ReadChild
    <3> QED BY <2>1, <2>2, <3>1, FailIsFaithful
  <2> QED BY <2>6, <2>7, <2>8
<1>5. CASE RecordChild(d) \/ ResumeChild(d) \/ DriveOut(d) \/ Yield(d)
  <2>1. /\ pc'[d] \in {"record", "drive", "yield", "idle"} /\ children' = children
      BY <1>0, <1>5 DEF RecordChild, ResumeChild, DriveOut, Yield, Return, Goto, TypeOK, world
  <2>2. \/ steps' = steps
        \/ steps' = Put(steps, p, [steps[p] EXCEPT !.child = held[d]])
        \/ steps' = Put(steps, p, [status |-> "RUNNING", child |-> held[d]])
      BY <1>p, <1>5 DEF RecordChild, ResumeChild, DriveOut, Yield, SetStep, rows
  <2>3. steps[p].status = "RUNNING"
      BY <1>0, <1>s DEF Hand, Claimed, Waiting, Driven
  <2>4. steps'[p].status = "RUNNING" /\ \A j \in StepIds \ {p} : steps'[j] = steps[j]
      BY <1>0, <2>2, <2>3 DEF Put, TypeOK, StepRows
  <2>5. \A j \in StepIds \ {p} : Stage(j)' = Stage(j)
      BY <1>0, <1>p, <1>s, <2>1, <2>4, OthersKept
  <2>6. Stage(p)' = Stage(p)  BY <2>3, <2>4, StageIs, StageIsNext
  <2>7. Faithful  BY <1>s, <2>1, <2>5, <2>6, Still
  <2> QED BY <1>1, <1>q, <2>1, <2>7
<1> QED BY <1>3, <1>4, <1>r, <1>5 DEF Child

LEMMA EffectIsFaithful ==
    ASSUME NEW d \in Drivers, Drivers = {d}, Orderly(d), Draft(d) \/ Save(d)
    PROVE  Strict(d)' /\ Asked' /\ Faithful
<1>s. pc[d] = "execute" /\ UNCHANGED <<run, steps, met, children, canceller>>
    BY DEF Draft, Save, Executes, rows, bounds
<1>p. PICK p \in StepIds : p = at[d]  BY <1>s, AtWork DEF Standing, Inside
<1>0. /\ TypeOK /\ Hand(d, p) /\ run.status # "QUEUED" /\ Asked
      /\ Workflow[p] \in {"publication_draft", "workspace_save"}
    BY <1>s, <1>p, AtWork DEF Standing, Inside, Orderly, Draft, Save, Executes, Here
<1>1. Claimed(p) /\ effects[p] = 0 /\ Stage(p) = "begun" /\ steps[p].status = "RUNNING"
  <2>1. Claimed(p)  BY <1>0, <1>s DEF Hand, Waiting
  <2> QED BY <2>1, StageIs DEF Claimed, Clean
<1>2. pc'[d] = "ok" /\ at' = at /\ effects' = Put(effects, p, 1)
    BY <1>0, <1>p, <1>1 DEF Draft, Save, Goto, TypeOK, locals
<1>3. effects'[p] = 1  BY <1>0, <1>2 DEF Put, TypeOK
<1>4. \A j \in StepIds : Stage(j)' = Stage(j)  BY <1>0, <1>s, <1>2, AllKept
<1>5. Contract!Write(p)  BY <1>0, <1>s, <1>1, <1>2, <1>4 DEF Contract!Write, Put
<1>6. Faithful  BY <1>5 DEF Faithful, Contract!Next
<1> QED BY <1>0, <1>p, <1>s, <1>1, <1>2, <1>3, <1>6 DEF Strict, Leaving, Asked

LEMMA StepOkIsFaithful ==
    ASSUME NEW d \in Drivers, Drivers = {d}, Orderly(d), StepOk(d)
    PROVE  Strict(d)' /\ Asked' /\ Faithful
<1>s. /\ pc[d] = "ok" /\ UNCHANGED <<run, met, children, effects, canceller>>
    BY DEF StepOk, GoOnAt, Goto, world, bounds
<1>p. PICK p \in StepIds : p = at[d]  BY <1>s, AtWork DEF Standing, Inside
<1>0. /\ TypeOK /\ Hand(d, p) /\ run.status # "QUEUED" /\ Asked /\ Ahead(d)
      /\ steps[p].status = "RUNNING"
    BY <1>s, <1>p, AtWork DEF Standing, Inside, Orderly, Strict
<1>1. /\ GoOnAt(d, "ok", p + 1, seen[d])
      /\ steps' = Put(steps, p, [status |-> "OK", child |-> held[d]])
    BY <1>p DEF StepOk, SetStep
<1>2. steps'[p].status = "OK" /\ \A j \in StepIds \ {p} : steps'[j] = steps[j]
    BY <1>0, <1>1 DEF Put, TypeOK
<1>3. /\ Workflow[p] = "agent_run" => children[p] = <<"succeeded">>
      /\ Workflow[p] = "condition" => p \in met
      /\ Workflow[p] \notin {"agent_run", "condition"} => effects[p] = 1
    BY <1>0, <1>s DEF Hand
<1>4. \/ Goto(d, "ok", "finalize") /\ final' = Put(final, d, "SUCCEEDED")
      \/ Goto(d, "ok", "check")
  <2>1. p + 1 \in Nat \ {0}  BY StepFacts
  <2>2. \A j \in StepIds : j >= p + 1 => seen[d][j].status # "FAILED"
    <3> SUFFICES ASSUME NEW j \in StepIds, j >= p + 1 PROVE seen[d][j].status # "FAILED"  OBVIOUS
    <3>1. j > p  BY StepFacts
    <3> QED BY <1>0, <1>p, <3>1 DEF Ahead, NoRow
  <2> QED BY <1>1, <2>1, <2>2, NoneFailed
<1>5. pc'[d] \in {"finalize", "check"} /\ (pc'[d] = "finalize" => final'[d] = "SUCCEEDED")
    BY <1>0, <1>4 DEF Goto, Put, TypeOK
<1>6. Stage(p) = "begun"  BY <1>0, StageIs
<1>7. Contract!Finish(p)
  <2>1. Stage(p)' = "done"  BY <1>s, <1>2, <1>3, StageIsNext
  <2>2. \A j \in StepIds \ {p} : Stage(j)' = Stage(j)
      BY <1>0, <1>p, <1>s, <1>2, <1>5, OthersKept
  <2>3. Contract!Move(p, {"begun"}, "done")  BY <1>s, <1>6, <2>1, <2>2, Moving
  <2>4. Contract!Worked(p)
    <3>1. Workflow[p] \in Kinds  BY AutomationConstants DEF StepIds
    <3> QED BY <1>0, <1>3, <3>1 DEF Contract!Worked, Kinds
  <2> QED BY <1>s, <2>3, <2>4 DEF Contract!Finish, Contract!work
<1>8. Faithful  BY <1>7 DEF Faithful, Contract!Next
<1>9. Strict(d)'
  <2>1. Walk(d)'  BY StepOkAlone DEF Orderly
  <2>2. CASE pc'[d] = "finalize"  BY <1>0, <1>s, <1>5, <2>1, <2>2, SucceedsStrictly
  <2>3. CASE pc'[d] = "check"  BY <1>0, <1>s, <2>3 DEF Strict, Leaving
  <2> QED BY <1>5, <2>2, <2>3
<1> QED BY <1>0, <1>s, <1>8, <1>9 DEF Asked

LEMMA HaltIsFaithful ==
    ASSUME NEW d \in Drivers, Drivers = {d}, Orderly(d), NearReads, StepHalts(d)
    PROVE  Strict(d)' /\ Asked' /\ Faithful
<1>s. pc[d] = "halt" /\ UNCHANGED <<run, met, children, effects, canceller>>
    BY DEF StepHalts, SkipFrom, Goto, world, bounds
<1>p. PICK p \in StepIds : p = at[d]  BY <1>s, AtWork DEF Standing, Inside
<1>0. /\ TypeOK /\ Hand(d, p) /\ run.status # "QUEUED" /\ Asked
      /\ steps[p].status = "RUNNING"
    BY <1>s, <1>p, AtWork DEF Standing, Inside, Orderly, Strict
<1>1. /\ pc'[d] = "skip" /\ at'[d] = p + 1 /\ held'[d] = p /\ final'[d] = "CONDITION_HALTED"
      /\ steps' = Put(steps, p, [steps[p] EXCEPT !.status = "OK"])
    BY <1>0, <1>p DEF StepHalts, SkipFrom, StepStatus, SetStep, Goto, Put, TypeOK
<1>2. steps'[p].status = "OK" /\ \A j \in StepIds \ {p} : steps'[j] = steps[j]
    BY <1>0, <1>1 DEF Put, TypeOK, StepRows
<1>3. \A j \in StepIds \ {p} : Stage(j)' = Stage(j)
    BY <1>0, <1>1, <1>p, <1>s, <1>2, OthersKept
<1>4. Stage(p) = "begun" /\ p < p + 1  BY <1>0, StageIs, StepFacts
<1>5. Workflow[p] = "condition" /\ p \notin met  BY <1>0, <1>s DEF Hand
<1>6. Stage(p)' = "halted"  BY <1>s, <1>2, <1>5, StageIsNext
<1>7. Contract!Move(p, {"begun"}, "halted")  BY <1>3, <1>4, <1>s, <1>6, Moving
<1>8. Contract!Halt(p)  BY <1>s, <1>5, <1>7 DEF Contract!Halt, Contract!work
<1>9. Faithful  BY <1>8 DEF Faithful, Contract!Next
<1>10. Halted(p)'  BY <1>s, <1>2, <1>5 DEF Halted
<1>11. Cause(final[d], at[d])'  BY <1>1, <1>4, <1>10 DEF Cause
<1>12. Strict(d)'  BY <1>0, <1>1, <1>s, <1>10, <1>11 DEF Strict, Leaving
<1> QED BY <1>0, <1>s, <1>9, <1>12 DEF Asked

LEMMA StepFailsIsFaithful ==
    ASSUME NEW d \in Drivers, Drivers = {d}, Orderly(d), StepFails(d)
    PROVE  Strict(d)' /\ Asked' /\ Faithful
<1>s. pc[d] = "failed" /\ UNCHANGED <<run, met, children, effects, canceller>>
    BY DEF StepFails, SkipFrom, Goto, world, bounds
<1>p. PICK p \in StepIds : p = at[d]  BY <1>s DEF Orderly, Inv, Local, Place, Inside
<1>0. /\ TypeOK /\ run.status # "QUEUED" /\ Asked /\ Tried(p)
      /\ final[d] = "CREDIT_BLOCKED" => Limited(p)
      /\ final[d] \in {"FAILED", "CREDIT_BLOCKED"}
    BY <1>s, <1>p DEF Orderly, Strict, Inv, Walk, Closing
<1>1. /\ pc'[d] = "skip" /\ at'[d] = p + 1 /\ final'[d] = final[d]
      /\ steps' = Put(steps, p, [steps[p] EXCEPT !.status = "FAILED"])
    BY <1>0, <1>p DEF StepFails, SkipFrom, StepStatus, SetStep, Goto, Put, TypeOK
<1>2. steps'[p].status = "FAILED" /\ \A j \in StepIds \ {p} : steps'[j] = steps[j]
    BY <1>0, <1>1 DEF Put, TypeOK, StepRows
<1>3. \A j \in StepIds \ {p} : Stage(j)' = Stage(j)
    BY <1>0, <1>1, <1>p, <1>s, <1>2, OthersKept
<1>4. Stage(p) \in {"begun", "halted"} /\ p < p + 1
    BY <1>0, StageIs, StepFacts DEF Tried, Halted
<1>5. Stage(p)' = "failed"  BY <1>2, StageIsNext
<1>6. Contract!Move(p, {"begun", "halted"}, "failed")  BY <1>3, <1>4, <1>s, <1>5, Moving
<1>7. Contract!Fail(p)  BY <1>s, <1>6 DEF Contract!Fail, Contract!work
<1>8. Faithful  BY <1>7 DEF Faithful, Contract!Next
<1>9. Failed(p)' /\ (Limited(p)' <=> Limited(p))  BY <1>s, <1>2 DEF Failed, Limited
<1>10. Cause(final[d], at[d])'  BY <1>0, <1>1, <1>4, <1>9 DEF Cause
<1>11. Strict(d)'  BY <1>0, <1>1, <1>s, <1>10 DEF Strict, Leaving
<1> QED BY <1>0, <1>s, <1>8, <1>11 DEF Asked

LEMMA HaltThrowsIsFaithful ==
    ASSUME NEW d \in Drivers, Drivers = {d}, Orderly(d), HaltThrows(d)
    PROVE  Strict(d)' /\ Asked' /\ Faithful
<1>0. /\ TypeOK /\ pc[d] \in Leaving /\ final[d] = "CONDITION_HALTED" /\ Asked
      /\ UNCHANGED <<run, steps, met, children, effects, canceller>>
      /\ pc'[d] = "failed" /\ at'[d] = held[d] /\ final'[d] = "FAILED"
    BY DEF Orderly, Inv, HaltThrows, Leaving, Goto, Put, TypeOK, rows, world, bounds
<1>1. Halted(held[d]) /\ run.status # "QUEUED"  BY <1>0 DEF Orderly, Strict, Leaving
<1>2. Tried(at[d])'  BY <1>0, <1>1 DEF Tried, Halted
<1>3. Faithful  BY <1>0, AllKept, Still DEF Leaving
<1> QED BY <1>0, <1>1, <1>2, <1>3 DEF Strict, Leaving, Asked

(* The reason to stop stays one while the rest of the rows is gone through. *)
LEMMA CauseStays ==
    ASSUME NEW s, NEW n \in Nat, NEW m \in Nat, n <= m \/ (\A j \in StepIds : j < m), Cause(s, n),
           UNCHANGED <<met, children>>, run.cancel => run'.cancel,
           \A j \in StepIds : j < n => steps'[j] = steps[j]
    PROVE  Cause(s, m)'
<1>1. \A j \in StepIds : j < n => j < m  BY StepFacts
<1>2. \A j \in StepIds : j < n =>
        (Halted(j)' <=> Halted(j)) /\ (Failed(j)' <=> Failed(j)) /\ (Limited(j)' <=> Limited(j))
    BY DEF Halted, Failed, Limited
<1> QED BY <1>1, <1>2 DEF Cause

LEMMA SkipsIsFaithful ==
    ASSUME NEW d \in Drivers, Drivers = {d}, Orderly(d), SkipRead(d) \/ SkipNext(d)
    PROVE  Strict(d)' /\ Asked' /\ Faithful
<1>s. /\ UNCHANGED <<run, met, children, effects, canceller>> /\ pc[d] \in {"skip", "skipping"}
      /\ final' = final /\ held' = held /\ TypeOK
    BY DEF Orderly, Inv, SkipRead, SkipNext, Goto, rows, world, bounds
<1>p. PICK p \in Nat : p = at[d]  BY <1>s DEF TypeOK
<1>0. /\ Cause(final[d], p) /\ run.status # "QUEUED" /\ Asked /\ p >= 1
      /\ \A j \in StepIds : j < p => Settled(j)
    BY <1>s, <1>p DEF Orderly, Strict, Walk, Closing, Inv, Local, Place
<1>q. Asked'  BY <1>0, <1>s DEF Asked
<1>h. final[d] = "CONDITION_HALTED" => Halted(held[d]) /\ held[d] \in StepIds
    BY <1>s DEF Orderly, Strict, Leaving, Inv, Local, Holding
<1>u. ASSUME steps' = steps PROVE final[d] = "CONDITION_HALTED" => Halted(held[d])'
    BY <1>h, <1>s, <1>u DEF Halted
<1>1. CASE SkipRead(d)
  <2>1. pc'[d] = "skipping" /\ at' = at /\ steps' = steps
      BY <1>s, <1>1 DEF SkipRead, Goto, TypeOK, rows
  <2>2. Cause(final[d], p)'  BY <1>0, <1>s, <2>1, CauseStays
  <2>3. Faithful  BY <1>s, <2>1, AllKept, Still
  <2> QED BY <1>0, <1>p, <1>q, <1>s, <1>u, <2>1, <2>2, <2>3 DEF Strict, Leaving
<1>2. CASE SkipNext(d) /\ p > Len(Workflow)
  <2>1. pc[d] = "skipping" /\ pc'[d] = "finalize" /\ steps' = steps
      BY <1>s, <1>p, <1>2 DEF SkipNext, Goto, TypeOK
  <2>2. \A j \in StepIds : j < p /\ j < Len(Workflow) + 1
      BY <1>2, StepFacts DEF StepIds
  <2>3. Len(Workflow) + 1 \in Nat  BY StepFacts
  <2>4. Cause(final[d], Len(Workflow) + 1)'  BY <1>0, <1>s, <2>1, <2>2, <2>3, CauseStays
  <2>5. \A j \in StepIds : Settled(j)'  BY <1>0, <2>1, <2>2 DEF Settled
  <2>6. Faithful  BY <1>s, <2>1, AllKept, Still
  <2> QED BY <1>0, <1>q, <1>s, <1>u, <2>1, <2>4, <2>5, <2>6 DEF Strict, Leaving
<1>3. CASE SkipNext(d) /\ ~ (p > Len(Workflow))
  <2>1. p \in StepIds /\ p < p + 1  BY <1>0, <1>3, StepFacts DEF StepIds
  <2>2. pc[d] = "skipping" /\ pc' = pc /\ at'[d] = p + 1
      BY <1>s, <1>p, <1>3 DEF SkipNext, Put, TypeOK
  <2>3. seen[d][p] = steps[p]
    <3>1. p >= p  BY <1>p
    <3> QED BY <1>p, <2>1, <2>2, <3>1 DEF Orderly, Walk, Closing
  <2>4. \/ steps' = steps
        \/ /\ steps[p].status \notin {"OK", "FAILED"}
           /\ steps' = Put(steps, p, [steps[p] EXCEPT !.status = "SKIPPED"])
      BY <1>p, <1>3, <2>2, <2>3 DEF SkipNext, StepStatus, SetStep
  <2>5. \A j \in StepIds \ {p} : steps'[j] = steps[j]  BY <1>s, <2>4 DEF Put, TypeOK
  <2>6. Cause(final[d], p + 1)'
    <3>1. \A j \in StepIds : j < p => steps'[j] = steps[j]  BY <1>p, <2>5, StepFacts
    <3>2. p + 1 \in Nat /\ p <= p + 1  BY <1>p
    <3> QED BY <1>0, <1>p, <1>s, <3>1, <3>2, CauseStays
  <2>h. final[d] = "CONDITION_HALTED" => Halted(held[d])'
    <3>1. steps' # steps => \A j \in StepIds : Halted(j) => j # p  BY <2>4 DEF Halted
    <3> QED BY <1>h, <1>s, <1>u, <2>5, <3>1 DEF Halted
  <2>7. Strict(d)'  BY <1>0, <1>s, <2>2, <2>6, <2>h DEF Strict, Leaving
  <2>8. \A j \in StepIds \ {p} : Stage(j)' = Stage(j)
      BY <1>p, <1>s, <2>1, <2>2, <2>5, StageKept
  <2>9. CASE Stage(p)' = Stage(p)
    <3>1. Faithful  BY <1>s, <2>8, <2>9, Still
    <3> QED BY <1>q, <2>7, <3>1
  <2>10. CASE Stage(p)' # Stage(p)
    <3>1. /\ steps[p].status \notin {"OK", "FAILED"}
          /\ steps' = Put(steps, p, [steps[p] EXCEPT !.status = "SKIPPED"])
      <4>1. ASSUME steps' = steps PROVE FALSE  BY <1>s, <2>1, <2>2, <2>10, <4>1, AllKept
      <4> QED BY <2>4, <4>1
    <3>2. steps'[p].status = "SKIPPED" /\ Stage(p)' = "skipped"
      <4>1. steps'[p].status = "SKIPPED"  BY <1>s, <2>1, <3>1 DEF Put, TypeOK, StepRows
      <4> QED BY <2>1, <4>1, StageIsNext
    <3>3. Stage(p) \in {"ahead", "begun"}
      <4>1. steps[p].status \in {"none", "PENDING", "RUNNING", "SKIPPED"}
          BY <1>s, <2>1, <3>1 DEF TypeOK, StepRows, StepStatuses
      <4> QED BY <2>1, <2>10, <3>2, <4>1, StageIs
    <3>4. Contract!Move(p, {"ahead", "begun"}, "skipped")
      <4>1. run' = run /\ Stage(p)' = "skipped"  BY <1>s, <3>2
      <4>2. p \in StepIds  BY <2>1
      <4> QED BY <2>8, <3>3, <4>1, <4>2, Moving
    <3>5. \A j \in StepIds : j < p => Contract!Over(j)  BY <1>0, SettledIsOver
    <3>6. run.cancel \/ \E j \in StepIds : j < p /\ Stage(j) \in {"halted", "failed"}
      <4>1. \A j \in StepIds : Halted(j) => Stage(j) = "halted"  BY StageIs DEF Halted
      <4>2. \A j \in StepIds : Failed(j) => Stage(j) = "failed"  BY StageIs DEF Failed
      <4> QED BY <1>0, <4>1, <4>2 DEF Cause
    <3>7. Contract!Skip(p)
        BY <1>s, <3>4, <3>5, <3>6 DEF Contract!Skip, Contract!work
    <3>8. Faithful  BY <2>1, <3>7 DEF Faithful, Contract!Next
    <3> QED BY <1>q, <2>7, <3>8
  <2> QED BY <2>9, <2>10
<1> QED BY <1>1, <1>2, <1>3

LEMMA CloseIsFaithful ==
    ASSUME NEW d \in Drivers, Drivers = {d}, Orderly(d), Close(d)
    PROVE  Strict(d)' /\ Asked' /\ Faithful
<1>0. /\ TypeOK /\ Strict(d) /\ Asked /\ UNCHANGED <<steps, met, children, effects, canceller>>
      /\ pc[d] \in {"finalize", "notify"} /\ run.status # "QUEUED"
    BY DEF Orderly, Inv, Strict, Close, Finalize, Notify, Return, Goto, rows, world, bounds
<1>1. /\ pc'[d] \in {"notify", "idle"}
      /\ pc'[d] = "notify" => pc[d] = "finalize" /\ held' = held /\ final' = final
    BY <1>0 DEF Close, Finalize, Notify, Return, Goto, TypeOK, locals
<1>h. pc'[d] = "notify" /\ final'[d] = "CONDITION_HALTED" => Halted(held[d])'
    BY <1>0, <1>1 DEF Strict, Leaving, Halted
<1>2. \A j \in StepIds : Stage(j)' = Stage(j)  BY <1>0, <1>1, AllKept
<1>3. CASE run' = run
  <2>1. Faithful  BY <1>0, <1>2, <1>3, Still
  <2> QED BY <1>0, <1>1, <1>3, <1>h, <2>1 DEF Strict, Leaving, Asked
<1>4. CASE Finalize(d) /\ run.status \notin Terminal
  <2>1. pc[d] = "finalize" /\ run' = [run EXCEPT !.status = final[d]]
      BY <1>4 DEF Finalize, Goto
  <2>2. run'.status = final[d] /\ run'.cancel = run.cancel  BY <1>0, <2>1 DEF TypeOK
  <2>3. /\ \A j \in StepIds : Settled(j)
        /\ final[d] = "SUCCEEDED" \/ Cause(final[d], Len(Workflow) + 1)
        /\ Verdict(final[d])
      BY <1>0, <2>1 DEF Orderly, Strict, Walk, Closing
  <2>4. final[d] \in Contract!Ends /\ (final[d] = "CANCELLED" => run.cancel)
      BY <2>3 DEF Cause, Contract!Ends
  <2>5. run.status = "RUNNING"  BY <1>0, <1>4 DEF TypeOK, RunStatuses, Terminal
  <2>6. Contract!Because(final[d])
    <3>1. final[d] = "SUCCEEDED" => \A i \in StepIds : Stage(i) = "done"
      <4>1. ASSUME final[d] = "SUCCEEDED", NEW i \in StepIds PROVE Stage(i) = "done"
        <5>1. Good(i)  BY <2>3, <4>1 DEF Verdict
        <5> QED BY <5>1, GoodIsDone
      <4> QED BY <4>1
    <3>2. final[d] = "CONDITION_HALTED" => \E i \in StepIds : Stage(i) = "halted"
        BY <2>3, StageIs DEF Cause, Halted
    <3>3. \A i \in StepIds : Failed(i) => Stage(i) = "failed"  BY StageIs DEF Failed
    <3>4. \A i \in StepIds : Limited(i) <=> Contract!OverLimit(i)
        BY DEF Limited, Contract!OverLimit
    <3>5. final[d] = "FAILED" => \E i \in StepIds : Stage(i) = "failed"
        BY <2>3, <3>3 DEF Cause
    <3>6. final[d] = "CREDIT_BLOCKED" => \E i \in StepIds : Stage(i) = "failed" /\ Contract!OverLimit(i)
        BY <2>3, <3>3, <3>4 DEF Cause
    <3> QED BY <2>4, <3>1, <3>2, <3>5, <3>6 DEF Contract!Because
  <2>7. \A i \in StepIds : Contract!Over(i)  BY <2>3, SettledIsOver
  <2>8. Contract!End(final[d])
      BY <1>0, <1>2, <2>2, <2>5, <2>6, <2>7 DEF Contract!End, Contract!work
  <2>9. Faithful  BY <2>4, <2>8 DEF Faithful, Contract!Next
  <2>10. Asked'  BY <1>0, <2>2, <2>4 DEF Asked
  <2>11. run'.status # "QUEUED"  BY <2>2, <2>4 DEF Contract!Ends
  <2> QED BY <1>1, <1>h, <2>1, <2>9, <2>10, <2>11 DEF Strict, Leaving
<1> QED BY <1>3, <1>4 DEF Close, Finalize, Notify, rows

LEMMA CancelIsFaithful ==
    ASSUME NEW d \in Drivers, Drivers = {d}, Orderly(d), CancelRead \/ CancelPatch
    PROVE  Strict(d)' /\ Asked' /\ Faithful
<1>0. /\ TypeOK /\ Strict(d) /\ Asked
      /\ UNCHANGED <<steps, met, children, effects, pc, at, held, final>>
    BY DEF Orderly, Inv, CancelRead, CancelPatch, rows, world, locals
<1>1. \A j \in StepIds : Stage(j)' = Stage(j)  BY <1>0, StageKept
<1>2. ASSUME run.cancel => run'.cancel, run'.status = "QUEUED" => run.status = "QUEUED"
      PROVE  Strict(d)'
  <2>1. \A s, n : Cause(s, n) => Cause(s, n)'  BY <1>0, <1>2 DEF Cause, Halted, Failed, Limited
  <2>2. \A p : (Tried(p) => Tried(p)') /\ (Limited(p) => Limited(p)') /\ (Halted(p) => Halted(p)')
      BY <1>0 DEF Tried, Halted, Limited
  <2>3. \A j \in StepIds : Settled(j) => Settled(j)'  BY <1>0 DEF Settled
  <2> QED BY <1>0, <1>2, <2>1, <2>2, <2>3 DEF Strict, Leaving
<1>3. CASE CancelRead
  <2>1. run' = run /\ canceller = "idle"  BY <1>3 DEF CancelRead, rows
  <2>2. Faithful  BY <1>0, <1>1, <2>1, Still
  <2> QED BY <1>0, <1>2, <2>1, <2>2 DEF Asked
<1>4. CASE CancelPatch
  <2>1. canceller \in {"QUEUED", "RUNNING"} /\ canceller' = "done" /\ ~ run.cancel
      BY <1>0, <1>4 DEF CancelPatch, Asked
  <2>2. run'.cancel = TRUE /\ run'.status \in {run.status, "CANCELLED"}
      BY <1>0, <1>4 DEF CancelPatch, TypeOK
  <2>3. Contract!Cancel  BY <1>0, <1>1, <2>1, <2>2 DEF Contract!Cancel, Contract!work
  <2>4. Faithful  BY <2>3 DEF Faithful, Contract!Next
  <2> QED BY <1>2, <2>1, <2>2, <2>4 DEF Asked
<1> QED BY <1>3, <1>4

LEMMA OrderlyStep ==
    ASSUME NEW d \in Drivers, Drivers = {d}, MaxCrashes = 0, NearReads, Orderly(d), [Next]_vars
    PROVE  Orderly(d)' /\ Faithful
<1>1. Inv' /\ AloneInv(d)'  BY InvNext, AloneStep DEF Orderly, AloneInv
<1>2. CASE Drive(d)
  <2>1. CASE Begin(d)  BY <1>1, <2>1, BeginIsFaithful DEF Orderly, AloneInv
  <2>2. CASE Enter(d)  BY <1>1, <2>2, EnterIsFaithful DEF Orderly, AloneInv
  <2>3. CASE Work(d)
      BY <1>1, <2>3, ThrowIsFaithful, EvaluateIsFaithful, ChildIsFaithful, EffectIsFaithful
      DEF Work, Orderly, AloneInv
  <2>4. CASE Finish(d)
      BY <1>1, <2>4, StepOkIsFaithful, HaltIsFaithful, StepFailsIsFaithful, HaltThrowsIsFaithful,
         SkipsIsFaithful
      DEF Finish, Orderly, AloneInv
  <2>5. CASE Close(d)  BY <1>1, <2>5, CloseIsFaithful DEF Orderly, AloneInv
  <2> QED BY <1>2, <2>1, <2>2, <2>3, <2>4, <2>5 DEF Drive
<1>3. ~ Crash(d)  BY DEF Crash, Orderly, Inv, TypeOK
<1>4. CASE CancelRead \/ CancelPatch  BY <1>1, <1>4, CancelIsFaithful DEF Orderly, AloneInv
<1>5. CASE UNCHANGED vars
  <2>1. UNCHANGED <<run, steps, met, children, effects, canceller, pc, at, held, final>>  BY <1>5 DEF vars
  <2>2. \A j \in StepIds : Stage(j)' = Stage(j)  BY <2>1, StageKept DEF Orderly, Inv
  <2>3. Faithful  BY <2>1, <2>2, Still
  <2>4. Strict(d)' /\ Asked'
      BY <2>1 DEF Orderly, Strict, Asked, Tried, Cause, Limited, Halted, Failed, Settled
  <2> QED BY <1>1, <2>3, <2>4 DEF Orderly, AloneInv
<1> QED BY <1>2, <1>3, <1>4, <1>5 DEF Next

(* AUTOMATION_EXECUTION_CONTRACT 3 and 4: one invocation at a time that is not *)
(* killed, resumed any number of times and cancelled at any point, carries any *)
(* workflow out as ExecutionContract says, each of its steps (a claim, a row,  *)
(* a child run) one step of that contract or none, where every condition reads *)
(* the agent step closest before it.                                           *)
THEOREM AloneImplementsExecutionContract ==
    ASSUME NEW d \in Drivers, Drivers = {d}, MaxCrashes = 0, NearReads
    PROVE  Spec => ImplementsExecutionContract
<1>1. Init => Orderly(d)
  <2> SUFFICES ASSUME Init PROVE Orderly(d)  OBVIOUS
  <2>1. Inv /\ Walk(d) /\ Tidy  BY InvInit, AloneInit
  <2>2. /\ pc[d] = "idle" /\ run = [status |-> "QUEUED", cancel |-> FALSE] /\ canceller = "idle"
      BY DEF Init
  <2> QED BY <2>1, <2>2 DEF Orderly, Strict, Leaving, Asked
<1>2. Orderly(d) /\ [Next]_vars => Orderly(d)'  BY OrderlyStep
<1>3. Orderly(d) /\ [Next]_vars => [Contract!Next]_(Contract!contractVars)
    BY OrderlyStep DEF Faithful
<1>4. Init => Contract!Init
  <2> SUFFICES ASSUME Init PROVE Contract!Init  OBVIOUS
  <2>1. \A i \in StepIds : steps[i].status = "none"  BY DEF Init, NoRows, NoRow
  <2>2. pc[d] = "idle"  BY DEF Init
  <2>3. \A i \in StepIds : Stage(i) = "ahead"  BY <2>1, <2>2, StageIs
  <2> QED BY <2>3 DEF Init, Contract!Init, OfKind
<1> QED BY <1>1, <1>2, <1>3, <1>4, PTL DEF Spec, ImplementsExecutionContract, Contract!Spec
=============================================================================
