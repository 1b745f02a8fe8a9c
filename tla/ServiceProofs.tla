--------------------------- MODULE ServiceProofs ---------------------------
(* Theorems about SupportHandoff, AutomationTrigger, SocialOutbox and         *)
(* RateLimit, which share nothing, for any tickets, admins, days, passes and  *)
(* requests; and about the composition of all the services (MC_Services),     *)
(* whose behaviours are behaviours of each of them.                           *)
EXTENDS MC_Services, MoneyProofs, LiveSyncProofs, FiniteSetTheorems, SequenceTheorems, TLAPS

(***************************************************************************)
(* The inductive invariant of the tickets.  A patch acts on a status read  *)
(* long ago, so what makes it safe must be true of the ticket for good:    *)
(* nobody ever takes a ticket's admin away, a patch that assigns brings    *)
(* one, and one that moves the ticket on was read from one that had one.   *)
(***************************************************************************)
Backed(r) ==
    hoPc[r] = "patch" =>
        /\ toStatus[r] = "ASSIGNED" => toAdmin[r] # Nobody
        /\ toStatus[r] \in {"IN_PROGRESS", "RESOLVED"} => assignee[about[r]] # Nobody

Handled(t) ==
    /\ ticket[t] \in {"ASSIGNED", "IN_PROGRESS", "RESOLVED"} => assignee[t] # Nobody
    /\ ticket[t] = "RESOLVED" => resolvedAt[t]

OneActive == \A t, u \in Tickets : t \in ActiveTickets /\ u \in ActiveTickets => t = u

HandoffInv ==
    /\ HandoffTypeOK /\ OneActive
    /\ \A t \in Tickets : Handled(t)
    /\ \A r \in Agents : Backed(r)

LEMMA AnyTicketIsOne == AnyTicket \in Tickets
BY HandoffConstants DEF AnyTicket

LEMMA HandoffInvInit == HandoffInit => HandoffInv
BY AnyTicketIsOne DEF HandoffInit, HandoffInv, HandoffTypeOK, OneActive, ActiveTickets,
   ACTIVE_HANDOFF_STATUSES, Handled, Backed, TicketStatuses

-----------------------------------------------------------------------------
(* A request that reads touches no row. *)
LEMMA ReadKeeps ==
    ASSUME HandoffInv, NEW r \in Agents, NEW t \in Tickets, NEW place \in {"create", "patch"},
           NEW to \in TicketStatuses, NEW admin \in Admins \cup {Nobody},
           ReadTicket(r, place, t, to, admin),
           place = "patch" =>
             /\ to = "ASSIGNED" => admin # Nobody
             /\ to \in {"IN_PROGRESS", "RESOLVED"} => assignee[t] # Nobody
    PROVE  HandoffInv'
<1> USE DEF HandoffInv
<1>1. HandoffTypeOK'  BY DEF HandoffTypeOK, ReadTicket, hoRows
<1>2. OneActive'  BY DEF OneActive, ActiveTickets, ReadTicket, hoRows
<1>3. \A u \in Tickets : Handled(u)'  BY DEF Handled, ReadTicket, hoRows
<1>4. ASSUME NEW s \in Agents PROVE Backed(s)'
    BY DEF Backed, ReadTicket, hoRows, HandoffTypeOK
<1> QED BY <1>1, <1>2, <1>3, <1>4

(* A request that ends forgets what it was about; the others know what they   *)
(* knew, for no ticket loses its admin.                                       *)
LEMMA OthersStayBacked ==
    ASSUME HandoffInv, NEW r \in Agents, NEW place, HandoffReturns(r, place),
           \A t \in Tickets : assignee[t] # Nobody => assignee'[t] # Nobody
    PROVE  /\ \A s \in Agents : Backed(s)'
           /\ hoPc' \in [Agents -> {"idle", "create", "patch"}]
           /\ about' \in [Agents -> Tickets]
           /\ toStatus' \in [Agents -> TicketStatuses]
           /\ toAdmin' \in [Agents -> Admins \cup {Nobody}]
BY AnyTicketIsOne DEF HandoffInv, HandoffTypeOK, HandoffReturns, Backed, TicketStatuses

LEMMA CreateKeeps == ASSUME HandoffInv, NEW r \in Agents, CreateTicket(r) PROVE HandoffInv'
<1> USE DEF HandoffInv
<1>1. CASE ActiveTickets # {}
  <2>1. hoRows' = hoRows  BY <1>1 DEF CreateTicket, hoRows
  <2>2. \A s \in Agents : Backed(s)'  BY <2>1, OthersStayBacked DEF CreateTicket, hoRows
  <2>3. HandoffTypeOK'  BY <2>1, OthersStayBacked DEF CreateTicket, HandoffTypeOK, hoRows
  <2> QED BY <2>1, <2>2, <2>3 DEF OneActive, ActiveTickets, Handled, hoRows
<1>2. CASE ActiveTickets = {}
  <2>1. PICK t \in Tickets : ticket[t] = "none" /\ ticket' = [ticket EXCEPT ![t] = "OPEN"]
      BY <1>2 DEF CreateTicket
  <2>2. assignee' = assignee /\ resolvedAt' = resolvedAt  BY DEF CreateTicket
  <2>3. \A s \in Agents : Backed(s)'  BY <2>2, OthersStayBacked DEF CreateTicket
  <2>4. HandoffTypeOK'
      BY <2>1, <2>2, OthersStayBacked DEF CreateTicket, HandoffTypeOK, TicketStatuses
  <2>5. OneActive'
      BY <1>2, <2>1 DEF OneActive, ActiveTickets, ACTIVE_HANDOFF_STATUSES, HandoffTypeOK
  <2>6. \A u \in Tickets : Handled(u)'  BY <2>1, <2>2 DEF Handled, HandoffTypeOK
  <2> QED BY <2>3, <2>4, <2>5, <2>6
<1> QED BY <1>1, <1>2

LEMMA PatchKeeps == ASSUME HandoffInv, NEW r \in Agents, PatchTicket(r) PROVE HandoffInv'
<1> USE DEF HandoffInv
<1> DEFINE t == about[r]
           to == toStatus[r]
<1>0. t \in Tickets /\ to \in TicketStatuses /\ hoPc[r] = "patch" /\ HandoffReturns(r, "patch")
    BY DEF PatchTicket, HandoffTypeOK, HandoffReturns
<1>1. CASE hoRows' = hoRows
  <2>1. \A s \in Agents : Backed(s)'  BY <1>0, <1>1, OthersStayBacked DEF hoRows
  <2>2. HandoffTypeOK'  BY <1>0, <1>1, OthersStayBacked DEF HandoffTypeOK, hoRows
  <2> QED BY <1>1, <2>1, <2>2 DEF OneActive, ActiveTickets, Handled, hoRows
<1>2. CASE ~ (to # "none" /\ ~ Admits(t, to))
  <2>1. /\ ticket' = IF to = "none" THEN ticket ELSE [ticket EXCEPT ![t] = to]
        /\ assignee' = IF toAdmin[r] = Nobody THEN assignee ELSE [assignee EXCEPT ![t] = toAdmin[r]]
        /\ resolvedAt' = CASE to = "RESOLVED" -> [resolvedAt EXCEPT ![t] = TRUE]
                           [] to = "OPEN" -> [resolvedAt EXCEPT ![t] = FALSE]
                           [] OTHER -> resolvedAt
      BY <1>2 DEF PatchTicket
  <2>2. toAdmin[r] \in Admins \cup {Nobody}  BY DEF HandoffTypeOK
  <2>3. \A u \in Tickets : assignee[u] # Nobody => assignee'[u] # Nobody
      BY <1>0, <2>1, <2>2 DEF HandoffTypeOK
  <2>4. \A s \in Agents : Backed(s)'  BY <1>0, <2>3, OthersStayBacked
  <2>5. ticket' \in [Tickets -> TicketStatuses] /\ assignee' \in [Tickets -> Admins \cup {Nobody}]
      BY <1>0, <2>1, <2>2 DEF HandoffTypeOK
  <2>6. resolvedAt' \in [Tickets -> BOOLEAN]
      BY <1>0, <2>1 DEF HandoffTypeOK
  <2>7. HandoffTypeOK'  BY <1>0, <2>3, <2>5, <2>6, OthersStayBacked DEF HandoffTypeOK
  <2>8. OneActive'
      BY <1>0, <1>2, <2>1 DEF OneActive, ActiveTickets, Admits, HandoffTypeOK
  <2>9. ASSUME NEW u \in Tickets PROVE Handled(u)'
    <3>1. Handled(u) /\ Backed(r)  OBVIOUS
    <3>2. ticket'[u] \in {"ASSIGNED", "IN_PROGRESS", "RESOLVED"} => assignee'[u] # Nobody
        BY <1>0, <2>1, <2>2, <2>3, <3>1 DEF Handled, Backed, HandoffTypeOK
    <3>3. ticket'[u] = "RESOLVED" => resolvedAt'[u]
        BY <1>0, <2>1, <3>1 DEF Handled, HandoffTypeOK
    <3> QED BY <3>2, <3>3 DEF Handled
  <2> QED BY <2>4, <2>7, <2>8, <2>9
<1> QED BY <1>1, <1>2 DEF PatchTicket

LEMMA HandoffInvNext == HandoffInv /\ [HandoffNext]_hoVars => HandoffInv'
<1> SUFFICES ASSUME HandoffInv, [HandoffNext]_hoVars PROVE HandoffInv'  OBVIOUS
<1>1. CASE UNCHANGED hoVars
    BY <1>1 DEF HandoffInv, HandoffTypeOK, OneActive, ActiveTickets, Handled, Backed, hoVars
<1>2. ASSUME NEW r \in Agents, EnsureHandoff(r) PROVE HandoffInv'
    BY <1>2, AnyTicketIsOne, ReadKeeps DEF EnsureHandoff, TicketStatuses
<1>3. ASSUME NEW r \in Agents, CreateTicket(r) PROVE HandoffInv'  BY <1>3, CreateKeeps
<1>4. ASSUME NEW r \in Agents, PatchTicket(r) PROVE HandoffInv'  BY <1>4, PatchKeeps
<1>5. ASSUME NEW r \in Agents, HandoffCrash(r) PROVE HandoffInv'
  <2>1. hoRows' = hoRows /\ HandoffReturns(r, hoPc[r])  BY <1>5 DEF HandoffCrash
  <2>2. \A s \in Agents : Backed(s)'  BY <2>1, OthersStayBacked DEF hoRows
  <2>3. HandoffTypeOK'  BY <2>1, OthersStayBacked DEF HandoffInv, HandoffTypeOK, hoRows
  <2> QED BY <2>1, <2>2, <2>3 DEF HandoffInv, OneActive, ActiveTickets, Handled, hoRows
<1>6. ASSUME NEW r \in Agents, NEW t \in Tickets, ReopenAsUser(r, t) PROVE HandoffInv'
    BY <1>6, ReadKeeps DEF ReopenAsUser, TicketStatuses
<1>7. ASSUME NEW r \in Agents, NEW t \in Tickets, NEW admin \in Admins, Assign(r, t, admin)
      PROVE  HandoffInv'
    BY <1>7, ReadKeeps, HandoffConstants DEF Assign, TicketStatuses
<1>8. ASSUME NEW r \in Agents, NEW t \in Tickets, NEW to \in TicketStatuses,
             TransitionAsAdmin(r, t, to)
      PROVE  HandoffInv'
  <2>1. to # "ASSIGNED"  BY <1>8 DEF TransitionAsAdmin, ADMIN_TRANSITIONS
  <2>2. to \in {"IN_PROGRESS", "RESOLVED"} => ticket[t] \in {"ASSIGNED", "IN_PROGRESS"}
      BY <1>8 DEF TransitionAsAdmin, ADMIN_TRANSITIONS
  <2>3. Handled(t)  BY DEF HandoffInv
  <2> QED BY <1>8, <2>1, <2>2, <2>3, ReadKeeps DEF TransitionAsAdmin, Handled
<1> QED BY <1>1, <1>2, <1>3, <1>4, <1>5, <1>6, <1>7, <1>8 DEF HandoffNext

-----------------------------------------------------------------------------
LEMMA HandoffInvHolds == HandoffSpec => []HandoffInv
BY HandoffInvInit, HandoffInvNext, PTL DEF HandoffSpec

(* Type correctness of the tickets and the requests, for any number of them.  *)
THEOREM HandoffTypeCorrect == HandoffSpec => []HandoffTypeOK
<1>1. HandoffInv => HandoffTypeOK  BY DEF HandoffInv
<1> QED BY <1>1, HandoffInvHolds, PTL

(* However many requests act on statuses they read long ago, a ticket worked  *)
(* on or resolved is some admin's, a resolved one says when, and one ticket   *)
(* of the conversation is active at most (handoff-service.ts:481).            *)
THEOREM HandoffsAreHandled == HandoffSpec => []TicketsAreHandled
<1>1. HandoffInv => TicketsAreHandled
  <2> SUFFICES ASSUME HandoffInv PROVE TicketsAreHandled  OBVIOUS
  <2>1. Cardinality(ActiveTickets) <= 1
    <3>1. CASE ActiveTickets = {}  BY <3>1, FS_EmptySet
    <3>2. CASE ActiveTickets # {}
      <4>1. PICK t \in ActiveTickets : TRUE  BY <3>2
      <4>2. t \in Tickets /\ ActiveTickets \subseteq Tickets  BY <4>1 DEF ActiveTickets
      <4>3. ActiveTickets = {t}  BY <4>1, <4>2 DEF HandoffInv, OneActive
      <4>4. Cardinality({t}) = 1  BY FS_Singleton
      <4> QED BY <4>3, <4>4
    <3> QED BY <3>1, <3>2
  <2> QED BY <2>1 DEF HandoffInv, Handled, TicketsAreHandled
<1> QED BY <1>1, HandoffInvHolds, PTL

-----------------------------------------------------------------------------
(***************************************************************************)
(* The inductive invariant of the triggers.  Whoever is about to create a  *)
(* manual run holds the lock and saw none; whoever is about to create a    *)
(* scheduled one saw none either, on this very day, so a live one it does  *)
(* not know of is today's and the unique index turns the second away.      *)
(***************************************************************************)
LiveManual == {n \in Live : runs[n].scheduledFor = 0}
LiveScheduled == {n \in Live : runs[n].scheduledFor # 0}

Locked(r) ==
    trigPc[r] = "manual" =>
        LiveManual = {} /\ \A o \in Requests : trigPc[o] = "manual" => o = r

Today(r) == trigPc[r] = "create" => \A n \in LiveScheduled : runs[n].scheduledFor = day

OneOfEach ==
    /\ \A m, n \in LiveManual : m = n
    /\ \A m, n \in LiveScheduled : m = n

TriggerInv ==
    /\ TriggerTypeOK /\ OneOfEach
    /\ \A r \in Requests : Locked(r) /\ Today(r)

LEMMA TriggerInvInit == TriggerInit => TriggerInv
<1> SUFFICES ASSUME TriggerInit PROVE TriggerInv  OBVIOUS
<1>1. runs \in Seq(TriggerRuns) /\ Len(runs) = 0 /\ Live = {}  BY DEF TriggerInit, Live
<1>2. TriggerTypeOK
    BY <1>1, TriggerConstants DEF TriggerInit, TriggerTypeOK, AutomationStatuses, TriggerTypes, TriggerPlaces
<1>3. LiveManual = {} /\ LiveScheduled = {}  BY <1>1 DEF LiveManual, LiveScheduled
<1> QED BY <1>2, <1>3 DEF TriggerInit, TriggerInv, OneOfEach, Locked, Today

(* A step that creates no run, on this day, and takes the lock if it does when *)
(* nobody has it and nothing is live: what it must leave alone.               *)
LEMMA NoNewRunKeeps ==
    ASSUME TriggerInv, TriggerTypeOK', day' = day,
           LiveManual' \subseteq LiveManual, LiveScheduled' \subseteq LiveScheduled,
           \A n \in LiveScheduled' : runs'[n].scheduledFor = runs[n].scheduledFor,
           NEW r \in Requests, \A o \in Requests \ {r} : trigPc'[o] = trigPc[o],
           trigPc'[r] = "manual" => Live = {} /\ \A o \in Requests : trigPc[o] # "manual",
           trigPc'[r] = "create" => Live = {}
    PROVE  TriggerInv'
<1>1. OneOfEach'  BY DEF TriggerInv, OneOfEach
<1>2. ASSUME NEW o \in Requests PROVE Locked(o)'
    BY DEF TriggerInv, Locked, LiveManual
<1>3. ASSUME NEW o \in Requests PROVE Today(o)'
    BY DEF TriggerInv, Today, LiveScheduled
<1> QED BY <1>1, <1>2, <1>3 DEF TriggerInv

LEMMA DoneFrame ==
    ASSUME TriggerTypeOK, NEW r \in Requests, NEW from, Done(r, from)
    PROVE  /\ trigPc' \in [Requests -> TriggerPlaces]
           /\ target' \in [Requests -> AutomationStatuses]
           /\ dueFor' \in [Requests -> TriggerTypes]
           /\ trigPc[r] = from /\ trigPc'[r] = "idle"
           /\ \A o \in Requests \ {r} : trigPc'[o] = trigPc[o]
BY DEF TriggerTypeOK, Done, TrigGoto, TriggerPlaces, AutomationStatuses, TriggerTypes

(* The steps that touch no run. *)
LEMMA QuietTriggerKeeps ==
    ASSUME TriggerInv, NEW r \in Requests,
           \/ \E to \in AutomationStatuses : Transition(r, to)
           \/ PatchStatus(r) \/ Update(r) \/ AddVersion(r) \/ RunNow(r) \/ Lock(r) \/ SlotPass(r)
           \/ DueCheck(r) \/ HasActiveRun(r) \/ ReadAutomation(r) \/ Bookkeeping(r) \/ TriggerCrash(r)
    PROVE  TriggerInv'
<1> USE DEF TriggerInv
<1>1. runs' = runs /\ day' = day
    BY DEF Transition, PatchStatus, Update, AddVersion, RunNow, Lock, SlotPass, DueCheck, HasActiveRun,
       ReadAutomation, Bookkeeping, TriggerCrash, trigRows
<1>2. \/ \E from : Done(r, from)
      \/ \E from, to \in TriggerPlaces :
           /\ TrigGoto(r, from, to)
           /\ to = "manual" => Live = {} /\ \A o \in Requests : trigPc[o] # "manual"
           /\ to = "create" => Live = {}
    BY DEF Transition, PatchStatus, Update, AddVersion, RunNow, Lock, SlotPass, DueCheck, HasActiveRun,
       ReadAutomation, Bookkeeping, TriggerCrash, TriggerPlaces
<1>3. /\ trigPc' \in [Requests -> TriggerPlaces]
      /\ \A o \in Requests \ {r} : trigPc'[o] = trigPc[o]
      /\ trigPc'[r] = "manual" => Live = {} /\ \A o \in Requests : trigPc[o] # "manual"
      /\ trigPc'[r] = "create" => Live = {}
    BY <1>2, DoneFrame DEF TriggerTypeOK, TrigGoto
<1>4. target' \in [Requests -> AutomationStatuses] /\ dueFor' \in [Requests -> TriggerTypes]
    BY DoneFrame DEF TriggerTypeOK, Transition, PatchStatus, Update, AddVersion, RunNow, Lock, SlotPass, DueCheck,
       HasActiveRun, ReadAutomation, Bookkeeping, TriggerCrash
<1>5. automation' \in AutomationStatuses /\ triggerType' \in TriggerTypes
    BY DEF TriggerTypeOK, Transition, PatchStatus, Update, AddVersion, RunNow, Lock, SlotPass, DueCheck,
       HasActiveRun, ReadAutomation, Bookkeeping, TriggerCrash, trigRows, AutomationStatuses
<1>6. TriggerTypeOK'  BY <1>1, <1>3, <1>4, <1>5 DEF TriggerTypeOK
<1>7. LiveManual' = LiveManual /\ LiveScheduled' = LiveScheduled
    BY <1>1 DEF LiveManual, LiveScheduled, Live
<1> QED BY <1>1, <1>3, <1>6, <1>7, NoNewRunKeeps

(* A run that ends is live no more; the others are what they were. *)
LEMMA EndFacts ==
    ASSUME TriggerTypeOK, NEW n \in Live, End(n)
    PROVE  /\ runs' \in Seq(TriggerRuns) /\ Len(runs') = Len(runs)
           /\ LiveManual' \subseteq LiveManual /\ LiveScheduled' \subseteq LiveScheduled
           /\ \A m \in DOMAIN runs' : runs'[m].scheduledFor = runs[m].scheduledFor
<1>1. n \in 1 .. Len(runs) /\ runs \in Seq(TriggerRuns)  BY DEF Live, TriggerTypeOK
<1> DEFINE ended == Ended(runs[n])
<1>r. runs[n] \in TriggerRuns  BY <1>1
<1>2. runs' = [runs EXCEPT ![n] = ended]  BY DEF End
<1>3. /\ ended \in TriggerRuns /\ ~ ended.live
      /\ ended.scheduledFor = runs[n].scheduledFor
    BY <1>r DEF TriggerRuns, Ended
<1> HIDE DEF ended
<1>4. runs' \in Seq(TriggerRuns) /\ Len(runs') = Len(runs)  BY <1>1, <1>2, <1>3
<1>5. \A m \in 1 .. Len(runs) :
         /\ runs'[m].scheduledFor = runs[m].scheduledFor
         /\ runs'[m].live => runs[m].live
    BY <1>1, <1>2, <1>3
<1> QED BY <1>1, <1>4, <1>5 DEF LiveManual, LiveScheduled, Live

(* Finalization and cancellation: a run ends and no request creates one. *)
LEMMA EndKeeps ==
    ASSUME TriggerInv, NEW n \in DOMAIN runs,
           (\E r \in Requests : Finalize(r, n)) \/ CancelQueued(n)
    PROVE  TriggerInv'
<1> USE DEF TriggerInv
<1>1. n \in Live /\ End(n) /\ UNCHANGED <<automation, triggerType, day, target, dueFor>>
    BY DEF Finalize, CancelQueued
<1>2. /\ runs' \in Seq(TriggerRuns) /\ Len(runs') = Len(runs)
      /\ LiveManual' \subseteq LiveManual /\ LiveScheduled' \subseteq LiveScheduled
      /\ \A m \in DOMAIN runs' : runs'[m].scheduledFor = runs[m].scheduledFor
    BY <1>1, EndFacts
<1>3. \A m \in LiveScheduled' : runs'[m].scheduledFor = runs[m].scheduledFor
    BY <1>2 DEF LiveScheduled, Live
<1>4. CASE trigPc' = trigPc
  <2>1. TriggerTypeOK'  BY <1>1, <1>2, <1>4 DEF TriggerTypeOK
  <2>2. OneOfEach'  BY <1>2 DEF OneOfEach
  <2>3. ASSUME NEW o \in Requests PROVE Locked(o)' /\ Today(o)'
      BY <1>1, <1>2, <1>3, <1>4 DEF Locked, Today
  <2> QED BY <2>1, <2>2, <2>3
<1>5. ASSUME NEW r \in Requests, Finalize(r, n) PROVE TriggerInv'
  <2>1. /\ trigPc' \in [Requests -> TriggerPlaces] /\ trigPc'[r] = "read"
        /\ \A o \in Requests \ {r} : trigPc'[o] = trigPc[o]
      BY <1>5 DEF Finalize, TrigGoto, TriggerTypeOK, TriggerPlaces
  <2>2. TriggerTypeOK'  BY <1>1, <1>2, <2>1 DEF TriggerTypeOK
  <2> QED BY <1>1, <1>2, <1>3, <2>1, <2>2, NoNewRunKeeps
<1> QED BY <1>4, <1>5 DEF CancelQueued

(* A new run, live, at the end of the sequence. *)
LEMMA CreateRunFacts ==
    ASSUME TriggerTypeOK, NEW type \in TriggerTypes, NEW slot \in 0 .. MaxDays, CreateRun(type, slot)
    PROVE  /\ runs' \in Seq(TriggerRuns) /\ Len(runs') <= MaxRuns
           /\ Live' = Live \cup {Len(runs) + 1}
           /\ runs'[Len(runs) + 1].scheduledFor = slot
           /\ \A m \in Live : m # Len(runs) + 1 /\ runs'[m].scheduledFor = runs[m].scheduledFor
<1> DEFINE new == [trigger |-> type, scheduledFor |-> slot, live |-> TRUE]
<1>1. new \in TriggerRuns /\ runs \in Seq(TriggerRuns)  BY DEF TriggerRuns, TriggerTypeOK
<1>2. runs' = Append(runs, new) /\ Len(runs) < MaxRuns  BY DEF CreateRun
<1>n. new.scheduledFor = slot /\ new.live  OBVIOUS
<1> HIDE DEF new
<1>3. /\ runs' \in Seq(TriggerRuns) /\ Len(runs') = Len(runs) + 1
      /\ runs'[Len(runs) + 1] = new
      /\ \A m \in 1 .. Len(runs) : runs'[m] = runs[m]
    BY <1>1, <1>2
<1>4. Len(runs) \in Nat /\ DOMAIN runs = 1 .. Len(runs) /\ DOMAIN runs' = 1 .. (Len(runs) + 1)
    BY <1>1, <1>3
<1>5. Len(runs') <= MaxRuns  BY <1>2, <1>3, <1>4, TriggerConstants
<1>6. Live' = Live \cup {Len(runs) + 1}  BY <1>n, <1>3, <1>4 DEF Live
<1> QED BY <1>n, <1>3, <1>4, <1>5, <1>6 DEF Live

LEMMA CreateManualKeeps ==
    ASSUME TriggerInv, NEW r \in Requests, CreateManualRun(r) PROVE TriggerInv'
<1> USE DEF TriggerInv
<1> DEFINE k == Len(runs) + 1
<1>1. CreateRun("manual", 0) /\ Done(r, "manual") /\ UNCHANGED <<automation, triggerType, day>>
    BY DEF CreateManualRun
<1>2. /\ runs' \in Seq(TriggerRuns) /\ Len(runs') <= MaxRuns
      /\ Live' = Live \cup {k} /\ runs'[k].scheduledFor = 0
      /\ \A m \in Live : m # k /\ runs'[m].scheduledFor = runs[m].scheduledFor
    BY <1>1, TriggerConstants, CreateRunFacts DEF TriggerTypes
<1> HIDE DEF k
<1>3. /\ trigPc' \in [Requests -> TriggerPlaces]
      /\ target' \in [Requests -> AutomationStatuses]
      /\ dueFor' \in [Requests -> TriggerTypes]
      /\ trigPc[r] = "manual" /\ trigPc'[r] = "idle"
      /\ \A o \in Requests \ {r} : trigPc'[o] = trigPc[o]
    BY <1>1, DoneFrame
<1>4. TriggerTypeOK'  BY <1>1, <1>2, <1>3 DEF TriggerTypeOK
<1>5. LiveManual = {} /\ \A o \in Requests : trigPc[o] = "manual" => o = r  BY <1>3 DEF Locked
<1>6. LiveManual' = {k}
    BY <1>2, <1>5 DEF LiveManual
<1>7. LiveScheduled' = LiveScheduled /\ \A m \in LiveScheduled : runs'[m].scheduledFor = runs[m].scheduledFor
    BY <1>2 DEF LiveScheduled
<1>8. OneOfEach'  BY <1>6, <1>7 DEF OneOfEach
<1>9. ASSUME NEW o \in Requests PROVE Locked(o)'  BY <1>3, <1>5 DEF Locked
<1>10. ASSUME NEW o \in Requests PROVE Today(o)'  BY <1>1, <1>3, <1>7 DEF Today
<1> QED BY <1>4, <1>8, <1>9, <1>10

LEMMA CreateScheduledKeeps ==
    ASSUME TriggerInv, NEW r \in Requests, CreateScheduledRunIfAbsent(r) PROVE TriggerInv'
<1> USE DEF TriggerInv
<1> DEFINE k == Len(runs) + 1
<1>1. Done(r, "create") /\ UNCHANGED <<automation, triggerType, day>>  BY DEF CreateScheduledRunIfAbsent
<1>2. /\ trigPc' \in [Requests -> TriggerPlaces]
      /\ target' \in [Requests -> AutomationStatuses]
      /\ dueFor' \in [Requests -> TriggerTypes]
      /\ trigPc[r] = "create" /\ trigPc'[r] = "idle"
      /\ \A o \in Requests \ {r} : trigPc'[o] = trigPc[o]
    BY <1>1, DoneFrame
<1>3. CASE \E n \in Scheduled : runs[n].scheduledFor = day
  <2>1. runs' = runs  BY <1>3 DEF CreateScheduledRunIfAbsent
  <2>2. TriggerTypeOK'  BY <1>1, <1>2, <2>1 DEF TriggerTypeOK
  <2>3. LiveManual' = LiveManual /\ LiveScheduled' = LiveScheduled
      BY <2>1 DEF LiveManual, LiveScheduled, Live
  <2> QED BY <1>1, <1>2, <2>1, <2>2, <2>3, NoNewRunKeeps
<1>4. CASE ~ \E n \in Scheduled : runs[n].scheduledFor = day
  <2>1. CreateRun(dueFor[r], day)  BY <1>4 DEF CreateScheduledRunIfAbsent
  <2>2. dueFor[r] \in TriggerTypes /\ day \in 0 .. MaxDays /\ day # 0
      BY TriggerConstants DEF TriggerTypeOK
  <2>3. /\ runs' \in Seq(TriggerRuns) /\ Len(runs') <= MaxRuns
        /\ Live' = Live \cup {k} /\ runs'[k].scheduledFor = day
        /\ \A m \in Live : m # k /\ runs'[m].scheduledFor = runs[m].scheduledFor
      BY <2>1, <2>2, CreateRunFacts
  <2> HIDE DEF k
  <2>4. TriggerTypeOK'  BY <1>1, <1>2, <2>3 DEF TriggerTypeOK
  <2>5. LiveScheduled = {}
      BY <1>2, <1>4, <2>2 DEF Today, LiveScheduled, Live, Scheduled, Manual
  <2>6. LiveScheduled' = {k}  BY <2>2, <2>3, <2>5 DEF LiveScheduled
  <2>7. LiveManual' = LiveManual  BY <2>2, <2>3 DEF LiveManual
  <2>8. OneOfEach'  BY <2>6, <2>7 DEF OneOfEach
  <2>9. ASSUME NEW o \in Requests PROVE Locked(o)'  BY <1>2, <2>7 DEF Locked
  <2>10. ASSUME NEW o \in Requests PROVE Today(o)'  BY <1>1, <2>3, <2>6 DEF Today
  <2> QED BY <2>4, <2>8, <2>9, <2>10
<1> QED BY <1>3, <1>4

LEMMA NextDayKeeps == ASSUME TriggerInv, NextDay PROVE TriggerInv'
<1> USE DEF TriggerInv
<1>1. UNCHANGED <<automation, triggerType, runs, trigPc, target, dueFor>> /\ day' \in 1 .. MaxDays
    BY TriggerConstants DEF NextDay, trigRows, TriggerTypeOK
<1>2. TriggerTypeOK'  BY <1>1 DEF TriggerTypeOK
<1>3. LiveManual' = LiveManual /\ LiveScheduled' = LiveScheduled
    BY <1>1 DEF LiveManual, LiveScheduled, Live
<1>4. ASSUME NEW o \in Requests PROVE Locked(o)' /\ Today(o)'
    BY <1>1, <1>3 DEF Locked, Today, NextDay, Slots
<1> QED BY <1>1, <1>2, <1>3, <1>4 DEF OneOfEach

LEMMA TriggerInvNext == TriggerInv /\ [TriggerNext]_trigVars => TriggerInv'
<1> SUFFICES ASSUME TriggerInv, [TriggerNext]_trigVars PROVE TriggerInv'  OBVIOUS
<1>1. CASE UNCHANGED trigVars
    BY <1>1 DEF TriggerInv, TriggerTypeOK, OneOfEach, LiveManual, LiveScheduled, Live, Locked, Today, trigVars
<1>2. ASSUME NEW r \in Requests,
             \/ \E to \in AutomationStatuses : Transition(r, to)
             \/ PatchStatus(r) \/ Update(r) \/ AddVersion(r) \/ RunNow(r) \/ Lock(r) \/ SlotPass(r)
             \/ DueCheck(r) \/ HasActiveRun(r) \/ ReadAutomation(r) \/ Bookkeeping(r) \/ TriggerCrash(r)
      PROVE  TriggerInv'
    BY <1>2, QuietTriggerKeeps
<1>3. ASSUME NEW r \in Requests, CreateManualRun(r) PROVE TriggerInv'  BY <1>3, CreateManualKeeps
<1>4. ASSUME NEW r \in Requests, CreateScheduledRunIfAbsent(r) PROVE TriggerInv'
    BY <1>4, CreateScheduledKeeps
<1>5. ASSUME NEW n \in DOMAIN runs, (\E r \in Requests : Finalize(r, n)) \/ CancelQueued(n)
      PROVE  TriggerInv'
    BY <1>5, EndKeeps
<1>6. CASE NextDay  BY <1>6, NextDayKeeps
<1> QED BY <1>1, <1>2, <1>3, <1>4, <1>5, <1>6 DEF TriggerNext

LEMMA TriggerInvHolds == TriggerSpec => []TriggerInv
BY TriggerInvInit, TriggerInvNext, PTL DEF TriggerSpec

(* Type correctness of the automation, its runs and the requests.             *)
THEOREM TriggerTypeCorrect == TriggerSpec => []TriggerTypeOK
<1>1. TriggerInv => TriggerTypeOK  BY DEF TriggerInv
<1> QED BY <1>1, TriggerInvHolds, PTL

LEMMA AtMostOne ==
    ASSUME NEW S, \A m, n \in S : m = n
    PROVE  Cardinality(S) <= 1
<1>1. CASE S = {}  BY <1>1, FS_EmptySet
<1>2. CASE S # {}
  <2>1. PICK m \in S : TRUE  BY <1>2
  <2>2. S = {m}  BY <2>1
  <2>3. Cardinality({m}) = 1  BY FS_Singleton
  <2> QED BY <2>2, <2>3
<1> QED BY <1>1, <1>2

(* run-dispatch.ts:206, for any number of requests, passes and days: the lock *)
(* and the unique index leave one manual and one scheduled run in progress.   *)
THEOREM OneRunPerTriggerHolds == TriggerSpec => []OneRunPerTrigger
<1>1. TriggerInv => OneRunPerTrigger
  <2> SUFFICES ASSUME TriggerInv PROVE OneRunPerTrigger  OBVIOUS
  <2>1. Live \cap Manual = LiveManual /\ Live \cap Scheduled = LiveScheduled
      BY DEF Live, Manual, Scheduled, LiveManual, LiveScheduled
  <2>2. (\A m, n \in LiveManual : m = n) /\ (\A m, n \in LiveScheduled : m = n)
      BY DEF TriggerInv, OneOfEach
  <2> QED BY <2>1, <2>2, AtMostOne DEF OneRunPerTrigger
<1> QED BY <1>1, TriggerInvHolds, PTL

-----------------------------------------------------------------------------
(***************************************************************************)
(* The inductive invariant of the outbox: a pass has sent the post no more *)
(* often than the row has counted, but for the sendings not yet, or never, *)
(* marked; the count a pass has read is old, so it is bounded by that one  *)
(* where it decides, and by the row's again once it has marked.            *)
(***************************************************************************)
PassResting(p) ==
    /\ tries[p] <= attempts + deaths /\ tries[p] <= MAX_ATTEMPTS + deaths
    /\ post = "APPROVED" => tries[p] < MAX_ATTEMPTS + deaths

PassSending(p) ==
    /\ tries[p] <= attempts + deaths /\ tries[p] <= attemptsRead[p] + deaths
    /\ tries[p] < MAX_ATTEMPTS + deaths

PassAnswered(p) ==
    /\ tries[p] <= attempts + 1 + deaths /\ tries[p] <= attemptsRead[p] + 1 + deaths
    /\ tries[p] <= MAX_ATTEMPTS + deaths

PassKnows(p) ==
    /\ soPc[p] \in {"idle", "create", "list"} => PassResting(p)
    /\ soPc[p] = "send" => PassSending(p)
    /\ soPc[p] \in {"sent", "failed"} => PassAnswered(p)
    /\ post = "none" => tries[p] = 0 /\ soPc[p] \in {"idle", "create", "list"}

SocialInv == SocialTypeOK /\ \A p \in Passes : PassKnows(p)

LEMMA SocialInvInit == SocialInit => SocialInv
<1> SUFFICES ASSUME SocialInit PROVE SocialInv
    OBVIOUS
<1>1. SocialTypeOK
    <2>1. 0 \in 0 .. MaxDecisions  BY SocialConstants
    <2>2. taken \in BOOLEAN /\ again \in BOOLEAN  BY DEF SocialInit
    <2> QED BY <2>1, <2>2 DEF SocialInit, SocialTypeOK, PostStatuses
<1>2. ASSUME NEW p \in Passes PROVE PassKnows(p)
    <2>1. tries[p] = 0 /\ soPc[p] = "idle" /\ attempts = 0 /\ deaths = 0 /\ post = "none"
        BY DEF SocialInit
    <2> QED BY <2>1, SocialConstants DEF PassKnows, PassResting
<1> QED BY <1>1, <1>2 DEF SocialInv

LEMMA SocialInvNext == SocialInv /\ [SocialNext]_socialVars => SocialInv'
<1> SUFFICES ASSUME SocialInv, [SocialNext]_socialVars PROVE SocialInv'
    OBVIOUS
<1> USE SocialConstants DEF SocialInv
<1> DEFINE Knows == \A q \in Passes : PassKnows(q)'
<1>1. ASSUME NEW p \in Passes, AlreadyPrepared(p) PROVE SocialInv'
    <2>1. SocialTypeOK'  BY <1>1 DEF AlreadyPrepared, PassGoto, SocialTypeOK, postRow, socialPast
    <2>2. Knows
        BY <1>1 DEF AlreadyPrepared, PassGoto, SocialTypeOK, postRow, socialPast, PassKnows, PassResting, PassSending, PassAnswered
    <2> QED BY <2>1, <2>2
<1>2. ASSUME NEW p \in Passes, CreateIfNew(p) PROVE SocialInv'
    <2>1. SocialTypeOK'  BY <1>2 DEF CreateIfNew, PassGoto, SocialTypeOK, socialPast, PostStatuses
    <2>2. Knows
        BY <1>2 DEF CreateIfNew, PassGoto, SocialTypeOK, socialPast, PassKnows, PassResting, PassSending, PassAnswered
    <2> QED BY <2>1, <2>2
<1>3. ASSUME NEW p \in Passes, ListApproved(p) PROVE SocialInv'
    <2>1. SocialTypeOK'  BY <1>3 DEF ListApproved, PassEnds, SocialTypeOK, postRow, socialPast
    <2>2. Knows
        BY <1>3 DEF ListApproved, PassEnds, SocialTypeOK, postRow, socialPast, PassKnows, PassResting, PassSending, PassAnswered
    <2> QED BY <2>1, <2>2
<1>4. ASSUME NEW p \in Passes, DispatchPost(p) PROVE SocialInv'
    <2>1. /\ soPc[p] = "send" /\ soPc' \in [Passes -> {"idle", "create", "list", "send", "sent", "failed"}]
          /\ soPc'[p] \in {"sent", "failed"}
          /\ \A q \in Passes : q # p => soPc'[q] = soPc[q]
        BY <1>4 DEF DispatchPost, PassGoto, SocialTypeOK
    <2>2. taken' \in BOOLEAN /\ again' \in BOOLEAN
        BY <1>4, Zenon DEF DispatchPost, SocialTypeOK
    <2>3. tries' = [tries EXCEPT ![p] = @ + 1] /\ UNCHANGED <<post, attempts, decision, decisions, attemptsRead, deaths>>
        BY <1>4 DEF DispatchPost, postRow
    <2>4. SocialTypeOK'  BY <2>1, <2>2, <2>3 DEF SocialTypeOK
    <2>5. Knows
        BY <2>1, <2>3 DEF SocialTypeOK, PassKnows, PassResting, PassSending, PassAnswered
    <2> QED BY <2>4, <2>5
<1>5. ASSUME NEW p \in Passes, MarkSent(p) PROVE SocialInv'
    <2>1. SocialTypeOK'  BY <1>5 DEF MarkSent, PassEnds, SocialTypeOK, socialPast, PostStatuses
    <2>2. Knows
        BY <1>5 DEF MarkSent, PassEnds, SocialTypeOK, socialPast, PassKnows, PassResting, PassSending, PassAnswered
    <2> QED BY <2>1, <2>2
<1>6. ASSUME NEW p \in Passes, MarkAttempt(p) PROVE SocialInv'
    <2>1. SocialTypeOK'  BY <1>6 DEF MarkAttempt, PassEnds, SocialTypeOK, socialPast, PostStatuses
    <2>2. Knows
        BY <1>6 DEF MarkAttempt, Final, PassEnds, SocialTypeOK, socialPast, PassKnows, PassResting, PassSending, PassAnswered
    <2> QED BY <2>1, <2>2
<1>7. ASSUME NEW p \in Passes, PassDies(p) PROVE SocialInv'
    <2>1. SocialTypeOK'  BY <1>7 DEF PassDies, PassEnds, SocialTypeOK, postRow
    <2>2. Knows
        BY <1>7 DEF PassDies, PassEnds, SocialTypeOK, postRow, PassKnows, PassResting, PassSending, PassAnswered
    <2> QED BY <2>1, <2>2
<1>8. ASSUME NEW what \in {"approve", "skip", "retry"}, Decide(what) PROVE SocialInv'
    <2>1. SocialTypeOK'  BY <1>8 DEF Decide, SocialTypeOK, postRow, socialPast
    <2>2. Knows
        BY <1>8 DEF Decide, postRow, socialPast, PassKnows, PassResting, PassSending, PassAnswered
    <2> QED BY <2>1, <2>2
<1>9. ASSUME WriteDecision PROVE SocialInv'
    <2>1. SocialTypeOK'  BY <1>9 DEF WriteDecision, SocialTypeOK, PostStatuses
    <2>2. Knows
        BY <1>9 DEF WriteDecision, SocialTypeOK, PassKnows, PassResting, PassSending, PassAnswered
    <2> QED BY <2>1, <2>2
<1>10. CASE UNCHANGED socialVars
    BY <1>10 DEF socialVars, SocialTypeOK, PassKnows, PassResting, PassSending, PassAnswered
<1> QED BY <1>1, <1>2, <1>3, <1>4, <1>5, <1>6, <1>7, <1>8, <1>9, <1>10 DEF SocialNext

(* Type correctness of the post and the passes. *)
THEOREM SocialTypeCorrect == SocialSpec => []SocialTypeOK
<1>1. SocialInv => SocialTypeOK  BY DEF SocialInv
<1> QED BY SocialInvInit, SocialInvNext, <1>1, PTL DEF SocialSpec

(* runner.ts:18, MAX_ATTEMPTS: for any number of overlapping passes that read *)
(* old counts, and an admin who resets them, no pass sends a post more often  *)
(* between two decisions, but for those that died before they could count.    *)
THEOREM TriesAreBounded == SocialSpec => []TriesBounded
<1>1. SocialInv => TriesBounded
    BY SocialConstants DEF SocialInv, SocialTypeOK, PassKnows, PassResting, PassSending, PassAnswered, TriesBounded
<1> QED BY SocialInvInit, SocialInvNext, <1>1, PTL DEF SocialSpec

-----------------------------------------------------------------------------
(***************************************************************************)
(* The inductive invariant of a limiter: a request that holds a user's     *)
(* lock, or the global one, holds it alone, and what it counted is still   *)
(* the count when its row is committed, for only the holder adds such rows.*)
(***************************************************************************)
UserLocked   == {"count", "global lock", "count all", "create", "commit"}
GlobalLocked == {"count all", "create", "commit"}

RowsSince(log, time)      == {k \in 1 .. Len(log) : log[k].at >= time}
RowsOfSince(log, u, time) == {k \in RowsSince(log, time) : log[k].user = u}

UserCounted(v) ==
    rlPc[v] \in UserLocked \ {"count"} =>
        Cardinality(RowsOfSince(requestLog, visitor[v], came[v] - Window)) < USER_BURST_LIMIT
AllCounted(v) ==
    limiter = "ai" /\ rlPc[v] \in {"create", "commit"} =>
        Cardinality(RowsSince(requestLog, came[v] - Window)) < GLOBAL_GUARD_LIMIT

OneInUserLock ==
    \A v, w \in Visits : rlPc[v] \in UserLocked /\ rlPc[w] \in UserLocked /\ visitor[v] = visitor[w] => v = w
OneInGlobalLock ==
    limiter = "ai" => \A v, w \in Visits : rlPc[v] \in GlobalLocked /\ rlPc[w] \in GlobalLocked => v = w

RateInv ==
    /\ RateTypeOK /\ BurstsAreHeld
    /\ OneInUserLock /\ OneInGlobalLock
    /\ \A v \in Visits : came[v] <= wallClock /\ UserCounted(v) /\ AllCounted(v)

RequestRows == [user : Visitors, at : Nat]

VisitPcs == {"idle", "user lock", "count", "global lock", "count all", "create", "commit"}

(* The type invariant in parts. *)
LEMMA RateTypedInParts ==
    RateTypeOK <=> /\ limiter \in {"ai", "checkout"} /\ wallClock \in Nat /\ requestLog \in Seq(RequestRows)
                   /\ rlPc \in [Visits -> VisitPcs] /\ visitor \in [Visits -> Visitors] /\ came \in [Visits -> Nat]
                   /\ attempt \in [Visits -> Nat] /\ createdAt \in [Visits -> Nat]
BY DEF RateTypeOK, RequestRows, VisitPcs

LEMMA RateTypedNext ==
    (limiter \in {"ai", "checkout"})' /\ (wallClock \in Nat)' /\ (requestLog \in Seq(RequestRows))'
    /\ (rlPc \in [Visits -> VisitPcs])' /\ (visitor \in [Visits -> Visitors])' /\ (came \in [Visits -> Nat])'
    /\ (attempt \in [Visits -> Nat])' /\ (createdAt \in [Visits -> Nat])' => RateTypeOK'
BY RateTypedInParts, PTL

LEMMA RowsAreFinite ==
    ASSUME NEW log \in Seq(RequestRows), NEW time \in Int
    PROVE  /\ IsFiniteSet(RowsSince(log, time)) /\ Cardinality(RowsSince(log, time)) \in Nat
           /\ \A u : /\ IsFiniteSet(RowsOfSince(log, u, time))
                     /\ Cardinality(RowsOfSince(log, u, time)) \in Nat
<1>1. Len(log) \in Nat  OBVIOUS
<1>2. IsFiniteSet(1 .. Len(log))  BY <1>1, FS_Interval
<1>3. IsFiniteSet(RowsSince(log, time))  BY <1>2, FS_Subset DEF RowsSince
<1>4. \A u : IsFiniteSet(RowsOfSince(log, u, time))  BY <1>3, FS_Subset DEF RowsOfSince
<1> QED BY <1>3, <1>4, FS_CardinalityType

(* A later window has fewer rows. *)
LEMMA LaterHasFewer ==
    ASSUME NEW log \in Seq(RequestRows), NEW time \in Int, NEW later \in Int, time <= later
    PROVE  /\ Cardinality(RowsSince(log, later)) <= Cardinality(RowsSince(log, time))
           /\ \A u : Cardinality(RowsOfSince(log, u, later)) <= Cardinality(RowsOfSince(log, u, time))
<1>1. RowsSince(log, later) \subseteq RowsSince(log, time)
    <2>1. \A k \in 1 .. Len(log) : log[k] \in RequestRows  OBVIOUS
    <2>2. \A row \in RequestRows : row.at \in Nat  BY DEF RequestRows
    <2>3. \A k \in 1 .. Len(log) : log[k].at \in Nat  BY <2>1, <2>2
    <2> QED BY <2>3 DEF RowsSince
<1>2. \A u : RowsOfSince(log, u, later) \subseteq RowsOfSince(log, u, time)  BY <1>1 DEF RowsOfSince
<1> QED BY <1>1, <1>2, RowsAreFinite, FS_Subset

(* One more row is one more row, and none of another user. *)
LEMMA RowIsAdded ==
    ASSUME NEW log \in Seq(RequestRows), NEW row \in RequestRows, NEW time \in Int
    PROVE  /\ Cardinality(RowsSince(Append(log, row), time)) <= Cardinality(RowsSince(log, time)) + 1
           /\ \A u : /\ Cardinality(RowsOfSince(Append(log, row), u, time)) <= Cardinality(RowsOfSince(log, u, time)) + 1
                     /\ row.user # u => RowsOfSince(Append(log, row), u, time) = RowsOfSince(log, u, time)
<1> DEFINE n == Len(log)
           more == Append(log, row)
<1>1. /\ n \in Nat /\ more \in Seq(RequestRows) /\ Len(more) = n + 1 /\ more[n + 1] = row
      /\ \A k \in 1 .. n : more[k] = log[k]
    BY AppendProperties
<1> HIDE DEF more
<1>2. RowsSince(more, time) \subseteq RowsSince(log, time) \cup {n + 1}
    BY <1>1 DEF RowsSince
<1>3. \A u : RowsOfSince(more, u, time) \subseteq RowsOfSince(log, u, time) \cup {n + 1}
    BY <1>1, <1>2 DEF RowsOfSince, RowsSince
<1>4. \A u : row.user # u => RowsOfSince(more, u, time) = RowsOfSince(log, u, time)
    <2>1. 1 .. Len(more) = (1 .. n) \cup {n + 1} /\ 1 .. Len(log) = 1 .. n  BY <1>1
    <2> HIDE DEF n
    <2>2. ASSUME NEW u, row.user # u, NEW k
          PROVE  k \in RowsOfSince(more, u, time) <=> k \in RowsOfSince(log, u, time)
        <3>1. CASE k = n + 1
            <4>1. k \notin RowsOfSince(more, u, time)  BY <1>1, <2>2, <3>1 DEF RowsOfSince
            <4>2. k \notin 1 .. n  BY <1>1, <3>1
            <4> QED BY <2>1, <4>1, <4>2 DEF RowsOfSince, RowsSince
        <3>2. CASE k # n + 1
            <4>1. k \in 1 .. Len(more) <=> k \in 1 .. Len(log)  BY <2>1, <3>2
            <4>2. k \in 1 .. Len(log) => more[k] = log[k]  BY <1>1, <2>1
            <4> QED BY <4>1, <4>2 DEF RowsOfSince, RowsSince
        <3> QED BY <3>1, <3>2
    <2>3. ASSUME NEW u, row.user # u PROVE RowsOfSince(more, u, time) = RowsOfSince(log, u, time)
        <3>1. \A k : k \in RowsOfSince(more, u, time) <=> k \in RowsOfSince(log, u, time)
            BY <2>2, <2>3
        <3> QED BY <3>1, Zenon
    <2> QED BY <2>3
<1>5. ASSUME NEW S, IsFiniteSet(S), NEW T, T \subseteq S \cup {n + 1}
      PROVE  Cardinality(T) <= Cardinality(S) + 1
    <2>1. IsFiniteSet(S \cup {n + 1}) /\ Cardinality(S) \in Nat
          /\ (Cardinality(S \cup {n + 1}) = Cardinality(S) \/ Cardinality(S \cup {n + 1}) = Cardinality(S) + 1)
        BY <1>5, FS_AddElement, FS_CardinalityType
    <2>2. Cardinality(T) <= Cardinality(S \cup {n + 1}) /\ Cardinality(T) \in Nat
        BY <1>5, <2>1, FS_Subset, FS_CardinalityType
    <2> QED BY <2>1, <2>2
<1>6. Cardinality(RowsSince(more, time)) <= Cardinality(RowsSince(log, time)) + 1
    BY <1>2, <1>5, RowsAreFinite
<1>7. \A u : Cardinality(RowsOfSince(more, u, time)) <= Cardinality(RowsOfSince(log, u, time)) + 1
    BY <1>3, <1>5, RowsAreFinite
<1> QED BY <1>4, <1>6, <1>7 DEF more

LEMMA SinceIsRowsSince ==
    /\ \A time : Since(time) = RowsSince(requestLog, time)
    /\ \A u, time : SinceOf(u, time) = RowsOfSince(requestLog, u, time)
BY DEF Since, SinceOf, RowsSince, RowsOfSince

LEMMA RateInvInit == RateInit => RateInv
<1> SUFFICES ASSUME RateInit PROVE RateInv
    OBVIOUS
<1> USE DEF RateInit
<1>1. RateTypeOK
    <2>1. AnyVisitor \in Visitors  BY RateConstants DEF AnyVisitor
    <2> QED BY <2>1 DEF RateTypeOK
<1>2. BurstsAreHeld
    <2>1. \A time : Since(time) = {}  BY DEF Since
    <2>2. \A u, time : SinceOf(u, time) = {}  BY <2>1 DEF SinceOf
    <2>3. Cardinality({}) = 0  BY FS_EmptySet
    <2>4. 0 <= USER_BURST_LIMIT /\ 0 <= GLOBAL_GUARD_LIMIT  BY RateConstants
    <2> QED BY <2>1, <2>2, <2>3, <2>4 DEF BurstsAreHeld
<1>3. \A v \in Visits : rlPc[v] = "idle" /\ came[v] <= wallClock  OBVIOUS
<1> QED BY <1>1, <1>2, <1>3
        DEF RateInv, OneInUserLock, OneInGlobalLock, UserCounted, AllCounted, UserLocked, GlobalLocked

(* A step of one request that leaves the rows alone. *)
LEMMA VisitKeeps ==
    ASSUME RateInv, NEW v \in Visits, UNCHANGED <<limiter, wallClock, requestLog>>, RateTypeOK',
           \A w \in Visits : w # v => rlPc'[w] = rlPc[w] /\ visitor'[w] = visitor[w] /\ came'[w] = came[w],
           came'[v] <= wallClock,
           rlPc'[v] \in UserLocked =>
               /\ visitor'[v] = visitor[v] /\ came'[v] = came[v]
               /\ rlPc[v] \in UserLocked \/ InUserLock(visitor[v]) = {},
           limiter = "ai" /\ rlPc'[v] \in GlobalLocked => rlPc[v] \in GlobalLocked \/ InGlobalLock = {},
           rlPc'[v] \in UserLocked \ {"count"} =>
               Cardinality(RowsOfSince(requestLog, visitor[v], came[v] - Window)) < USER_BURST_LIMIT,
           limiter = "ai" /\ rlPc'[v] \in {"create", "commit"} =>
               Cardinality(RowsSince(requestLog, came[v] - Window)) < GLOBAL_GUARD_LIMIT
    PROVE  RateInv'
<1>1. BurstsAreHeld'
    BY DEF RateInv, BurstsAreHeld, Since, SinceOf
<1>2. OneInUserLock'
    <2>1. SUFFICES ASSUME NEW a \in Visits, NEW b \in Visits, a # b,
                          rlPc'[a] \in UserLocked, rlPc'[b] \in UserLocked, visitor'[a] = visitor'[b]
                   PROVE  FALSE
        BY DEF OneInUserLock
    <2>2. ASSUME NEW w \in Visits, w # v, rlPc'[v] \in UserLocked, rlPc'[w] \in UserLocked,
                 visitor'[v] = visitor'[w]
          PROVE  FALSE
        <3>1. rlPc[w] \in UserLocked /\ visitor[w] = visitor[v]  BY <2>2
        <3>2. w \in InUserLock(visitor[v])  BY <3>1 DEF InUserLock, UserLocked
        <3>3. rlPc[v] \in UserLocked  BY <2>2, <3>2
        <3> QED BY <2>2, <3>1, <3>3 DEF RateInv, OneInUserLock
    <2>3. CASE a # v /\ b # v  BY <2>1, <2>3 DEF RateInv, OneInUserLock
    <2> QED BY <2>1, <2>2, <2>3
<1>3. OneInGlobalLock'
    <2>1. SUFFICES ASSUME limiter = "ai", NEW a \in Visits, NEW b \in Visits, a # b,
                          rlPc'[a] \in GlobalLocked, rlPc'[b] \in GlobalLocked
                   PROVE  FALSE
        BY DEF OneInGlobalLock
    <2>2. ASSUME NEW w \in Visits, w # v, rlPc'[v] \in GlobalLocked, rlPc'[w] \in GlobalLocked
          PROVE  FALSE
        <3>1. rlPc[w] \in GlobalLocked  BY <2>2
        <3>2. w \in InGlobalLock  BY <2>1, <3>1 DEF InGlobalLock, GlobalLocked
        <3>3. rlPc[v] \in GlobalLocked  BY <2>1, <2>2, <3>2
        <3> QED BY <2>1, <2>2, <3>1, <3>3 DEF RateInv, OneInGlobalLock
    <2>3. CASE a # v /\ b # v  BY <2>1, <2>3 DEF RateInv, OneInGlobalLock
    <2> QED BY <2>1, <2>2, <2>3
<1>4. ASSUME NEW w \in Visits PROVE came'[w] <= wallClock' /\ UserCounted(w)' /\ AllCounted(w)'
    <2>1. CASE w = v
        <3>1. UserCounted(v)'  BY DEF UserCounted
        <3>2. AllCounted(v)'
            <4>1. rlPc'[v] \in {"create", "commit"} => rlPc'[v] \in UserLocked  BY DEF UserLocked
            <4> QED BY <4>1 DEF AllCounted
        <3> QED BY <2>1, <3>1, <3>2
    <2>2. CASE w # v  BY <2>2 DEF RateInv, UserCounted, AllCounted
    <2> QED BY <2>1, <2>2
<1> QED BY <1>1, <1>2, <1>3, <1>4 DEF RateInv

(* A request that is answered, dies, or begins its next attempt.              *)
LEMMA LeavingTells ==
    ASSUME RateInv, NEW v \in Visits, VisitEnds(v) \/ TryAgain(v)
    PROVE  /\ rlPc' \in [Visits -> VisitPcs]
           /\ visitor' \in [Visits -> Visitors] /\ came' \in [Visits -> Nat]
           /\ attempt' \in [Visits -> Nat] /\ createdAt' \in [Visits -> Nat]
           /\ rlPc'[v] \in {"idle", "user lock"} /\ came'[v] <= wallClock
           /\ \A w \in Visits : w # v => rlPc'[w] = rlPc[w] /\ visitor'[w] = visitor[w] /\ came'[w] = came[w]
<1>1. RateTypeOK /\ came[v] <= wallClock  BY DEF RateInv
<1>2. CASE VisitEnds(v)
    <2>1. AnyVisitor \in Visitors  BY RateConstants DEF AnyVisitor
    <2>2. came'[v] = 0 /\ wallClock \in Nat  BY <1>1, <1>2 DEF VisitEnds, RateTypeOK
    <2>3. 0 <= wallClock /\ 0 \in Nat  BY <2>2
    <2>4. "idle" \in VisitPcs  BY DEF VisitPcs
    <2> QED BY <1>1, <1>2, <2>1, <2>2, <2>3, <2>4, RateTypedInParts DEF VisitEnds
<1>3. CASE TryAgain(v) /\ ~ VisitEnds(v)
    <2>1. /\ rlPc' = [rlPc EXCEPT ![v] = "user lock"] /\ attempt' = [attempt EXCEPT ![v] = @ + 1]
          /\ createdAt' = [createdAt EXCEPT ![v] = 0] /\ UNCHANGED <<visitor, came>>
        BY <1>3 DEF TryAgain
    <2>2. attempt[v] + 1 \in Nat /\ 0 \in Nat  BY <1>1, RateTypedInParts
    <2>3. "user lock" \in VisitPcs  BY DEF VisitPcs
    <2> QED BY <1>1, <2>1, <2>2, <2>3, RateTypedInParts
<1> QED BY <1>2, <1>3

LEMMA LeavingKeeps ==
    ASSUME RateInv, NEW v \in Visits, VisitEnds(v) \/ TryAgain(v), UNCHANGED <<limiter, wallClock, requestLog>>
    PROVE  RateInv'
<1>1. RateTypeOK'
    <2>1. RateTypeOK  BY DEF RateInv
    <2> QED BY <2>1, LeavingTells, RateTypedInParts, RateTypedNext
<1>2. rlPc'[v] \notin UserLocked /\ rlPc'[v] \notin GlobalLocked /\ rlPc'[v] \notin {"create", "commit"}
    BY LeavingTells DEF UserLocked, GlobalLocked
<1> QED BY <1>1, <1>2, LeavingTells, VisitKeeps

LEMMA CheckKeeps == ASSUME RateInv, NEW v \in Visits, NEW u \in Visitors, CheckAndRecord(v, u) PROVE RateInv'
<1>1. RateTypeOK  BY DEF RateInv
<1>2. /\ UNCHANGED <<limiter, wallClock, requestLog>> /\ RateTypeOK'
      /\ rlPc'[v] = "user lock" /\ came'[v] <= wallClock
      /\ \A w \in Visits : w # v => rlPc'[w] = rlPc[w] /\ visitor'[w] = visitor[w] /\ came'[w] = came[w]
    <2>1. /\ wallClock \in Nat /\ "user lock" \in VisitPcs /\ rlPc \in [Visits -> VisitPcs]
          /\ visitor \in [Visits -> Visitors] /\ came \in [Visits -> Nat]
        BY <1>1, RateTypedInParts DEF VisitPcs
    <2>2. /\ rlPc' = [rlPc EXCEPT ![v] = "user lock"] /\ visitor' = [visitor EXCEPT ![v] = u]
          /\ came' = [came EXCEPT ![v] = wallClock]
          /\ UNCHANGED <<limiter, wallClock, requestLog, attempt, createdAt>>
        BY DEF CheckAndRecord, VisitGoto
    <2>3. RateTypeOK'  BY <1>1, <2>1, <2>2, RateTypedInParts, RateTypedNext
    <2>4. wallClock <= wallClock
        <3>1. wallClock \in Nat  BY <2>1
        <3> QED BY <3>1
    <2> QED BY <2>1, <2>2, <2>3, <2>4
<1>3. rlPc'[v] \notin UserLocked /\ rlPc'[v] \notin GlobalLocked /\ rlPc'[v] \notin {"create", "commit"}
    BY <1>2 DEF UserLocked, GlobalLocked
<1> QED BY <1>2, <1>3, VisitKeeps

(* A request goes on in its transaction. *)
LEMMA GoesOn ==
    ASSUME RateInv, NEW v \in Visits, NEW from, NEW to \in UserLocked, VisitGoto(v, from, to),
           UNCHANGED <<visitor, came, attempt>>, createdAt' \in [Visits -> Nat],
           UNCHANGED <<limiter, wallClock, requestLog>>,
           from \in UserLocked \/ InUserLock(visitor[v]) = {},
           limiter = "ai" /\ to \in GlobalLocked => from \in GlobalLocked \/ InGlobalLock = {},
           to = "count" \/ Cardinality(RowsOfSince(requestLog, visitor[v], came[v] - Window)) < USER_BURST_LIMIT,
           limiter = "ai" /\ to \in {"create", "commit"} =>
               Cardinality(RowsSince(requestLog, came[v] - Window)) < GLOBAL_GUARD_LIMIT
    PROVE  RateInv'
<1>1. RateTypeOK /\ came[v] <= wallClock  BY DEF RateInv
<1>2. rlPc[v] = from /\ rlPc' = [rlPc EXCEPT ![v] = to]  BY DEF VisitGoto
<1>3. rlPc'[v] = to /\ \A w \in Visits : w # v => rlPc'[w] = rlPc[w]  BY <1>1, <1>2 DEF RateTypeOK
<1>4. RateTypeOK'  BY <1>1, <1>2 DEF RateTypeOK, UserLocked
<1> QED BY <1>1, <1>2, <1>3, <1>4, VisitKeeps

LEMMA TransactionKeeps ==
    ASSUME RateInv, NEW v \in Visits,
           TryUserLock(v) \/ CountUser(v) \/ TryGlobalLock(v) \/ CountAll(v) \/ CreateLog(v)
    PROVE  RateInv'
<1>1. RateTypeOK /\ came[v] <= wallClock /\ UserCounted(v) /\ AllCounted(v)  BY DEF RateInv
<1>2. CASE VisitEnds(v) \/ TryAgain(v)
    BY <1>2, LeavingKeeps DEF TryUserLock, CountUser, TryGlobalLock, CountAll, CreateLog
<1>3. came[v] - Window \in Int /\ USER_BURST_LIMIT \in Nat /\ GLOBAL_GUARD_LIMIT \in Nat /\ requestLog \in Seq(RequestRows)
    <2>1. came[v] \in Nat /\ Window \in Nat /\ requestLog \in Seq(RequestRows)
        BY <1>1, RateConstants, RateTypedInParts
    <2> QED BY <2>1, RateConstants
<1>4. /\ Cardinality(RowsOfSince(requestLog, visitor[v], came[v] - Window)) \in Nat
      /\ Cardinality(RowsSince(requestLog, came[v] - Window)) \in Nat
    BY <1>3, RowsAreFinite
<1>5. createdAt \in [Visits -> Nat]  BY <1>1 DEF RateTypeOK
<1>6. CASE TryUserLock(v) /\ ~ (VisitEnds(v) \/ TryAgain(v))
    <2>1. /\ VisitGoto(v, "user lock", "count") /\ UNCHANGED rlCall /\ InUserLock(visitor[v]) = {}
          /\ UNCHANGED <<limiter, wallClock, requestLog>>
        BY <1>6 DEF TryUserLock
    <2>2. "count" \in UserLocked /\ "count" \notin GlobalLocked /\ "count" \notin {"create", "commit"}
        BY DEF UserLocked, GlobalLocked
    <2> QED BY <1>5, <2>1, <2>2, GoesOn DEF rlCall
<1>7. CASE CountUser(v) /\ ~ (VisitEnds(v) \/ TryAgain(v))
    <2> DEFINE to == IF limiter = "ai" THEN "global lock" ELSE "create"
    <2>1. /\ VisitGoto(v, "count", to) /\ UNCHANGED rlCall
          /\ UNCHANGED <<limiter, wallClock, requestLog>>
        BY <1>7 DEF CountUser
    <2>2. Cardinality(RowsOfSince(requestLog, visitor[v], came[v] - Window)) < USER_BURST_LIMIT
        <3>1. ~ (Cardinality(SinceOf(visitor[v], came[v] - Window)) >= USER_BURST_LIMIT)
            BY <1>7 DEF CountUser
        <3> QED BY <1>3, <1>4, <3>1, SinceIsRowsSince
    <2>3. /\ to \in UserLocked /\ "count" \in UserLocked
          /\ ~ (limiter = "ai" /\ to \in GlobalLocked) /\ ~ (limiter = "ai" /\ to \in {"create", "commit"})
        BY DEF UserLocked, GlobalLocked
    <2> HIDE DEF to
    <2> QED BY <1>5, <2>1, <2>2, <2>3, GoesOn DEF rlCall
<1>8. CASE TryGlobalLock(v) /\ ~ (VisitEnds(v) \/ TryAgain(v))
    <2>1. /\ VisitGoto(v, "global lock", "count all") /\ UNCHANGED rlCall /\ InGlobalLock = {}
          /\ UNCHANGED <<limiter, wallClock, requestLog>>
        BY <1>8 DEF TryGlobalLock
    <2>2. /\ "count all" \in UserLocked /\ "global lock" \in UserLocked /\ "count all" \notin {"create", "commit"}
          /\ "global lock" \in UserLocked \ {"count"}
        BY DEF UserLocked
    <2>3. Cardinality(RowsOfSince(requestLog, visitor[v], came[v] - Window)) < USER_BURST_LIMIT
        BY <1>1, <2>1, <2>2 DEF UserCounted, VisitGoto
    <2> QED BY <1>5, <2>1, <2>2, <2>3, GoesOn DEF rlCall
<1>9. CASE CountAll(v) /\ ~ (VisitEnds(v) \/ TryAgain(v))
    <2>1. /\ VisitGoto(v, "count all", "create") /\ UNCHANGED rlCall
          /\ UNCHANGED <<limiter, wallClock, requestLog>>
        BY <1>9 DEF CountAll
    <2>2. Cardinality(RowsSince(requestLog, came[v] - Window)) < GLOBAL_GUARD_LIMIT
        <3>1. ~ (Cardinality(Since(came[v] - Window)) >= GLOBAL_GUARD_LIMIT)
            BY <1>9 DEF CountAll
        <3> QED BY <1>3, <1>4, <3>1, SinceIsRowsSince
    <2>3. /\ "create" \in UserLocked /\ "count all" \in UserLocked \ {"count"} /\ "count all" \in GlobalLocked
        BY DEF UserLocked, GlobalLocked
    <2>4. Cardinality(RowsOfSince(requestLog, visitor[v], came[v] - Window)) < USER_BURST_LIMIT
        BY <1>1, <2>1, <2>3 DEF UserCounted, VisitGoto
    <2> QED BY <1>5, <2>1, <2>2, <2>3, <2>4, GoesOn DEF rlCall
<1>10. CASE CreateLog(v) /\ ~ (VisitEnds(v) \/ TryAgain(v))
    <2>1. /\ VisitGoto(v, "create", "commit") /\ UNCHANGED <<visitor, came, attempt>>
          /\ UNCHANGED <<limiter, wallClock, requestLog>>
        BY <1>10 DEF CreateLog
    <2>2. createdAt' \in [Visits -> Nat]
        <3>1. PICK now \in came[v] .. wallClock : createdAt' = [createdAt EXCEPT ![v] = now]
            BY <1>10 DEF CreateLog
        <3>2. came[v] \in Nat /\ wallClock \in Nat  BY <1>1, RateTypedInParts
        <3>3. now \in Nat  BY <3>1, <3>2
        <3> QED BY <1>5, <3>1, <3>3
    <2>3. /\ "commit" \in UserLocked /\ "create" \in UserLocked \ {"count"} /\ "create" \in GlobalLocked
        BY DEF UserLocked, GlobalLocked
    <2>4. /\ Cardinality(RowsOfSince(requestLog, visitor[v], came[v] - Window)) < USER_BURST_LIMIT
          /\ limiter = "ai" => Cardinality(RowsSince(requestLog, came[v] - Window)) < GLOBAL_GUARD_LIMIT
        BY <1>1, <2>1, <2>3 DEF UserCounted, AllCounted, VisitGoto
    <2> QED BY <2>1, <2>2, <2>3, <2>4, GoesOn
<1> QED BY <1>2, <1>6, <1>7, <1>8, <1>9, <1>10

(* The row of a request that counted under the locks it still holds.          *)
LEMMA CommitLogKeeps == ASSUME RateInv, NEW v \in Visits, CommitLog(v) PROVE RateInv'
<1> DEFINE row == [user |-> visitor[v], at |-> createdAt[v]]
<1>1. /\ RateTypeOK /\ came[v] <= wallClock /\ UserCounted(v) /\ AllCounted(v)
      /\ OneInUserLock /\ OneInGlobalLock /\ BurstsAreHeld
    BY DEF RateInv
<1>2. /\ rlPc[v] = "commit" /\ requestLog' = Append(requestLog, row) /\ UNCHANGED <<limiter, wallClock>>
      /\ VisitEnds(v) \/ TryAgain(v)
    BY DEF CommitLog
<1>3. row \in RequestRows /\ requestLog \in Seq(RequestRows) /\ row.user = visitor[v]
    BY <1>1 DEF RateTypeOK, RequestRows
<1>4. requestLog' \in Seq(RequestRows)  BY <1>2, <1>3, AppendProperties
<1>5. RateTypeOK'  BY <1>1, <1>2, <1>4, LeavingTells, RateTypedInParts, RateTypedNext
<1>6. /\ rlPc'[v] \notin UserLocked /\ rlPc'[v] \notin GlobalLocked /\ rlPc'[v] \notin {"create", "commit"}
      /\ \A w \in Visits : w # v => rlPc'[w] = rlPc[w] /\ visitor'[w] = visitor[w] /\ came'[w] = came[w]
      /\ came'[v] <= wallClock
      /\ rlPc[v] \in UserLocked \ {"count"} /\ rlPc[v] \in GlobalLocked
    BY <1>2, LeavingTells DEF UserLocked, GlobalLocked
<1> HIDE DEF row
<1>7. wallClock \in Nat /\ came[v] \in Nat /\ Window \in Nat /\ USER_BURST_LIMIT \in Nat /\ GLOBAL_GUARD_LIMIT \in Nat
    BY <1>1, RateConstants DEF RateTypeOK
<1>8. wallClock - Window \in Int /\ came[v] - Window \in Int /\ came[v] - Window <= wallClock - Window
    BY <1>1, <1>7
<1>9. BurstsAreHeld'
    <2>1. ASSUME NEW u \in Visitors
          PROVE  Cardinality(RowsOfSince(requestLog', u, wallClock - Window)) <= USER_BURST_LIMIT
        <3>1. CASE u = visitor[v]
            <4> DEFINE before == Cardinality(RowsOfSince(requestLog, u, came[v] - Window))
                       now == Cardinality(RowsOfSince(requestLog, u, wallClock - Window))
                       after == Cardinality(RowsOfSince(requestLog', u, wallClock - Window))
            <4>1. before \in Nat /\ now \in Nat /\ after \in Nat
                BY <1>3, <1>4, <1>8, RowsAreFinite
            <4>2. before < USER_BURST_LIMIT  BY <1>1, <1>6, <3>1 DEF UserCounted
            <4>3. now <= before  BY <1>3, <1>8, LaterHasFewer
            <4>4. after <= now + 1  BY <1>2, <1>3, <1>8, RowIsAdded
            <4> HIDE DEF before, now
            <4>5. after <= USER_BURST_LIMIT
                <5> HIDE DEF after
                <5> QED BY <1>7, <4>1, <4>2, <4>3, <4>4
            <4> QED BY <4>5
        <3>2. CASE u # visitor[v]
            <4>1. RowsOfSince(requestLog', u, wallClock - Window) = RowsOfSince(requestLog, u, wallClock - Window)
                BY <1>2, <1>3, <1>8, <3>2, RowIsAdded
            <4> QED BY <1>1, <4>1, SinceIsRowsSince DEF BurstsAreHeld
        <3> QED BY <3>1, <3>2
    <2>2. ASSUME limiter = "ai"
          PROVE  Cardinality(RowsSince(requestLog', wallClock - Window)) <= GLOBAL_GUARD_LIMIT
        <3> DEFINE before == Cardinality(RowsSince(requestLog, came[v] - Window))
                   now == Cardinality(RowsSince(requestLog, wallClock - Window))
                   after == Cardinality(RowsSince(requestLog', wallClock - Window))
        <3>1. before \in Nat /\ now \in Nat /\ after \in Nat
            BY <1>3, <1>4, <1>8, RowsAreFinite
        <3>2. before < GLOBAL_GUARD_LIMIT  BY <1>1, <1>2, <2>2 DEF AllCounted
        <3>3. now <= before  BY <1>3, <1>8, LaterHasFewer
        <3>4. after <= now + 1  BY <1>2, <1>3, <1>8, RowIsAdded
        <3> HIDE DEF before, now
        <3>5. after <= GLOBAL_GUARD_LIMIT
            <4> HIDE DEF after
            <4> QED BY <1>7, <3>1, <3>2, <3>3, <3>4
        <3> QED BY <3>5
    <2>3. /\ \A u : SinceOf(u, wallClock - Window)' = RowsOfSince(requestLog', u, wallClock - Window)
          /\ Since(wallClock - Window)' = RowsSince(requestLog', wallClock - Window)
        BY <1>2 DEF Since, SinceOf, RowsSince, RowsOfSince
    <2> QED BY <1>2, <2>1, <2>2, <2>3 DEF BurstsAreHeld
<1>10. OneInUserLock' /\ OneInGlobalLock'
    BY <1>1, <1>2, <1>6 DEF OneInUserLock, OneInGlobalLock
<1>11. ASSUME NEW w \in Visits PROVE came'[w] <= wallClock' /\ UserCounted(w)' /\ AllCounted(w)'
    <2>1. CASE w = v  BY <1>2, <1>6, <2>1 DEF UserCounted, AllCounted
    <2>2. CASE w # v
        <3>1. /\ rlPc'[w] = rlPc[w] /\ visitor'[w] = visitor[w] /\ came'[w] = came[w]
              /\ came[w] <= wallClock /\ UserCounted(w)
            BY <1>6, <2>2 DEF RateInv
        <3>2. came[w] - Window \in Int
            <4>1. came[w] \in Nat  BY <1>1, RateTypedInParts
            <4> QED BY <1>7, <4>1
        <3>3. ASSUME rlPc[w] \in UserLocked \ {"count"}
              PROVE  RowsOfSince(requestLog', visitor[w], came[w] - Window) = RowsOfSince(requestLog, visitor[w], came[w] - Window)
            <4>1. visitor[w] # visitor[v]  BY <1>1, <1>6, <2>2, <3>3 DEF OneInUserLock
            <4> QED BY <1>2, <1>3, <3>2, <4>1, RowIsAdded
        <3>4. UserCounted(w)'  BY <3>1, <3>3 DEF UserCounted
        <3>5. ~ (limiter = "ai" /\ rlPc[w] \in {"create", "commit"})
            BY <1>1, <1>6, <2>2 DEF OneInGlobalLock, GlobalLocked
        <3> QED BY <1>2, <3>1, <3>4, <3>5 DEF AllCounted
    <2> QED BY <2>1, <2>2
<1> QED BY <1>5, <1>9, <1>10, <1>11 DEF RateInv

LEMMA ClockTicksKeeps == ASSUME RateInv, ClockTicks PROVE RateInv'
<1>1. RateTypeOK /\ BurstsAreHeld  BY DEF RateInv
<1>2. UNCHANGED <<limiter, requestLog, rlPc, visitor, came, attempt, createdAt>> /\ wallClock' = wallClock + 1
    BY DEF ClockTicks, rlCall
<1>3. wallClock \in Nat /\ Window \in Nat /\ USER_BURST_LIMIT \in Nat /\ GLOBAL_GUARD_LIMIT \in Nat
      /\ requestLog \in Seq(RequestRows)
    BY <1>1, RateConstants DEF RateTypeOK, RequestRows
<1>4. RateTypeOK'
    <2>1. wallClock' \in Nat  BY <1>2, <1>3
    <2> QED BY <1>1, <1>2, <2>1, RateTypedInParts, RateTypedNext
<1>5. wallClock - Window \in Int /\ wallClock + 1 - Window \in Int /\ wallClock - Window <= wallClock + 1 - Window
    BY <1>3
<1>6. /\ Cardinality(RowsSince(requestLog, wallClock + 1 - Window)) <= Cardinality(RowsSince(requestLog, wallClock - Window))
      /\ \A u : Cardinality(RowsOfSince(requestLog, u, wallClock + 1 - Window)) <= Cardinality(RowsOfSince(requestLog, u, wallClock - Window))
    BY <1>3, <1>5, LaterHasFewer
<1>7. /\ \A u : /\ Cardinality(RowsOfSince(requestLog, u, wallClock + 1 - Window)) \in Nat
                /\ Cardinality(RowsOfSince(requestLog, u, wallClock - Window)) \in Nat
      /\ Cardinality(RowsSince(requestLog, wallClock + 1 - Window)) \in Nat
      /\ Cardinality(RowsSince(requestLog, wallClock - Window)) \in Nat
    BY <1>3, <1>5, RowsAreFinite
<1>8. BurstsAreHeld'
    <2>1. /\ \A u : SinceOf(u, wallClock - Window)' = RowsOfSince(requestLog, u, wallClock + 1 - Window)
          /\ Since(wallClock - Window)' = RowsSince(requestLog, wallClock + 1 - Window)
        <3> DEFINE then == wallClock + 1 - Window
        <3>1. (wallClock - Window)' = then  BY <1>2, <1>3
        <3> HIDE DEF then
        <3>2. /\ \A u : SinceOf(u, wallClock - Window)' = RowsOfSince(requestLog, u, then)
              /\ Since(wallClock - Window)' = RowsSince(requestLog, then)
            BY <1>2, <3>1, Zenon DEF Since, SinceOf, RowsSince, RowsOfSince
        <3> QED BY <3>2 DEF then
    <2>2. ASSUME NEW u \in Visitors
          PROVE  Cardinality(RowsOfSince(requestLog, u, wallClock + 1 - Window)) <= USER_BURST_LIMIT
        <3>1. Cardinality(RowsOfSince(requestLog, u, wallClock - Window)) <= USER_BURST_LIMIT
            BY <1>1, SinceIsRowsSince DEF BurstsAreHeld
        <3> QED BY <1>3, <1>6, <1>7, <3>1
    <2>3. limiter = "ai" => Cardinality(RowsSince(requestLog, wallClock + 1 - Window)) <= GLOBAL_GUARD_LIMIT
        <3>1. limiter = "ai" => Cardinality(RowsSince(requestLog, wallClock - Window)) <= GLOBAL_GUARD_LIMIT
            BY <1>1, SinceIsRowsSince DEF BurstsAreHeld
        <3> QED BY <1>3, <1>6, <1>7, <3>1
    <2> QED BY <1>2, <2>1, <2>2, <2>3 DEF BurstsAreHeld
<1>9. OneInUserLock' /\ OneInGlobalLock'  BY <1>2 DEF RateInv, OneInUserLock, OneInGlobalLock
<1>10. ASSUME NEW w \in Visits PROVE came'[w] <= wallClock' /\ UserCounted(w)' /\ AllCounted(w)'
    <2>1. came[w] \in Nat /\ came[w] <= wallClock  BY <1>1 DEF RateInv, RateTypeOK
    <2>2. UserCounted(w)' /\ AllCounted(w)'  BY <1>2 DEF RateInv, UserCounted, AllCounted
    <2> QED BY <1>2, <1>3, <2>1, <2>2
<1> QED BY <1>4, <1>8, <1>9, <1>10 DEF RateInv

LEMMA RateInvNext == RateInv /\ [RateNext]_rlVars => RateInv'
<1> SUFFICES ASSUME RateInv, [RateNext]_rlVars PROVE RateInv'
    OBVIOUS
<1>1. ASSUME NEW v \in Visits, NEW u \in Visitors, CheckAndRecord(v, u) PROVE RateInv'
    BY <1>1, CheckKeeps
<1>2. ASSUME NEW v \in Visits,
             TryUserLock(v) \/ CountUser(v) \/ TryGlobalLock(v) \/ CountAll(v) \/ CreateLog(v)
      PROVE  RateInv'
    BY <1>2, TransactionKeeps
<1>3. ASSUME NEW v \in Visits, CommitLog(v) PROVE RateInv'
    BY <1>3, CommitLogKeeps
<1>4. ASSUME NEW v \in Visits, TransactionFails(v) \/ VisitDies(v) PROVE RateInv'
    BY <1>4, LeavingKeeps DEF TransactionFails, VisitDies
<1>5. CASE ClockTicks  BY <1>5, ClockTicksKeeps
<1>6. CASE UNCHANGED rlVars
    BY <1>6 DEF rlVars, RateInv, RateTypeOK, BurstsAreHeld, Since, SinceOf, OneInUserLock, OneInGlobalLock,
                UserCounted, AllCounted
<1> QED BY <1>1, <1>2, <1>3, <1>4, <1>5, <1>6 DEF RateNext

(* The rows and the requests keep their shape. *)
THEOREM RateTypeCorrect == RateSpec => []RateTypeOK
<1>1. RateInv => RateTypeOK  BY DEF RateInv
<1> QED BY RateInvInit, RateInvNext, <1>1, PTL DEF RateSpec

(* No number of requests, failures, late attempts and unheard commits leaves  *)
(* more rows in a window than the limits (aiRateLimit.ts:20).                 *)
THEOREM BurstsAreHeldHolds == RateSpec => []BurstsAreHeld
<1>1. RateInv => BurstsAreHeld  BY DEF RateInv
<1> QED BY RateInvInit, RateInvNext, <1>1, PTL DEF RateSpec

-----------------------------------------------------------------------------
(* The composition.  The services share no variable, and the one that moves   *)
(* is chosen once: a step of the composition is a step or a stutter of each.  *)
allVars == <<part, rwVars, licVars, subVars, trigVars, hoVars, lsVars, alertVars, socialVars, rlVars>>

LEMMA EachServiceSteps ==
    ASSUME [ServicesNext]_allVars
    PROVE  /\ [RewardNext]_rwVars /\ [LicenseNext]_licVars /\ [SubscriptionNext]_subVars
           /\ [TriggerNext]_trigVars /\ [HandoffNext]_hoVars /\ [LiveSyncNext]_lsVars
           /\ [AlertNext]_alertVars /\ [SocialNext]_socialVars /\ [RateNext]_rlVars
           /\ part' = part
BY DEF ServicesNext, allVars

(* Every behaviour of the composition is a behaviour of each service: what is *)
(* proved of a service alone holds where they run beside one another.         *)
THEOREM ServicesKeepTheirSpecs ==
    ServicesSpec =>
        /\ RewardSpec /\ LicenseSpec /\ SubscriptionSpec /\ TriggerSpec /\ HandoffSpec
        /\ LiveSyncSpec /\ AlertSpec /\ SocialSpec /\ RateSpec
<1>1. ServicesInit => /\ RewardInit /\ LicenseInit /\ SubscriptionInit /\ TriggerInit /\ HandoffInit
                      /\ LiveSyncInit /\ AlertInit /\ SocialInit /\ RateInit
    BY DEF ServicesInit
<1> QED BY <1>1, EachServiceSteps, PTL
        DEF ServicesSpec, allVars, RewardSpec, LicenseSpec, SubscriptionSpec, TriggerSpec, HandoffSpec,
            LiveSyncSpec, AlertSpec, SocialSpec, RateSpec

Parts == {"rewards", "licences", "billing", "triggers", "support", "liveSync", "alerts", "social", "limits"}

(* Whichever service moves, its rows and its calls keep the shape the schema  *)
(* and the code give them.                                                    *)
THEOREM ServicesTypeCorrect == ServicesSpec => []ServicesTypeOK
<1>1. ServicesSpec => [](part \in Parts)
  <2>1. ServicesInit => part \in Parts  BY DEF ServicesInit, Parts
  <2>2. part \in Parts /\ [ServicesNext]_allVars => (part \in Parts)'  BY EachServiceSteps
  <2> QED BY <2>1, <2>2, PTL DEF ServicesSpec, allVars
<1>2. /\ part \in Parts
      /\ RewardTypeOK /\ LicenseTypeOK /\ SubscriptionTypeOK /\ TriggerTypeOK /\ HandoffTypeOK
      /\ LiveSyncTypeOK /\ AlertTypeOK /\ SocialTypeOK /\ RateTypeOK
      => ServicesTypeOK
    BY DEF Parts, ServicesTypeOK
<1> QED BY <1>1, <1>2, ServicesKeepTheirSpecs, RewardTypeCorrect, LicenseTypeCorrect, SubscriptionTypeCorrect,
           TriggerTypeCorrect, HandoffTypeCorrect, LiveSyncTypeCorrect, AlertTypeCorrect, SocialTypeCorrect,
           RateTypeCorrect, PTL
=============================================================================
