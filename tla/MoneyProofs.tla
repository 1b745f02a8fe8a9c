---------------------------- MODULE MoneyProofs ----------------------------
(* Theorems about RewardMoney, LicenseService and Subscription, which share   *)
(* nothing, for any workers, roles, terms, levels, withdrawals, calls,        *)
(* devices, requests and provider ids.                                        *)
EXTENDS RewardMoney, LicenseService, Subscription, FiniteSetTheorems, TLAPS

(***************************************************************************)
(* The inductive invariant.  An instalment enters the reserve once, with   *)
(* its contract, and what is open only shrinks from then on: so the        *)
(* instalments a cancellation read open still hold all that is open when   *)
(* it commits, and a sweep that read the contract REVOKED finds nothing    *)
(* open.  Money moves out of the reserve by a guarded update only.         *)
(***************************************************************************)
RowTypes ==
    /\ voided \in BOOLEAN /\ months \in 0 .. Terms + 1
    /\ checkout \in {"PENDING", "FAILED", "FULFILLED"}
    /\ contract \in ContractStatuses /\ document \in BOOLEAN
    /\ item \in [Items -> ItemStatuses]
    /\ payoutId \in [Items -> PayoutIds \cup {NoPayout}]
    /\ released \subseteq Instalments /\ returned \subseteq Instalments /\ credited \subseteq Levels
    /\ payout \in [PayoutIds -> PayoutStatuses]
    /\ amount \in [PayoutIds -> SUBSET Items]
    /\ settled \subseteq PayoutIds

WorkerTypes ==
    /\ rwPc \in [Workers -> RewardPlaces]
    /\ sweeping \in [Workers -> BOOLEAN]
    /\ got \in [Workers -> SUBSET Items]
    /\ saw \in [Workers -> ContractStatuses \cup ItemStatuses]
    /\ next \in [Workers -> ContractStatuses]
    /\ able \in [Workers -> BOOLEAN]
    /\ hand \in [Workers -> PayoutIds \cup Levels \cup {NoPayout}]

Untouched ==
    contract = "none" =>
        /\ checkout # "FULFILLED" /\ document = FALSE
        /\ released = {} /\ returned = {}
        /\ \A i \in Items : item[i] = "none" /\ payoutId[i] = NoPayout

Owed == contract # "none" => \A i \in Instalments : i \in Open <=> i \notin released \cup returned
RevokedOwesNothing == contract = "REVOKED" => Open = {}

(* What was asked for, or may be, was released. *)
Claimed ==
    \A i \in Instalments : payoutId[i] # NoPayout \/ item[i] = "RELEASED" => i \in released

Rows == Untouched /\ Owed /\ RevokedOwesNothing /\ Claimed

Local(w) ==
    /\ rwPc[w] \in {"document", "existing", "activate", "issue", "revoke"} => contract # "none"
    /\ rwPc[w] = "revoke" => got[w] \subseteq Instalments /\ Open \subseteq got[w]
    /\ rwPc[w] = "settle" /\ saw[w] = "REVOKED" => contract # "none" /\ Open = {}
    /\ rwPc[w] \in {"mature", "credit"} => saw[w] \in {"RELEASED", "REVERSED"}
    /\ rwPc[w] = "credit" => hand[w] \in Levels
    /\ rwPc[w] = "refresh" => saw[w] # "none" /\ next[w] \in {"FROZEN", "ENDED", "ACTIVE"}
    /\ rwPc[w] \in {"pay", "reject"} => hand[w] \in PayoutIds

RewardInv == RowTypes /\ WorkerTypes /\ Rows /\ \A w \in Workers : Local(w)

LEMMA TypesAreTypeOK == RewardTypeOK <=> RowTypes /\ WorkerTypes
BY DEF RewardTypeOK, RowTypes, WorkerTypes

LEMMA RewardInvInit == RewardInit => RewardInv
<1> SUFFICES ASSUME RewardInit PROVE RewardInv  OBVIOUS
<1>0. 0 \in 0 .. Terms + 1  BY RewardConstants
<1>1. RowTypes
    BY <1>0 DEF RewardInit, RowTypes, ContractStatuses, ItemStatuses, PayoutStatuses
<1>2. WorkerTypes  BY DEF RewardInit, WorkerTypes, RewardPlaces, ContractStatuses
<1>3. Open = {}  BY DEF RewardInit, Open, Items
<1>4. Rows  BY <1>3 DEF RewardInit, Rows, Untouched, Owed, RevokedOwesNothing, Claimed, Items
<1>5. \A w \in Workers : Local(w)  BY DEF RewardInit, Local
<1> QED BY <1>1, <1>2, <1>4, <1>5 DEF RewardInv

-----------------------------------------------------------------------------
(* A step of worker w leaves what the others hold alone. *)
Frame(w) ==
    /\ WorkerTypes'
    /\ \A v \in Workers \ {w} :
         rwPc'[v] = rwPc[v] /\ got'[v] = got[v] /\ saw'[v] = saw[v] /\ next'[v] = next[v] /\ hand'[v] = hand[v]

Restful == {"idle", "create", "failed", "open", "due", "contract", "taken", "takeback", "pending",
            "statuses", "collect", "claim"}

LEMMA RestfulIsLocal == \A w \in Workers : rwPc'[w] \in Restful => Local(w)'
BY DEF Restful, Local

LEMMA OtherWorkersKeep ==
    ASSUME RewardInv, NEW w \in Workers, Frame(w), contract' = "none" => contract = "none",
           contract # "none" => Open' \subseteq Open
    PROVE  \A v \in Workers \ {w} : Local(v)'
<1> SUFFICES ASSUME NEW v \in Workers \ {w} PROVE Local(v)'  OBVIOUS
<1>1. Local(v)  BY DEF RewardInv
<1>2. rwPc'[v] = rwPc[v] /\ got'[v] = got[v] /\ saw'[v] = saw[v] /\ next'[v] = next[v] /\ hand'[v] = hand[v]
    BY DEF Frame
<1> QED BY <1>1, <1>2 DEF Local

LEMMA WriterKeeps ==
    ASSUME RewardInv, NEW w \in Workers, Frame(w), RowTypes', Rows', Local(w)',
           contract' = "none" => contract = "none", contract # "none" => Open' \subseteq Open
    PROVE  RewardInv'
BY OtherWorkersKeep DEF RewardInv, Frame

(* A step that only reads. *)
LEMMA ReaderKeeps ==
    ASSUME RewardInv, NEW w \in Workers, Frame(w), rwRows' = rwRows, Local(w)'
    PROVE  RewardInv'
<1>1. /\ UNCHANGED <<voided, months, checkout, contract, document, item, payoutId>>
      /\ UNCHANGED <<released, returned, credited, payout, amount, settled>>
    BY DEF rwRows, moneyRows, reserve
<1>2. Open' = Open  BY <1>1 DEF Open
<1>3. RowTypes'  BY <1>1 DEF RewardInv, RowTypes
<1>4. Rows'  BY <1>1, <1>2 DEF RewardInv, Rows, Untouched, Owed, RevokedOwesNothing, Claimed
<1> QED BY <1>1, <1>2, <1>3, <1>4, WriterKeeps

LEMMA StopFrame ==
    ASSUME WorkerTypes, NEW w \in Workers, Stop(w)
    PROVE  Frame(w) /\ rwPc'[w] = "idle" /\ Local(w)'
<1>1. WorkerTypes'
    BY DEF WorkerTypes, Stop, Moved, Read, RewardPlaces, ContractStatuses
<1>2. \A v \in Workers \ {w} : rwPc'[v] = rwPc[v] /\ got'[v] = got[v] /\ saw'[v] = saw[v]
                               /\ next'[v] = next[v] /\ hand'[v] = hand[v]
    BY DEF WorkerTypes, Stop, Moved, Read
<1>3. rwPc'[w] = "idle"  BY DEF WorkerTypes, Stop, Moved
<1>4. Local(w)'  BY <1>3, RestfulIsLocal DEF Restful
<1> QED BY <1>1, <1>2, <1>3, <1>4 DEF Frame

LEMMA OnwardFrame ==
    ASSUME WorkerTypes, NEW w \in Workers, NEW place \in RewardPlaces, Onward(w, place)
    PROVE  Frame(w) /\ rwPc'[w] = place /\ (place \in Restful => Local(w)')
<1>1. WorkerTypes'  BY DEF WorkerTypes, Onward, Moved, Read, ContractStatuses
<1>2. \A v \in Workers \ {w} : rwPc'[v] = rwPc[v] /\ got'[v] = got[v] /\ saw'[v] = saw[v]
                               /\ next'[v] = next[v] /\ hand'[v] = hand[v]
    BY DEF WorkerTypes, Onward, Moved, Read
<1>3. rwPc'[w] = place  BY DEF WorkerTypes, Onward, Moved
<1>4. place \in Restful => Local(w)'  BY <1>3, RestfulIsLocal
<1> QED BY <1>1, <1>2, <1>3, <1>4 DEF Frame

(* A worker at a place of rest knows nothing that must stay true. *)
LEMMA RestingKeeps ==
    ASSUME RewardInv, NEW w \in Workers, Frame(w), rwRows' = rwRows, rwPc'[w] \in Restful
    PROVE  RewardInv'
BY RestfulIsLocal, ReaderKeeps

-----------------------------------------------------------------------------
(* The steps that only read, one lemma for each use case. *)
LEMMA FulfilmentReads ==
    ASSUME RewardInv, NEW w \in Workers,
           \/ Fulfil(w) \/ (CreateContract(w) /\ contract # "none") \/ CreateFails(w)
           \/ DocumentContract(w) \/ DocumentExisting(w)
    PROVE  RewardInv'
<1> USE DEF RewardInv
<1>1. CASE Fulfil(w)
  <2>1. Frame(w) /\ rwRows' = rwRows
      BY <1>1 DEF Fulfil, At, Moved, rwLocals, Frame, WorkerTypes, RewardPlaces
  <2>2. rwPc'[w] = IF checkout = "FULFILLED" THEN "document" ELSE "create"
      BY <1>1 DEF Fulfil, Moved, WorkerTypes
  <2>3. contract' = contract  BY <2>1 DEF rwRows
  <2>4. Local(w)'  BY <2>2, <2>3 DEF Local, Rows, Untouched
  <2> QED BY <2>1, <2>4, ReaderKeeps
<1>2. CASE CreateContract(w) /\ contract # "none"
    BY <1>2, StopFrame, ReaderKeeps DEF CreateContract
<1>3. CASE CreateFails(w)
  <2>1. Frame(w) /\ rwRows' = rwRows /\ rwPc'[w] = "failed"
      BY <1>3 DEF CreateFails, At, Moved, rwLocals, Frame, WorkerTypes, RewardPlaces
  <2> QED BY <2>1, RestingKeeps DEF Restful
<1>4. CASE DocumentContract(w)
  <2>1. Frame(w) /\ rwRows' = rwRows /\ rwPc[w] = "document" /\ rwPc'[w] = "existing"
      BY <1>4 DEF DocumentContract, At, Moved, Read, Frame, WorkerTypes, RewardPlaces, RowTypes
  <2>2. contract' = contract /\ contract # "none"  BY <2>1 DEF rwRows, Local
  <2>3. Local(w)'  BY <2>1, <2>2 DEF Local
  <2> QED BY <2>1, <2>3, ReaderKeeps
<1>5. CASE DocumentExisting(w)
  <2>1. CASE Stop(w)  BY <1>5, <2>1, StopFrame, ReaderKeeps DEF DocumentExisting
  <2>2. ASSUME NEW place \in {"activate", "issue"}, Onward(w, place) PROVE RewardInv'
    <3>1. rwRows' = rwRows /\ rwPc[w] = "existing"  BY <1>5 DEF DocumentExisting, At
    <3>2. place \in RewardPlaces  BY DEF RewardPlaces
    <3>3. Frame(w) /\ rwPc'[w] = place  BY <2>2, <3>2, OnwardFrame
    <3>4. contract' = contract /\ contract # "none"  BY <3>1 DEF rwRows, Local
    <3>5. Local(w)'  BY <3>3, <3>4 DEF Local
    <3> QED BY <3>1, <3>3, <3>5, ReaderKeeps
  <2> QED BY <1>5, <2>1, <2>2 DEF DocumentExisting
<1> QED BY <1>1, <1>2, <1>3, <1>4, <1>5

LEMMA CancelReturnsFrame ==
    ASSUME WorkerTypes, NEW w \in Workers, CancelReturns(w)
    PROVE  Frame(w) /\ Local(w)' /\ rwPc'[w] \in {"idle", "due"}
<1>1. "due" \in RewardPlaces /\ "due" \in Restful  BY DEF RewardPlaces, Restful
<1> QED BY <1>1, StopFrame, OnwardFrame DEF CancelReturns

LEMMA CancellationReads ==
    ASSUME RewardInv, NEW w \in Workers, AskCancel(w) \/ ReadOpen(w)
    PROVE  RewardInv'
<1> USE DEF RewardInv
<1>1. CASE AskCancel(w)
  <2>1. Frame(w) /\ rwRows' = rwRows /\ rwPc'[w] = "open"
      BY <1>1 DEF AskCancel, At, Moved, rwLocals, Frame, WorkerTypes, RewardPlaces
  <2> QED BY <2>1, RestingKeeps DEF Restful
<1>2. CASE ReadOpen(w) /\ contract \in {"none", "REVOKED"}
    BY <1>2, CancelReturnsFrame, ReaderKeeps DEF ReadOpen
<1>3. CASE ReadOpen(w) /\ contract \notin {"none", "REVOKED"}
  <2>1. Open \in SUBSET Items /\ Open \subseteq Instalments  BY DEF Open, Items
  <2>2. Frame(w) /\ rwRows' = rwRows /\ rwPc'[w] = "revoke" /\ got'[w] = Open
      BY <1>3, <2>1 DEF ReadOpen, At, Moved, Read, Frame, WorkerTypes, RewardPlaces
  <2>3. contract' = contract /\ Open' = Open  BY <2>2 DEF rwRows, Open
  <2>4. Local(w)'  BY <1>3, <2>1, <2>2, <2>3 DEF Local
  <2> QED BY <2>2, <2>4, ReaderKeeps
<1> QED BY <1>1, <1>2, <1>3

(* The list that was read is begun, or passed over when it is empty. *)
LEMMA LoopFrame ==
    ASSUME WorkerTypes, NEW w \in Workers, NEW S \in SUBSET Items,
           NEW here \in RewardPlaces, NEW after \in RewardPlaces, Loop(w, S, here, after)
    PROVE  Frame(w) /\ rwPc'[w] \in {here, after}
<1>1. CASE S = {}  BY <1>1, OnwardFrame DEF Loop
<1>2. CASE S # {}  BY <1>2 DEF Loop, Moved, Read, Frame, WorkerTypes
<1> QED BY <1>1, <1>2

LEMMA SweepReads ==
    ASSUME RewardInv, NEW w \in Workers,
           \/ Sweep(w) \/ ReadDue(w) \/ ReadContract(w) \/ ReadTaken(w) \/ ReadPending(w) \/ ReadStatuses(w)
    PROVE  RewardInv'
<1> USE DEF RewardInv
<1>p. {"contract", "taken", "takeback", "pending", "statuses"} \subseteq RewardPlaces \cap Restful
    BY DEF RewardPlaces, Restful
<1>1. CASE Sweep(w)
  <2>1. Frame(w) /\ rwRows' = rwRows /\ rwPc'[w] \in {"open", "due"}
      BY <1>1 DEF Sweep, At, Moved, Read, Frame, WorkerTypes, RewardPlaces
  <2> QED BY <2>1, RestingKeeps DEF Restful
<1>2. CASE ReadDue(w)
  <2>1. Due \in SUBSET Items  BY DEF Due, Open, Items
  <2>2. Frame(w) /\ rwPc'[w] \in {"contract", "taken"}  BY <1>2, <1>p, <2>1, LoopFrame DEF ReadDue
  <2> QED BY <1>2, <1>p, <2>2, RestingKeeps DEF ReadDue
<1>3. CASE ReadContract(w)
  <2>1. Frame(w) /\ rwRows' = rwRows /\ rwPc'[w] = "settle" /\ saw'[w] = contract
      BY <1>3 DEF ReadContract, At, Moved, Read, Frame, WorkerTypes, RewardPlaces, RowTypes
  <2>2. contract' = contract /\ Open' = Open  BY <2>1 DEF rwRows, Open
  <2>3. Local(w)'  BY <2>1, <2>2 DEF Local, Rows, RevokedOwesNothing
  <2> QED BY <2>1, <2>3, ReaderKeeps
<1>4. CASE ReadTaken(w)
  <2> DEFINE S == IF voided THEN Unrequested \cap Levels ELSE {}
  <2>1. S \in SUBSET Items  BY DEF Unrequested, Items
  <2>2. Loop(w, S, "takeback", "pending") /\ rwRows' = rwRows  BY <1>4 DEF ReadTaken
  <2> HIDE DEF S
  <2>3. Frame(w) /\ rwPc'[w] \in {"takeback", "pending"}  BY <1>p, <2>1, <2>2, LoopFrame
  <2> QED BY <1>p, <2>2, <2>3, RestingKeeps
<1>5. CASE ReadPending(w)
  <2>1. rwRows' = rwRows  BY <1>5 DEF ReadPending
  <2>2. CASE Onward(w, "statuses")  BY <1>p, <2>1, <2>2, OnwardFrame, RestingKeeps
  <2>3. ASSUME NEW S \in SUBSET {l \in Levels : item[l] = "PENDING"},
               Moved(w, "mature"), got' = Read(got, w, S),
               saw' = Read(saw, w, IF voided THEN "REVERSED" ELSE "RELEASED"),
               UNCHANGED <<sweeping, next, able, hand>>
        PROVE  RewardInv'
    <3>1. S \in SUBSET Items  BY DEF Items
    <3>2. Frame(w) /\ rwPc'[w] = "mature" /\ saw'[w] \in {"RELEASED", "REVERSED"}
        BY <2>3, <3>1 DEF Moved, Read, Frame, WorkerTypes, RewardPlaces, ItemStatuses
    <3>3. Local(w)'  BY <3>2 DEF Local
    <3> QED BY <2>1, <3>2, <3>3, ReaderKeeps
  <2> QED BY <1>5, <2>2, <2>3 DEF ReadPending
<1>6. CASE ReadStatuses(w)
  <2>1. rwRows' = rwRows  BY <1>6 DEF ReadStatuses
  <2>2. CASE Stop(w)  BY <2>1, <2>2, StopFrame, ReaderKeeps
  <2>3. CASE /\ contract \in {"ACTIVE", "FROZEN"} /\ Moved(w, "refresh")
             /\ saw' = Read(saw, w, contract) /\ next' = Read(next, w, StatusAfter)
             /\ UNCHANGED <<sweeping, got, able, hand>>
    <3>1. StatusAfter \in {"FROZEN", "ENDED", "ACTIVE"}  BY DEF StatusAfter
    <3>2. Frame(w) /\ rwPc'[w] = "refresh" /\ saw'[w] = contract /\ next'[w] = StatusAfter
        BY <2>3, <3>1 DEF Moved, Read, Frame, WorkerTypes, RewardPlaces, ContractStatuses, RowTypes
    <3>3. Local(w)'  BY <2>3, <3>1, <3>2 DEF Local
    <3> QED BY <2>1, <3>2, <3>3, ReaderKeeps
  <2> QED BY <1>6, <2>2, <2>3 DEF ReadStatuses
<1> QED BY <1>1, <1>2, <1>3, <1>4, <1>5, <1>6

LEMMA WithdrawalReads ==
    ASSUME RewardInv, NEW w \in Workers, RequestWithdrawal(w) \/ Collect(w) \/ DecideWithdrawal(w)
    PROVE  RewardInv'
<1> USE DEF RewardInv
<1>1. CASE RequestWithdrawal(w)
  <2>1. PICK wallet \in Wallets : got' = Read(got, w, wallet)  BY <1>1 DEF RequestWithdrawal
  <2>2. wallet \in SUBSET Items  BY DEF Wallets, Items
  <2>3. Frame(w) /\ rwRows' = rwRows /\ rwPc'[w] = "collect"
      BY <1>1, <2>1, <2>2 DEF RequestWithdrawal, At, Moved, Read, Frame, WorkerTypes, RewardPlaces
  <2> QED BY <2>3, RestingKeeps DEF Restful
<1>2. CASE Collect(w)
  <2>1. rwRows' = rwRows  BY <1>2 DEF Collect
  <2>2. CASE Stop(w)  BY <2>1, <2>2, StopFrame, ReaderKeeps
  <2>3. ASSUME NEW S \in SUBSET (got[w] \cap Unrequested), got' = Read(got, w, S), Moved(w, "claim"),
               UNCHANGED <<sweeping, saw, next, able, hand>>
        PROVE  RewardInv'
    <3>1. S \in SUBSET Items  BY DEF Unrequested
    <3>2. Frame(w) /\ rwPc'[w] = "claim"
        BY <2>3, <3>1 DEF Moved, Read, Frame, WorkerTypes, RewardPlaces
    <3> QED BY <2>1, <3>2, RestingKeeps DEF Restful
  <2> QED BY <1>2, <2>2, <2>3 DEF Collect
<1>3. CASE DecideWithdrawal(w)
  <2>1. PICK p \in PayoutIds : hand' = Read(hand, w, p)  BY <1>3 DEF DecideWithdrawal
  <2>2. PICK place \in {"pay", "reject"} : Moved(w, place)  BY <1>3 DEF DecideWithdrawal
  <2>3. Frame(w) /\ rwRows' = rwRows /\ rwPc'[w] = place /\ hand'[w] = p
      BY <1>3, <2>1, <2>2 DEF DecideWithdrawal, Moved, Read, Frame, WorkerTypes, RewardPlaces
  <2>4. Local(w)'  BY <2>3 DEF Local
  <2> QED BY <2>3, <2>4, ReaderKeeps
<1> QED BY <1>1, <1>2, <1>3
-----------------------------------------------------------------------------
(* The steps that write, one lemma for each.  First the contract.             *)
LEMMA CreateContractKeeps ==
    ASSUME RewardInv, NEW w \in Workers, CreateContract(w), contract = "none"
    PROVE  RewardInv'
<1> USE DEF RewardInv
<1>1. PICK first \in {"PENDING", "RELEASED"} :
         /\ item' = [i \in Items |-> IF i \in Instalments THEN "SCHEDULED" ELSE first]
         /\ credited' = IF first = "RELEASED" THEN Levels ELSE {}
    BY DEF CreateContract
<1>2. /\ contract' = "PENDING_DOCUMENT" /\ checkout' = "FULFILLED" /\ Moved(w, "document")
      /\ UNCHANGED <<voided, months, document, released, returned>>
      /\ UNCHANGED <<payoutId, payout, amount, settled, sweeping, got, saw, next, able, hand>>
    BY DEF CreateContract, reserve, rwLocals
<1>3. Frame(w) /\ rwPc'[w] = "document"
    BY <1>2 DEF Moved, Frame, WorkerTypes, RewardPlaces
<1>4. RowTypes'
    BY <1>1, <1>2 DEF RowTypes, ContractStatuses, ItemStatuses
<1>5. /\ released = {} /\ returned = {}
      /\ \A i \in Instalments : i \in Items /\ item'[i] = "SCHEDULED" /\ payoutId[i] = NoPayout
    BY <1>1 DEF Rows, Untouched, Items
<1>6. Open' = Instalments  BY <1>5 DEF Open
<1>7. Rows'
    BY <1>2, <1>5, <1>6 DEF Rows, Untouched, Owed, RevokedOwesNothing, Claimed
<1>8. Local(w)'  BY <1>2, <1>3 DEF Local
<1> QED BY <1>2, <1>3, <1>4, <1>7, <1>8, WriterKeeps

(* A step that leaves the items, the reserve and the requests alone, and sets *)
(* the contract only from one live status to another.                         *)
LEMMA StatusKeeps ==
    ASSUME RewardInv, NEW w \in Workers, Frame(w), Local(w)', RowTypes',
           contract # "none" /\ contract' # "none" /\ (contract' = "REVOKED" => contract = "REVOKED"),
           UNCHANGED <<item, payoutId, released, returned>>
    PROVE  RewardInv'
<1>1. Open' = Open  BY DEF Open
<1>2. Rows'  BY <1>1 DEF RewardInv, Rows, Untouched, Owed, RevokedOwesNothing, Claimed
<1> QED BY <1>1, <1>2, WriterKeeps

LEMMA FulfilmentWrites ==
    ASSUME RewardInv, NEW w \in Workers, MarkCheckoutFailed(w) \/ Activate(w) \/ IssueDocument(w)
    PROVE  RewardInv'
<1> USE DEF RewardInv
<1>0. Stop(w) /\ UNCHANGED <<voided, months, item, payoutId, credited, payout, amount, settled, released, returned>>
    BY DEF MarkCheckoutFailed, Activate, IssueDocument, moneyRows, reserve
<1>1. Frame(w) /\ Local(w)'  BY <1>0, StopFrame
<1>2. CASE MarkCheckoutFailed(w)
  <2>1. checkout' = (IF checkout = "FULFILLED" THEN checkout ELSE "FAILED") /\ UNCHANGED <<contract, document>>
      BY <1>2 DEF MarkCheckoutFailed
  <2>2. RowTypes'  BY <1>0, <2>1 DEF RowTypes
  <2>3. Open' = Open  BY <1>0 DEF Open
  <2>4. Rows'  BY <1>0, <2>1, <2>3 DEF Rows, Untouched, Owed, RevokedOwesNothing, Claimed
  <2> QED BY <1>1, <2>1, <2>2, <2>3, <2>4, WriterKeeps
<1>3. CASE Activate(w)
  <2>1. contract' = "ACTIVE" /\ UNCHANGED <<checkout, document>> /\ contract # "none"
      BY <1>3 DEF Activate, At, Local
  <2>2. RowTypes'  BY <1>0, <2>1 DEF RowTypes, ContractStatuses
  <2> QED BY <1>0, <1>1, <2>1, <2>2, StatusKeeps
<1>4. CASE IssueDocument(w)
  <2>1. /\ contract' = (IF document THEN contract ELSE "ACTIVE")
        /\ document' = TRUE /\ checkout' = checkout /\ contract # "none"
      BY <1>4 DEF IssueDocument, At, Local
  <2>2. RowTypes'  BY <1>0, <2>1 DEF RowTypes, ContractStatuses
  <2> QED BY <1>0, <1>1, <2>1, <2>2, StatusKeeps
<1> QED BY <1>2, <1>3, <1>4

LEMMA RefreshKeeps ==
    ASSUME RewardInv, NEW w \in Workers, Refresh(w)
    PROVE  RewardInv'
<1> USE DEF RewardInv
<1>1. /\ Stop(w) /\ rwPc[w] = "refresh"
      /\ UNCHANGED <<voided, months, checkout, document, item, payoutId, credited, payout, amount, settled>>
      /\ UNCHANGED <<released, returned>>
      /\ contract' = IF contract = saw[w] THEN next[w] ELSE contract
    BY DEF Refresh, At, moneyRows, reserve
<1>2. Frame(w) /\ Local(w)'  BY <1>1, StopFrame
<1>3. CASE contract = saw[w]
  <2>1. contract # "none" /\ contract' \in {"FROZEN", "ENDED", "ACTIVE"}  BY <1>1, <1>3 DEF Local
  <2>2. RowTypes'  BY <1>1, <2>1 DEF RowTypes, ContractStatuses
  <2> QED BY <1>1, <1>2, <2>1, <2>2, StatusKeeps
<1>4. CASE contract # saw[w]
    BY <1>1, <1>2, <1>4, ReaderKeeps DEF rwRows, moneyRows, reserve
<1> QED BY <1>3, <1>4

LEMMA CancelContractKeeps ==
    ASSUME RewardInv, NEW w \in Workers, CancelContract(w)
    PROVE  RewardInv'
<1> USE DEF RewardInv
<1>1. /\ CancelReturns(w) /\ rwPc[w] = "revoke"
      /\ UNCHANGED <<voided, months, checkout, document, payoutId, credited, payout, amount, settled, released>>
    BY DEF CancelContract, At, moneyRows
<1>2. Frame(w) /\ Local(w)'  BY <1>1, CancelReturnsFrame
<1>3. contract # "none" /\ got[w] \subseteq Instalments /\ Open \subseteq got[w]  BY <1>1 DEF Local
<1>4. CASE UNCHANGED <<item, returned, contract>>
    BY <1>1, <1>2, <1>4, ReaderKeeps DEF rwRows, moneyRows, reserve
<1>5. CASE /\ item' = [i \in Items |->
                         IF i \in got[w] THEN "CANCELLED"
                         ELSE IF i \in Levels /\ item[i] = "PENDING" THEN "REVERSED" ELSE item[i]]
           /\ returned' = returned \cup got[w]
           /\ contract' = "REVOKED"
  <2>1. RowTypes'  BY <1>1, <1>3, <1>5 DEF RowTypes, ContractStatuses, ItemStatuses
  <2>2. \A i \in Instalments : i \in Items /\ i \notin Levels  BY RewardConstants DEF Items
  <2>3. \A i \in Instalments : item'[i] = IF i \in got[w] THEN "CANCELLED" ELSE item[i]
      BY <1>5, <2>2
  <2>4. Open' = {}  BY <1>3, <2>3 DEF Open
  <2>5. \A i \in Instalments : i \in released \cup returned'
      BY <1>3, <1>5 DEF Rows, Owed
  <2>6. Rows'
      BY <1>1, <1>5, <2>3, <2>4, <2>5 DEF Rows, Untouched, Owed, RevokedOwesNothing, Claimed
  <2> QED BY <1>2, <1>3, <1>5, <2>1, <2>4, <2>6, WriterKeeps
<1> QED BY <1>4, <1>5 DEF CancelContract
-----------------------------------------------------------------------------
(* The sweep.                                                                 *)
LEMMA AfterRowFrame ==
    ASSUME WorkerTypes, NEW w \in Workers, NEW i, NEW after \in RewardPlaces, AfterRow(w, i, after)
    PROVE  /\ Frame(w)
           /\ \/ rwPc'[w] = after
              \/ /\ rwPc'[w] = rwPc[w] /\ saw'[w] = saw[w] /\ hand'[w] = hand[w]
<1>1. CASE got[w] = {i}  BY <1>1, OnwardFrame DEF AfterRow
<1>2. CASE got[w] # {i}
    BY <1>2 DEF AfterRow, Read, Frame, WorkerTypes
<1> QED BY <1>1, <1>2

LEMMA SettleInstalmentKeeps ==
    ASSUME RewardInv, NEW w \in Workers, NEW i \in Instalments, SettleInstalment(w, i)
    PROVE  RewardInv'
<1> USE DEF RewardInv
<1> DEFINE d == Decision(w)
           moved == {j \in {i} : Settleable(d, j)}
<1>1. /\ AfterRow(w, i, "taken") /\ rwPc[w] = "settle"
      /\ item' = Marked(moved, d)
      /\ released' = IF d = "RELEASED" THEN released \cup moved ELSE released
      /\ UNCHANGED <<voided, months, checkout, contract, document, payoutId, credited, payout, amount, settled>>
      /\ UNCHANGED returned
    BY DEF SettleInstalment, At, moneyRows
<1>2. d \in {"CANCELLED", "FROZEN", "RELEASED"} /\ (d = "CANCELLED" => saw[w] = "REVOKED")
    BY DEF Decision
<1>3. moved \subseteq {i} /\ (moved # {} => Settleable(d, i))  OBVIOUS
<1>4. moved # {} => i \in Open
    BY <1>3 DEF Settleable, Open
<1>5. d = "CANCELLED" => contract # "none" /\ Open = {} /\ moved = {}
    BY <1>1, <1>2, <1>3, <1>4 DEF Local
<1>6. contract = "none" => moved = {}
    BY <1>4 DEF Open, Rows, Untouched, Items
<1>7. \A j \in Instalments : j \in Items  BY DEF Items
<1> HIDE DEF d, moved
<1>8. \A j \in Items : item'[j] = IF j \in moved THEN d ELSE item[j]
    BY <1>1 DEF Marked
<1>9. RowTypes'
  <2>1. item' \in [Items -> ItemStatuses]
      BY <1>1, <1>2 DEF RowTypes, Marked, ItemStatuses
  <2>2. released' \subseteq Instalments  BY <1>1, <1>3 DEF RowTypes
  <2> QED BY <1>1, <2>1, <2>2 DEF RowTypes
<1>10. Open' = IF d = "RELEASED" THEN Open \ moved ELSE Open
  <2>1. CASE d = "RELEASED"  BY <1>7, <1>8, <2>1 DEF Open
  <2>2. CASE d = "FROZEN"  BY <1>3, <1>4, <1>7, <1>8, <2>2 DEF Open
  <2>3. CASE d = "CANCELLED"  BY <1>5, <1>7, <1>8, <2>3 DEF Open
  <2> QED BY <1>2, <2>1, <2>2, <2>3
<1>11. Owed'
  <2> SUFFICES ASSUME contract # "none", NEW j \in Instalments
               PROVE  j \in Open' <=> j \notin released' \cup returned
      BY <1>1 DEF Owed
  <2> QED BY <1>1, <1>10 DEF Rows, Owed
<1>12. Claimed'
  <2> SUFFICES ASSUME NEW j \in Instalments, payoutId[j] # NoPayout \/ item'[j] = "RELEASED"
               PROVE  j \in released'
      BY <1>1 DEF Claimed
  <2>1. item'[j] = IF j \in moved THEN d ELSE item[j]  BY <1>7, <1>8
  <2> QED BY <1>1, <2>1 DEF Rows, Claimed
<1>13. Untouched'
    BY <1>1, <1>6, <1>8 DEF Rows, Untouched
<1>14. RevokedOwesNothing'
    BY <1>1, <1>10 DEF Rows, RevokedOwesNothing
<1>15. Frame(w) /\ (rwPc'[w] = "taken" \/ (rwPc'[w] = "settle" /\ saw'[w] = saw[w]))
    BY <1>1, AfterRowFrame DEF RewardPlaces
<1>16. Local(w)'
  <2>1. saw[w] = "REVOKED" => contract' # "none" /\ Open' = {}
      BY <1>1, <1>10 DEF Local
  <2> QED BY <1>15, <2>1 DEF Local
<1> QED BY <1>1, <1>9, <1>10, <1>11, <1>12, <1>13, <1>14, <1>15, <1>16, WriterKeeps DEF Rows

(* A step that changes only items of the partners, from a status they have. *)
LEMMA PartnersKeep ==
    ASSUME RewardInv, NEW w \in Workers, Frame(w), Local(w)', RowTypes',
           \A i \in Instalments : item'[i] = item[i] /\ payoutId'[i] = payoutId[i],
           \A i \in Items : item[i] = "none" => item'[i] = "none" /\ payoutId'[i] = payoutId[i],
           UNCHANGED <<checkout, contract, document, released, returned>>
    PROVE  RewardInv'
<1>1. Open' = Open  BY DEF Open
<1>2. Rows'  BY <1>1 DEF RewardInv, Rows, Untouched, Owed, RevokedOwesNothing, Claimed
<1> QED BY <1>1, <1>2, WriterKeeps

LEMMA TakeBackKeeps ==
    ASSUME RewardInv, NEW w \in Workers, NEW l \in Levels, TakeBack(w, l)
    PROVE  RewardInv'
<1> USE DEF RewardInv
<1>1. /\ AfterRow(w, l, "pending") /\ rwPc[w] = "takeback"
      /\ item' = Marked({l} \cap Unrequested, "REVERSED")
      /\ UNCHANGED <<voided, months, checkout, contract, document, payoutId, credited, payout, amount, settled>>
      /\ UNCHANGED <<released, returned>>
    BY DEF TakeBack, At, moneyRows, reserve
<1>2. Frame(w) /\ rwPc'[w] \in {"pending", "takeback"}
    BY <1>1, AfterRowFrame DEF RewardPlaces
<1>3. Local(w)'  BY <1>2, RestfulIsLocal DEF Restful
<1>4. RowTypes'  BY <1>1 DEF RowTypes, Marked, ItemStatuses
<1>5. \A i \in Instalments : i \in Items /\ i # l  BY RewardConstants DEF Items
<1>6. \A i \in Items : item'[i] = IF i \in {l} \cap Unrequested THEN "REVERSED" ELSE item[i]
    BY <1>1 DEF Marked
<1>7. \A i \in Instalments : item'[i] = item[i]  BY <1>5, <1>6
<1>8. \A i \in Items : item[i] = "none" => item'[i] = "none"  BY <1>6 DEF Unrequested
<1> QED BY <1>1, <1>2, <1>3, <1>4, <1>7, <1>8, PartnersKeep

LEMMA MatureKeeps ==
    ASSUME RewardInv, NEW w \in Workers, NEW l \in Levels, Mature(w, l)
    PROVE  RewardInv'
<1> USE DEF RewardInv
<1>1. /\ rwPc[w] = "mature" /\ saw[w] \in {"RELEASED", "REVERSED"}
      /\ item' = IF item[l] = "PENDING" THEN Marked({l}, saw[w]) ELSE item
      /\ UNCHANGED <<voided, months, checkout, contract, document, payoutId, credited, payout, amount, settled>>
      /\ UNCHANGED <<released, returned>>
    BY DEF Mature, At, moneyRows, reserve, Local
<1>2. Frame(w) /\ Local(w)'
  <2>1. CASE Moved(w, "credit") /\ hand' = Read(hand, w, l) /\ UNCHANGED <<sweeping, got, saw, next, able>>
    <3>1. Frame(w) /\ rwPc'[w] = "credit" /\ hand'[w] = l /\ saw'[w] = saw[w]
        BY <2>1 DEF Moved, Read, Frame, WorkerTypes, RewardPlaces
    <3> QED BY <1>1, <3>1 DEF Local
  <2>2. CASE AfterRow(w, l, "statuses")
    <3>1. Frame(w) /\ (rwPc'[w] = "statuses" \/ (rwPc'[w] = "mature" /\ saw'[w] = saw[w]))
        BY <1>1, <2>2, AfterRowFrame DEF RewardPlaces
    <3> QED BY <1>1, <3>1 DEF Local
  <2> QED BY <2>1, <2>2 DEF Mature
<1>3. RowTypes'  BY <1>1 DEF RowTypes, Marked, ItemStatuses
<1>4. \A i \in Instalments : i \in Items /\ i # l  BY RewardConstants DEF Items
<1>5. \A i \in Items : item'[i] = item[i] \/ (i = l /\ item[i] = "PENDING")
    BY <1>1 DEF Marked, RowTypes
<1>6. /\ \A i \in Instalments : item'[i] = item[i]
      /\ \A i \in Items : item[i] = "none" => item'[i] = "none"
    BY <1>4, <1>5
<1> QED BY <1>1, <1>2, <1>3, <1>6, PartnersKeep

LEMMA CreditKeeps ==
    ASSUME RewardInv, NEW w \in Workers, Credit(w)
    PROVE  RewardInv'
<1> USE DEF RewardInv
<1>1. /\ rwPc[w] = "credit" /\ hand[w] \in Levels /\ saw[w] \in {"RELEASED", "REVERSED"}
      /\ credited' = credited \cup {hand[w]}
      /\ UNCHANGED <<voided, months, checkout, contract, document, item, payoutId, payout, amount, settled>>
      /\ UNCHANGED <<released, returned, sweeping, saw, next, able>>
      /\ got' = Read(got, w, got[w] \ {hand[w]}) /\ hand' = Read(hand, w, NoPayout)
      /\ Moved(w, IF got[w] = {hand[w]} THEN "statuses" ELSE "mature")
    BY DEF Credit, At, reserve, Local
<1>2. Frame(w) /\ rwPc'[w] \in {"statuses", "mature"} /\ saw'[w] = saw[w]
    BY <1>1 DEF Moved, Read, Frame, WorkerTypes, RewardPlaces
<1>3. Local(w)'  BY <1>1, <1>2 DEF Local
<1>4. RowTypes'  BY <1>1 DEF RowTypes
<1> QED BY <1>1, <1>2, <1>3, <1>4, PartnersKeep

-----------------------------------------------------------------------------
(* Withdrawals.                                                               *)
LEMMA ClaimKeeps ==
    ASSUME RewardInv, NEW w \in Workers, Claim(w)
    PROVE  RewardInv'
<1> USE DEF RewardInv
<1>1. /\ Stop(w) /\ UNCHANGED <<voided, months, checkout, contract, document, item, credited, settled>>
      /\ UNCHANGED <<released, returned>>
    BY DEF Claim, reserve
<1>2. Frame(w) /\ Local(w)'  BY <1>1, StopFrame
<1>3. CASE ~ got[w] \subseteq Unrequested
  <2>1. UNCHANGED <<payoutId, payout, amount>>  BY <1>3 DEF Claim
  <2> QED BY <1>1, <1>2, <2>1, ReaderKeeps DEF rwRows, moneyRows, reserve
<1>4. CASE got[w] \subseteq Unrequested
  <2>1. PICK p \in PayoutIds :
           /\ payoutId' = [i \in Items |-> IF i \in got[w] THEN p ELSE payoutId[i]]
           /\ payout' = [payout EXCEPT ![p] = "REQUESTED"]
           /\ amount' = [amount EXCEPT ![p] = got[w]]
      BY <1>4 DEF Claim
  <2>2. RowTypes'
      BY <1>1, <2>1 DEF RowTypes, WorkerTypes, PayoutStatuses
  <2>3. Open' = Open  BY <1>1 DEF Open
  <2>4. \A i \in Items : payoutId'[i] = payoutId[i] \/ item[i] = "RELEASED"
      BY <1>4, <2>1 DEF Unrequested
  <2>5. Claimed'  BY <1>1, <2>4 DEF Rows, Claimed, Items
  <2>6. Untouched'  BY <1>1, <2>4 DEF Rows, Untouched
  <2>7. Owed' /\ RevokedOwesNothing'  BY <1>1, <2>3 DEF Rows, Owed, RevokedOwesNothing
  <2> QED BY <1>1, <1>2, <2>2, <2>3, <2>5, <2>6, <2>7, WriterKeeps DEF Rows
<1> QED BY <1>3, <1>4

LEMMA PayKeeps ==
    ASSUME RewardInv, NEW w \in Workers, Pay(w)
    PROVE  RewardInv'
<1> USE DEF RewardInv
<1> DEFINE p == hand[w]
<1>1. /\ Stop(w) /\ p \in PayoutIds
      /\ UNCHANGED <<voided, months, checkout, contract, document, payoutId, credited, amount>>
      /\ UNCHANGED <<released, returned>>
    BY DEF Pay, At, reserve, Local
<1>2. Frame(w) /\ Local(w)'  BY <1>1, StopFrame
<1>3. CASE UNCHANGED <<item, payout, settled>>
    BY <1>1, <1>2, <1>3, ReaderKeeps DEF rwRows, moneyRows, reserve
<1>4. CASE /\ item' = Marked(Requested(p), "PAID")
           /\ payout' = [payout EXCEPT ![p] = "PAID"]
           /\ settled' = settled \cup {p}
  <2>1. RowTypes'
      BY <1>1, <1>4 DEF RowTypes, Marked, ItemStatuses, PayoutStatuses
  <2>2. \A i \in Items : item'[i] = IF payoutId[i] = p THEN "PAID" ELSE item[i]
      BY <1>4 DEF Marked, Requested
  <2>3. p # NoPayout  BY <1>1, RewardConstants
  <2>4. \A i \in Instalments : payoutId[i] = p => i \in released /\ contract # "none"
      BY <2>3 DEF Rows, Claimed, Untouched, Items
  <2>5. Open' = Open
    <3>1. \A i \in Instalments : payoutId[i] = p => i \notin Open
        BY <2>4 DEF Rows, Owed
    <3> QED BY <2>2, <3>1 DEF Open, Items
  <2>6. Claimed'  BY <1>1, <2>2 DEF Rows, Claimed, Items
  <2>7. Untouched'  BY <1>1, <2>2, <2>3 DEF Rows, Untouched
  <2>8. Owed' /\ RevokedOwesNothing'  BY <1>1, <2>5 DEF Rows, Owed, RevokedOwesNothing
  <2> QED BY <1>1, <1>2, <2>1, <2>5, <2>6, <2>7, <2>8, WriterKeeps DEF Rows
<1> QED BY <1>3, <1>4 DEF Pay

LEMMA RejectKeeps ==
    ASSUME RewardInv, NEW w \in Workers, Reject(w)
    PROVE  RewardInv'
<1> USE DEF RewardInv
<1>1. /\ Stop(w) /\ hand[w] \in PayoutIds
      /\ UNCHANGED <<voided, months, checkout, contract, document, item, credited, amount, settled>>
      /\ UNCHANGED <<released, returned>>
      /\ payoutId' = [i \in Items |-> IF i \in Requested(hand[w]) THEN NoPayout ELSE payoutId[i]]
      /\ payout' = [payout EXCEPT ![hand[w]] = "REJECTED"]
    BY DEF Reject, At, reserve, Local
<1>2. Frame(w) /\ Local(w)'  BY <1>1, StopFrame
<1>3. RowTypes'  BY <1>1 DEF RowTypes, PayoutStatuses
<1>4. Open' = Open  BY <1>1 DEF Open
<1>5. \A i \in Items : payoutId'[i] \in {payoutId[i], NoPayout}  BY <1>1
<1>6. Claimed'  BY <1>1, <1>5 DEF Rows, Claimed, Items
<1>7. Untouched'  BY <1>1, <1>5 DEF Rows, Untouched
<1>8. Owed' /\ RevokedOwesNothing'  BY <1>1, <1>4 DEF Rows, Owed, RevokedOwesNothing
<1> QED BY <1>1, <1>2, <1>3, <1>4, <1>6, <1>7, <1>8, WriterKeeps DEF Rows
-----------------------------------------------------------------------------
(* What happens beside the workers. *)
LEMMA BesideKeeps ==
    ASSUME RewardInv, Void \/ MonthPasses
    PROVE  RewardInv'
<1> USE DEF RewardInv
<1>1. /\ UNCHANGED <<checkout, contract, document, item, payoutId, credited, payout, amount, settled>>
      /\ UNCHANGED <<released, returned, rwPc, sweeping, got, saw, next, able, hand>>
    BY DEF Void, MonthPasses, moneyRows, reserve, rwLocals
<1>2. voided' \in BOOLEAN /\ months' \in 0 .. Terms + 1
  <2>1. voided' \in BOOLEAN  BY DEF Void, MonthPasses, RowTypes
  <2>2. months \in 0 .. Terms + 1 /\ Terms \in Nat  BY RewardConstants DEF RowTypes
  <2>3. months' = months \/ (months <= Terms /\ months' = months + 1)  BY DEF Void, MonthPasses
  <2>4. months' \in 0 .. Terms + 1  BY <2>2, <2>3
  <2> QED BY <2>1, <2>4
<1>3. Open' = Open  BY <1>1 DEF Open
<1>4. RowTypes'  BY <1>1, <1>2 DEF RowTypes
<1>5. WorkerTypes'  BY <1>1 DEF WorkerTypes
<1>6. Rows'  BY <1>1, <1>3 DEF Rows, Untouched, Owed, RevokedOwesNothing, Claimed
<1>7. \A w \in Workers : Local(w)'  BY <1>1, <1>3 DEF Local
<1> QED BY <1>4, <1>5, <1>6, <1>7

LEMMA RewardInvNext == RewardInv /\ [RewardNext]_rwVars => RewardInv'
<1> SUFFICES ASSUME RewardInv, [RewardNext]_rwVars PROVE RewardInv'  OBVIOUS
<1>1. ASSUME NEW w \in Workers, Fulfilment(w) PROVE RewardInv'
    BY <1>1, FulfilmentReads, CreateContractKeeps, FulfilmentWrites DEF Fulfilment
<1>2. ASSUME NEW w \in Workers, Cancellation(w) PROVE RewardInv'
    BY <1>2, CancellationReads, CancelContractKeeps DEF Cancellation
<1>3. ASSUME NEW w \in Workers, SweepStep(w) PROVE RewardInv'
    BY <1>3, SweepReads, SettleInstalmentKeeps, TakeBackKeeps, MatureKeeps, CreditKeeps, RefreshKeeps
    DEF SweepStep
<1>4. ASSUME NEW w \in Workers, Withdrawal(w) PROVE RewardInv'
    BY <1>4, WithdrawalReads, ClaimKeeps, PayKeeps, RejectKeeps DEF Withdrawal
<1>5. ASSUME NEW w \in Workers, RewardCrash(w) PROVE RewardInv'
    BY <1>5, StopFrame, ReaderKeeps DEF RewardCrash, RewardInv
<1>6. CASE Void \/ MonthPasses  BY <1>6, BesideKeeps
<1>7. CASE UNCHANGED rwVars
  <2>1. /\ UNCHANGED <<voided, months, checkout, contract, document, item, payoutId, released, returned>>
        /\ UNCHANGED <<credited, payout, amount, settled>>
        /\ UNCHANGED <<rwPc, sweeping, got, saw, next, able, hand>>
      BY <1>7 DEF rwVars
  <2>2. Open' = Open  BY <2>1 DEF Open
  <2>3. RowTypes' /\ WorkerTypes'  BY <2>1 DEF RewardInv, RowTypes, WorkerTypes
  <2>4. Rows'  BY <2>1, <2>2 DEF RewardInv, Rows, Untouched, Owed, RevokedOwesNothing, Claimed
  <2>5. \A w \in Workers : Local(w)'  BY <2>1, <2>2 DEF RewardInv, Local
  <2> QED BY <2>3, <2>4, <2>5 DEF RewardInv
<1> QED BY <1>1, <1>2, <1>3, <1>4, <1>5, <1>6, <1>7 DEF RewardNext

LEMMA RewardInvHolds == RewardSpec => []RewardInv
BY RewardInvInit, RewardInvNext, PTL DEF RewardSpec

(* Every row and every worker keeps its shape, whatever overlaps or dies.     *)
THEOREM RewardTypeCorrect == RewardSpec => []RewardTypeOK
<1>1. RewardInv => RewardTypeOK  BY TypesAreTypeOK DEF RewardInv
<1> QED BY <1>1, RewardInvHolds, PTL

(* The reserve covers exactly what is still owed, and a revoked contract owes *)
(* nothing, for any number of sweeps, cancellations and fulfilments that      *)
(* overlap or die (releaseService.ts).                                        *)
THEOREM ReserveAccountsHolds == RewardSpec => []ReserveAccounts
<1>1. RewardInv => ReserveAccounts
    BY DEF RewardInv, Rows, Owed, RevokedOwesNothing, ReserveAccounts
<1> QED BY <1>1, RewardInvHolds, PTL

-----------------------------------------------------------------------------
(* Withdrawals.  The code reads a payout REQUESTED outside the transaction    *)
(* that decides it, so what follows is about one deciding admin at a time.    *)
OneDecider ==
    \A v, w \in Workers : "decide" \in Roles[v] /\ "decide" \in Roles[w] => v = w

(* A live payout holds the items it counted, and it is undecided while the    *)
(* admin that read it is about to decide.                                     *)
Linked == \A p \in PayoutIds : payout[p] \in {"REQUESTED", "PAID"} =>
              \A i \in amount[p] : payoutId[i] = p

Undecided(w) == rwPc[w] \in {"pay", "reject"} =>
                    "decide" \in Roles[w] /\ payout[hand[w]] = "REQUESTED"

PayoutInv == Linked /\ \A w \in Workers : Undecided(w)

LEMMA PayoutInvInit == RewardInit => PayoutInv
BY DEF RewardInit, PayoutInv, Linked, Undecided

(* A step of worker w that is no withdrawal's. *)
Apart(w) ==
    /\ UNCHANGED <<payoutId, payout, amount>>
    /\ rwPc'[w] \notin {"pay", "reject"}
    /\ \A v \in Workers \ {w} : rwPc'[v] = rwPc[v] /\ hand'[v] = hand[v]

LEMMA ApartKeeps ==
    ASSUME PayoutInv, NEW w \in Workers, Apart(w)
    PROVE  PayoutInv'
<1>1. Linked'  BY DEF PayoutInv, Apart, Linked
<1>2. \A v \in Workers : Undecided(v)'  BY DEF PayoutInv, Apart, Undecided
<1> QED BY <1>1, <1>2 DEF PayoutInv

LEMMA StopIsApart ==
    ASSUME WorkerTypes, NEW w \in Workers, Stop(w), UNCHANGED <<payoutId, payout, amount>>
    PROVE  Apart(w)
BY DEF WorkerTypes, Stop, Moved, Read, Apart

LEMMA MoveIsApart ==
    ASSUME WorkerTypes, NEW w \in Workers, NEW place \in RewardPlaces \ {"pay", "reject"}, Moved(w, place),
           hand' = hand \/ (\E h : hand' = Read(hand, w, h)), UNCHANGED <<payoutId, payout, amount>>
    PROVE  Apart(w)
<1>1. \A v \in Workers \ {w} : hand'[v] = hand[v]  BY DEF WorkerTypes, Read
<1>2. rwPc'[w] = place /\ \A v \in Workers \ {w} : rwPc'[v] = rwPc[v]  BY DEF WorkerTypes, Moved
<1> QED BY <1>1, <1>2 DEF Apart

LEMMA RowIsApart ==
    ASSUME WorkerTypes, NEW w \in Workers, NEW i, NEW after \in RewardPlaces \ {"pay", "reject"},
           AfterRow(w, i, after), rwPc[w] \notin {"pay", "reject"}, UNCHANGED <<payoutId, payout, amount>>
    PROVE  Apart(w)
<1>1. CASE Onward(w, after)  BY <1>1, MoveIsApart DEF Onward
<1>2. CASE UNCHANGED <<rwPc, hand>>  BY <1>2 DEF Apart
<1> QED BY <1>1, <1>2 DEF AfterRow

LEMMA FulfilmentIsApart ==
    ASSUME WorkerTypes, NEW w \in Workers, Fulfilment(w)
    PROVE  Apart(w)
<1>0. {"create", "failed", "document", "existing", "activate", "issue"} \subseteq RewardPlaces \ {"pay", "reject"}
    BY DEF RewardPlaces
<1>1. UNCHANGED <<payoutId, payout, amount>>
    BY DEF Fulfilment, Fulfil, CreateContract, CreateFails, MarkCheckoutFailed, DocumentContract,
       DocumentExisting, Activate, IssueDocument, rwRows, moneyRows
<1>2. \/ Stop(w)
      \/ \E place \in {"create", "failed", "document", "existing", "activate", "issue"} :
             Moved(w, place) /\ hand' = hand
    BY DEF Fulfilment, Fulfil, CreateContract, CreateFails, MarkCheckoutFailed, DocumentContract,
       DocumentExisting, Activate, IssueDocument, rwLocals, Onward
<1> QED BY <1>0, <1>1, <1>2, StopIsApart, MoveIsApart

LEMMA CancellationIsApart ==
    ASSUME WorkerTypes, NEW w \in Workers, Cancellation(w)
    PROVE  Apart(w)
<1>0. {"open", "revoke", "due"} \subseteq RewardPlaces \ {"pay", "reject"}  BY DEF RewardPlaces
<1>1. UNCHANGED <<payoutId, payout, amount>>
    BY DEF Cancellation, AskCancel, ReadOpen, CancelContract, rwRows, moneyRows
<1>2. Stop(w) \/ \E place \in {"open", "revoke", "due"} : Moved(w, place) /\ hand' = hand
    BY DEF Cancellation, AskCancel, ReadOpen, CancelContract, CancelReturns, Onward, rwLocals
<1> QED BY <1>0, <1>1, <1>2, StopIsApart, MoveIsApart

LEMMA SweepIsApart ==
    ASSUME WorkerTypes, NEW w \in Workers, SweepStep(w)
    PROVE  Apart(w)
<1> DEFINE Places == {"open", "due", "contract", "taken", "settle", "takeback", "pending", "statuses",
                      "mature", "credit", "refresh"}
<1>0. Places \subseteq RewardPlaces \ {"pay", "reject"}  BY DEF RewardPlaces
<1>1. CASE Sweep(w) \/ ReadDue(w) \/ ReadContract(w) \/ ReadTaken(w) \/ ReadPending(w) \/ ReadStatuses(w)
  <2>1. UNCHANGED <<payoutId, payout, amount>>
      BY <1>1 DEF Sweep, ReadDue, ReadContract, ReadTaken, ReadPending, ReadStatuses, rwRows, moneyRows
  <2>2. Stop(w) \/ \E place \in Places : Moved(w, place) /\ hand' = hand
      BY <1>1 DEF Sweep, ReadDue, ReadContract, ReadTaken, ReadPending, ReadStatuses, Loop, Onward
  <2> QED BY <1>0, <2>1, <2>2, StopIsApart, MoveIsApart
<1>2. ASSUME NEW i \in Instalments, SettleInstalment(w, i) PROVE Apart(w)
  <2>1. AfterRow(w, i, "taken") /\ rwPc[w] = "settle" /\ UNCHANGED <<payoutId, payout, amount>>
      BY <1>2 DEF SettleInstalment, At, moneyRows
  <2> QED BY <1>0, <2>1, RowIsApart
<1>3. ASSUME NEW l \in Levels, TakeBack(w, l) PROVE Apart(w)
  <2>1. AfterRow(w, l, "pending") /\ rwPc[w] = "takeback" /\ UNCHANGED <<payoutId, payout, amount>>
      BY <1>3 DEF TakeBack, At, moneyRows
  <2> QED BY <1>0, <2>1, RowIsApart
<1>4. ASSUME NEW l \in Levels, Mature(w, l) PROVE Apart(w)
  <2>1. rwPc[w] = "mature" /\ UNCHANGED <<payoutId, payout, amount>>  BY <1>4 DEF Mature, At, moneyRows
  <2>2. AfterRow(w, l, "statuses") \/ (Moved(w, "credit") /\ hand' = Read(hand, w, l))
      BY <1>4 DEF Mature
  <2> QED BY <1>0, <2>1, <2>2, RowIsApart, MoveIsApart
<1>5. CASE Credit(w)
  <2>1. UNCHANGED <<payoutId, payout, amount>> /\ hand' = Read(hand, w, NoPayout)
        /\ \E place \in {"statuses", "mature"} : Moved(w, place)
      BY <1>5 DEF Credit
  <2> QED BY <1>0, <2>1, MoveIsApart
<1>6. CASE Refresh(w)
    BY <1>6, StopIsApart DEF Refresh, moneyRows
<1> QED BY <1>1, <1>2, <1>3, <1>4, <1>5, <1>6 DEF SweepStep

LEMMA ClaimKeepsPayouts ==
    ASSUME RewardInv, PayoutInv, NEW w \in Workers, Claim(w)
    PROVE  PayoutInv'
<1> USE DEF RewardInv
<1>1. Stop(w)  BY DEF Claim
<1>2. CASE ~ got[w] \subseteq Unrequested
    BY <1>1, <1>2, StopIsApart, ApartKeeps DEF Claim
<1>3. CASE got[w] \subseteq Unrequested
  <2>1. PICK p \in PayoutIds :
           /\ payout[p] = "none"
           /\ payoutId' = [i \in Items |-> IF i \in got[w] THEN p ELSE payoutId[i]]
           /\ payout' = [payout EXCEPT ![p] = "REQUESTED"]
           /\ amount' = [amount EXCEPT ![p] = got[w]]
      BY <1>3 DEF Claim
  <2>2. Linked'
    <3> SUFFICES ASSUME NEW q \in PayoutIds, payout'[q] \in {"REQUESTED", "PAID"}, NEW i \in amount'[q]
                 PROVE  payoutId'[i] = q
        BY DEF Linked
    <3>1. CASE q = p
        BY <2>1, <3>1 DEF RowTypes, WorkerTypes
    <3>2. CASE q # p
      <4>1. payout[q] \in {"REQUESTED", "PAID"} /\ i \in amount[q] /\ i \in Items
          BY <2>1, <3>2 DEF RowTypes
      <4>2. payoutId[i] = q /\ q # NoPayout  BY <4>1, RewardConstants DEF PayoutInv, Linked
      <4>3. i \notin got[w]  BY <1>3, <4>2 DEF Unrequested
      <4> QED BY <2>1, <4>1, <4>2, <4>3
    <3> QED BY <3>1, <3>2
  <2>3. ASSUME NEW v \in Workers PROVE Undecided(v)'
    <3>1. rwPc'[v] \in {"pay", "reject"} => rwPc'[v] = rwPc[v] /\ hand'[v] = hand[v]
        BY <1>1 DEF Stop, Moved, Read, WorkerTypes
    <3>2. rwPc[v] \in {"pay", "reject"} => payout[hand[v]] = "REQUESTED" /\ hand[v] \in PayoutIds
        BY DEF PayoutInv, Undecided, Local
    <3> QED BY <2>1, <3>1, <3>2 DEF PayoutInv, Undecided, RowTypes
  <2> QED BY <2>2, <2>3 DEF PayoutInv
<1> QED BY <1>2, <1>3

(* The one admin who decides takes the payout from REQUESTED, where nobody    *)
(* else is about to decide it.                                                *)
LEMMA DecisionKeepsPayouts ==
    ASSUME OneDecider, RewardInv, PayoutInv, NEW w \in Workers, Pay(w) \/ Reject(w)
    PROVE  PayoutInv'
<1> USE DEF RewardInv
<1> DEFINE p == hand[w]
<1>1. Stop(w) /\ amount' = amount /\ rwPc[w] \in {"pay", "reject"} /\ p \in PayoutIds
    BY DEF Pay, Reject, At, Local
<1>2. "decide" \in Roles[w] /\ payout[p] = "REQUESTED"  BY <1>1 DEF PayoutInv, Undecided
<1>3. \A v \in Workers : rwPc'[v] \notin {"pay", "reject"}
  <2>1. rwPc'[w] = "idle" /\ \A v \in Workers \ {w} : rwPc'[v] = rwPc[v]
      BY <1>1 DEF Stop, Moved, WorkerTypes
  <2>2. \A v \in Workers \ {w} : rwPc[v] \notin {"pay", "reject"}
      BY <1>2 DEF OneDecider, PayoutInv, Undecided
  <2> QED BY <2>1, <2>2
<1>4. Linked'
  <2> SUFFICES ASSUME NEW q \in PayoutIds, payout'[q] \in {"REQUESTED", "PAID"}, NEW i \in amount[q]
               PROVE  payoutId'[i] = q
      BY <1>1 DEF Linked
  <2>1. i \in Items  BY DEF RowTypes
  <2>2. CASE Pay(w)
    <3>1. payoutId' = payoutId /\ payout' \in {payout, [payout EXCEPT ![p] = "PAID"]}
        BY <2>2 DEF Pay
    <3>2. payout[q] \in {"REQUESTED", "PAID"}  BY <1>1, <1>2, <3>1 DEF RowTypes
    <3> QED BY <3>1, <3>2 DEF PayoutInv, Linked
  <2>3. CASE Reject(w)
    <3>1. /\ payoutId' = [j \in Items |-> IF j \in Requested(p) THEN NoPayout ELSE payoutId[j]]
          /\ payout' = [payout EXCEPT ![p] = "REJECTED"]
        BY <2>3 DEF Reject
    <3>2. q # p /\ payout[q] \in {"REQUESTED", "PAID"}  BY <1>1, <3>1 DEF RowTypes
    <3>3. payoutId[i] = q  BY <3>2 DEF PayoutInv, Linked
    <3> QED BY <2>1, <3>1, <3>2, <3>3 DEF Requested
  <2> QED BY <2>2, <2>3
<1> QED BY <1>3, <1>4 DEF PayoutInv, Undecided

LEMMA WithdrawalKeepsPayouts ==
    ASSUME OneDecider, RewardInv, PayoutInv, NEW w \in Workers, Withdrawal(w)
    PROVE  PayoutInv'
<1> USE DEF RewardInv
<1>1. CASE RequestWithdrawal(w) \/ Collect(w)
  <2>1. UNCHANGED <<payoutId, payout, amount>>
      BY <1>1 DEF RequestWithdrawal, Collect, rwRows, moneyRows
  <2>2. Stop(w) \/ \E place \in {"collect", "claim"} : Moved(w, place) /\ hand' = hand
      BY <1>1 DEF RequestWithdrawal, Collect
  <2>3. {"collect", "claim"} \subseteq RewardPlaces \ {"pay", "reject"}  BY DEF RewardPlaces
  <2> QED BY <2>1, <2>2, <2>3, StopIsApart, MoveIsApart, ApartKeeps
<1>2. CASE DecideWithdrawal(w)
  <2>1. PICK p \in PayoutIds : payout[p] = "REQUESTED" /\ hand' = Read(hand, w, p)
      BY <1>2 DEF DecideWithdrawal
  <2>2. PICK place \in {"pay", "reject"} : Moved(w, place)  BY <1>2 DEF DecideWithdrawal
  <2>3. UNCHANGED <<payoutId, payout, amount>> /\ "decide" \in Roles[w]
      BY <1>2 DEF DecideWithdrawal, rwRows, moneyRows
  <2>4. Linked'  BY <2>3 DEF PayoutInv, Linked
  <2>5. hand'[w] = p /\ \A v \in Workers \ {w} : rwPc'[v] = rwPc[v] /\ hand'[v] = hand[v]
      BY <2>1, <2>2 DEF Moved, Read, WorkerTypes
  <2>6. \A v \in Workers : Undecided(v)'  BY <2>1, <2>3, <2>5 DEF PayoutInv, Undecided
  <2> QED BY <2>4, <2>6 DEF PayoutInv
<1> QED BY <1>1, <1>2, ClaimKeepsPayouts, DecisionKeepsPayouts DEF Withdrawal

LEMMA PayoutInvNext == OneDecider /\ RewardInv /\ PayoutInv /\ [RewardNext]_rwVars => PayoutInv'
<1> SUFFICES ASSUME OneDecider, RewardInv, PayoutInv, [RewardNext]_rwVars PROVE PayoutInv'  OBVIOUS
<1> USE DEF RewardInv
<1>1. ASSUME NEW w \in Workers, Fulfilment(w) \/ Cancellation(w) \/ SweepStep(w) PROVE PayoutInv'
    BY <1>1, FulfilmentIsApart, CancellationIsApart, SweepIsApart, ApartKeeps
<1>2. ASSUME NEW w \in Workers, RewardCrash(w) PROVE PayoutInv'
    BY <1>2, StopIsApart, ApartKeeps DEF RewardCrash, rwRows, moneyRows
<1>3. ASSUME NEW w \in Workers, Withdrawal(w) PROVE PayoutInv'
    BY <1>3, WithdrawalKeepsPayouts
<1>4. CASE Void \/ MonthPasses \/ UNCHANGED rwVars
  <2>1. UNCHANGED <<payoutId, payout, amount, rwPc, hand>>
      BY <1>4 DEF Void, MonthPasses, moneyRows, rwLocals, rwVars
  <2> QED BY <2>1 DEF PayoutInv, Linked, Undecided
<1> QED BY <1>1, <1>2, <1>3, <1>4 DEF RewardNext

(* The instalments that a payout asks for or has paid left the reserve for    *)
(* the buyer, and nothing of it is in another such payout, for any sweeps,    *)
(* cancellations and withdrawals that overlap or die, as long as no two       *)
(* decisions do (payoutStore.ts).                                             *)
THEOREM PayoutsAreBackedHolds ==
    ASSUME OneDecider
    PROVE  RewardSpec => []PayoutsAreBacked
<1>1. RewardInv /\ PayoutInv => PayoutsAreBacked
  <2> SUFFICES ASSUME RewardInv, PayoutInv, NEW p \in PayoutIds, payout[p] \in {"REQUESTED", "PAID"}
               PROVE  /\ amount[p] \cap Instalments \subseteq released
                      /\ \A q \in PayoutIds \ {p} :
                            payout[q] \in {"REQUESTED", "PAID"} => amount[p] \cap amount[q] = {}
      BY DEF PayoutsAreBacked
  <2>1. \A i \in amount[p] : payoutId[i] = p /\ p # NoPayout
      BY RewardConstants DEF PayoutInv, Linked
  <2>2. amount[p] \cap Instalments \subseteq released
      BY <2>1 DEF RewardInv, Rows, Claimed
  <2> QED BY <2>1, <2>2 DEF PayoutInv, Linked
<1>2. RewardSpec => []PayoutInv
  <2>1. OneDecider /\ RewardInit => PayoutInv  BY PayoutInvInit
  <2>2. OneDecider /\ RewardInv /\ PayoutInv /\ [RewardNext]_rwVars => PayoutInv'
      BY PayoutInvNext
  <2> QED BY <2>1, <2>2, RewardInvHolds, PTL DEF RewardSpec
<1> QED BY <1>1, <1>2, RewardInvHolds, PTL

-----------------------------------------------------------------------------
-----------------------------------------------------------------------------

(***************************************************************************)
(* The inductive invariant.  A call that has looked at the limit and is    *)
(* about to create its row is a device to come.  A licence revoked while   *)
(* no call held the status ISSUED meets none later, for a revoked licence  *)
(* is not read any more.                                                   *)
(***************************************************************************)
Coming == {c \in Callers : licPc[c] = "create"}
New == Active \ cameBack
Limit == MaxActivations + Cardinality(Callers) - 1
NewDevicesBounded == Cardinality(New) + Cardinality(Coming) <= Limit

KnowsIssued == \A c \in Callers : licPc[c] = "first" => readStatus[c] = "ISSUED"

Revoked ==
    revokedAt /\ ~ crossed => licenseStatus = "REVOKED" /\ \A c \in Callers : ~ HoldsIssued(c)

LicenseInv == LicenseTypeOK /\ NewDevicesBounded /\ KnowsIssued /\ Revoked

-----------------------------------------------------------------------------
LEMMA CallerCount == IsFiniteSet(Callers) /\ Cardinality(Callers) \in Nat /\ Cardinality(Callers) >= 1
<1>1. IsFiniteSet(Callers) /\ Callers # {}  BY LicenseConstants
<1> QED BY <1>1, FS_CardinalityType, FS_EmptySet

LEMMA OneMore ==
    ASSUME NEW S, IsFiniteSet(S), NEW x
    PROVE  IsFiniteSet(S \cup {x}) /\ Cardinality(S \cup {x}) <= Cardinality(S) + 1
<1>1. Cardinality(S) \in Nat  BY FS_CardinalityType
<1>2. CASE x \in S  BY <1>1, <1>2, FS_AddElement
<1>3. CASE x \notin S  BY <1>1, <1>3, FS_AddElement
<1> QED BY <1>2, <1>3

LEMMA AnyDeviceIsOne == AnyDevice \in Devices
BY LicenseConstants DEF AnyDevice

LEMMA Sizes ==
    /\ IsFiniteSet(New) /\ Cardinality(New) \in Nat
    /\ IsFiniteSet(Coming) /\ Cardinality(Coming) \in Nat
    /\ IsFiniteSet(New') /\ Cardinality(New') \in Nat
    /\ IsFiniteSet(Coming') /\ Cardinality(Coming') \in Nat
    /\ Cardinality(Coming') <= Cardinality(Callers)
    /\ New' \subseteq New => Cardinality(New') <= Cardinality(New)
    /\ Coming' \subseteq Coming => Cardinality(Coming') <= Cardinality(Coming)
<1>1. New \subseteq Devices /\ New' \subseteq Devices  BY DEF New, Active
<1>2. Coming \subseteq Callers /\ Coming' \subseteq Callers  BY DEF Coming
<1>3. IsFiniteSet(Devices) /\ IsFiniteSet(Callers)  BY LicenseConstants
<1>4. IsFiniteSet(New) /\ IsFiniteSet(New')  BY <1>1, <1>3, FS_Subset
<1>5. IsFiniteSet(Coming) /\ IsFiniteSet(Coming') /\ Cardinality(Coming') <= Cardinality(Callers)
    BY <1>2, <1>3, FS_Subset
<1>6. Cardinality(New) \in Nat /\ Cardinality(New') \in Nat
      /\ Cardinality(Coming) \in Nat /\ Cardinality(Coming') \in Nat
    BY <1>4, <1>5, FS_CardinalityType
<1>7. New' \subseteq New => Cardinality(New') <= Cardinality(New)  BY <1>4, FS_Subset
<1>8. Coming' \subseteq Coming => Cardinality(Coming') <= Cardinality(Coming)  BY <1>5, FS_Subset
<1> QED BY <1>4, <1>5, <1>6, <1>7, <1>8

(* A step that neither binds a device for the first time nor promises to. *)
LEMMA NothingComes ==
    ASSUME NewDevicesBounded, New' \subseteq New, Coming' \subseteq Coming
    PROVE  NewDevicesBounded'
BY Sizes, CallerCount, LicenseConstants DEF NewDevicesBounded, Limit

(* What a call learns or forgets keeps the revocation, if it learns no ISSUED. *)
LEMMA RevokedStays ==
    ASSUME Revoked, revokedAt' = revokedAt, crossed' = crossed,
           revokedAt /\ licenseStatus = "REVOKED" => licenseStatus' = "REVOKED" \/ crossed,
           \A o \in Callers : HoldsIssued(o)' => HoldsIssued(o) \/ licenseStatus # "REVOKED"
    PROVE  Revoked'
BY DEF Revoked

(* What every call that ends leaves. *)
LEMMA AnswerFacts ==
    ASSUME LicenseTypeOK, NEW c \in Callers, NEW from \in LicensePlaces, Answer(c, from)
    PROVE  /\ licPc' \in [Callers -> LicensePlaces]
           /\ device' \in [Callers -> Devices]
           /\ readStatus' \in [Callers -> {"none", "ISSUED", "ACTIVE"}]
           /\ Coming' \subseteq Coming \ {c}
           /\ KnowsIssued => KnowsIssued'
           /\ \A o \in Callers : HoldsIssued(o)' => HoldsIssued(o) /\ o # c
BY AnyDeviceIsOne
DEF LicenseTypeOK, Answer, LicGoto, LicensePlaces, Coming, KnowsIssued, HoldsIssued

(* What every call that goes on leaves. *)
LEMMA GotoFacts ==
    ASSUME LicenseTypeOK, NEW c \in Callers, NEW from \in LicensePlaces, NEW to \in LicensePlaces,
           LicGoto(c, from, to), UNCHANGED <<device, readStatus>>
    PROVE  /\ licPc' \in [Callers -> LicensePlaces]
           /\ device' \in [Callers -> Devices]
           /\ readStatus' \in [Callers -> {"none", "ISSUED", "ACTIVE"}]
           /\ to # "create" => Coming' \subseteq Coming \ {c}
           /\ KnowsIssued /\ (to = "first" => readStatus[c] = "ISSUED") => KnowsIssued'
           /\ \A o \in Callers : HoldsIssued(o)' =>
                HoldsIssued(o) \/ (o = c /\ from \notin {"rows", "create", "first"})
           /\ to \notin {"rows", "create", "first"} => \A o \in Callers : HoldsIssued(o)' => HoldsIssued(o)
BY DEF LicenseTypeOK, LicGoto, LicensePlaces, Coming, KnowsIssued, HoldsIssued

-----------------------------------------------------------------------------
LEMMA LicenseInvInit == LicenseInit => LicenseInv
<1> SUFFICES ASSUME LicenseInit PROVE LicenseInv  OBVIOUS
<1>1. LicenseTypeOK
    BY AnyDeviceIsOne DEF LicenseInit, LicenseTypeOK, LicenseStatuses, LicensePlaces
<1>2. New = {} /\ Coming = {}  BY DEF LicenseInit, New, Active, Coming
<1>3. NewDevicesBounded
    BY <1>2, FS_EmptySet, CallerCount, LicenseConstants DEF NewDevicesBounded, Limit
<1>4. KnowsIssued /\ Revoked  BY DEF LicenseInit, KnowsIssued, Revoked
<1> QED BY <1>1, <1>3, <1>4 DEF LicenseInv

(* Statements that touch no activation: they neither bind nor free a device.  *)
LEMMA NewStays == activation' = activation /\ cameBack' = cameBack => New' = New
BY DEF New, Active

(* A call that reads and goes on, not to a creation. *)
LEMMA GoingOnKeeps ==
    ASSUME LicenseInv, NEW c \in Callers, NEW from \in LicensePlaces,
           NEW to \in LicensePlaces \ {"create", "first", "rows"},
           LicGoto(c, from, to), UNCHANGED <<device, readStatus>>, UNCHANGED <<licRows, licPast>>
    PROVE  LicenseInv'
<1> USE DEF LicenseInv
<1>1. LicenseTypeOK'  BY GotoFacts DEF LicenseTypeOK, licRows, licPast
<1>2. NewDevicesBounded'  BY GotoFacts, NewStays, NothingComes DEF licRows, licPast
<1>3. KnowsIssued'  BY GotoFacts
<1>4. Revoked'  BY GotoFacts, RevokedStays DEF licRows, licPast
<1> QED BY <1>1, <1>2, <1>3, <1>4

(* A call that ends with nothing written. *)
LEMMA AnsweringKeeps ==
    ASSUME LicenseInv, NEW c \in Callers, NEW from \in LicensePlaces,
           Answer(c, from), UNCHANGED <<licRows, licPast>>
    PROVE  LicenseInv'
<1> USE DEF LicenseInv
<1>1. LicenseTypeOK'  BY AnswerFacts DEF LicenseTypeOK, licRows, licPast
<1>2. NewDevicesBounded'  BY AnswerFacts, NewStays, NothingComes DEF licRows, licPast
<1>3. KnowsIssued'  BY AnswerFacts
<1>4. Revoked'  BY AnswerFacts, RevokedStays DEF licRows, licPast
<1> QED BY <1>1, <1>2, <1>3, <1>4

LEMMA ReadLicenseKeeps ==
    ASSUME LicenseInv, NEW c \in Callers, NEW d \in Devices, ReadLicense(c, d) PROVE LicenseInv'
<1> USE DEF LicenseInv
<1>1. LicenseTypeOK'
    BY DEF LicenseTypeOK, ReadLicense, LicGoto, LicensePlaces, licRows, licPast
<1>2. Coming' \subseteq Coming  BY DEF ReadLicense, LicGoto, Coming, LicenseTypeOK
<1>3. NewDevicesBounded'  BY <1>2, NewStays, NothingComes DEF ReadLicense, licRows, licPast
<1>4. KnowsIssued'  BY DEF KnowsIssued, ReadLicense, LicGoto, LicenseTypeOK
<1>5. \A o \in Callers : HoldsIssued(o)' => HoldsIssued(o) \/ licenseStatus # "REVOKED"
    BY DEF ReadLicense
<1>6. Revoked'  BY <1>5, RevokedStays DEF ReadLicense, licRows, licPast
<1> QED BY <1>1, <1>3, <1>4, <1>6

(* The limit is looked at here, and only here. *)
LEMMA DecideKeeps == ASSUME LicenseInv, NEW c \in Callers, DecideActivation(c) PROVE LicenseInv'
<1> USE DEF LicenseInv
<1>0. {"rows", "reactivate", "create"} \subseteq LicensePlaces  BY DEF LicensePlaces
<1>1. CASE activation[device[c]] # "none"
    BY <1>0, <1>1, GoingOnKeeps DEF DecideActivation
<1>2. CASE activation[device[c]] = "none" /\ ~ (Cardinality(Active) < MaxActivations)
    BY <1>0, <1>2, AnsweringKeeps DEF DecideActivation
<1>3. CASE activation[device[c]] = "none" /\ Cardinality(Active) < MaxActivations
  <2>1. LicGoto(c, "rows", "create") /\ UNCHANGED <<device, readStatus>> /\ UNCHANGED <<licRows, licPast>>
      BY <1>3 DEF DecideActivation
  <2>2. LicenseTypeOK'  BY <1>0, <2>1, GotoFacts DEF LicenseTypeOK, licRows, licPast
  <2>3. KnowsIssued'  BY <1>0, <2>1, GotoFacts
  <2>4. \A o \in Callers : HoldsIssued(o)' => HoldsIssued(o)  BY <1>0, <2>1, GotoFacts
  <2>5. Revoked'  BY <2>1, <2>4, RevokedStays DEF licRows, licPast
  <2>6. NewDevicesBounded'
    <3>1. New' \subseteq New  BY <2>1, NewStays DEF licRows, licPast
    <3>2. IsFiniteSet(Active)  BY LicenseConstants, FS_Subset DEF Active
    <3>3. Cardinality(New) <= Cardinality(Active) /\ Cardinality(Active) \in Nat
        BY <3>2, FS_Subset, FS_CardinalityType DEF New
    <3> QED BY <1>3, <3>1, <3>3, Sizes, CallerCount, LicenseConstants DEF NewDevicesBounded, Limit
  <2> QED BY <2>2, <2>3, <2>5, <2>6
<1> QED BY <1>1, <1>2, <1>3

LEMMA ActivationKeeps == ASSUME LicenseInv, NEW c \in Callers, CreateActivation(c) PROVE LicenseInv'
<1> USE DEF LicenseInv
<1>0. {"create", "first"} \subseteq LicensePlaces /\ licPc[c] = "create" /\ device[c] \in Devices
    BY DEF LicensePlaces, CreateActivation, Answer, LicGoto, LicenseTypeOK
<1>1. UNCHANGED <<licenseStatus, revokedAt, moves, licPast>>  BY DEF CreateActivation
<1>2. \/ readStatus[c] = "ISSUED" /\ LicGoto(c, "create", "first") /\ UNCHANGED <<device, readStatus>>
      \/ Answer(c, "create")
    BY DEF CreateActivation
<1>3. /\ licPc' \in [Callers -> LicensePlaces] /\ device' \in [Callers -> Devices]
      /\ readStatus' \in [Callers -> {"none", "ISSUED", "ACTIVE"}]
      /\ Coming' \subseteq Coming \ {c}
      /\ KnowsIssued'
      /\ \A o \in Callers : HoldsIssued(o)' => HoldsIssued(o)
    BY <1>0, <1>2, AnswerFacts, GotoFacts
<1>4. activation' \in [Devices -> {"none", "ACTIVE", "DEACTIVATED"}]
    BY <1>0 DEF CreateActivation, LicenseTypeOK
<1>5. LicenseTypeOK'  BY <1>1, <1>3, <1>4 DEF LicenseTypeOK, licPast
<1>6. Revoked'  BY <1>1, <1>3, RevokedStays DEF licPast
<1>7. NewDevicesBounded'
  <2>1. New' \subseteq New \cup {device[c]}
      BY <1>0, <1>1 DEF New, Active, CreateActivation, LicenseTypeOK, licPast
  <2>2. Cardinality(New') <= Cardinality(New) + 1
    <3>1. IsFiniteSet(New \cup {device[c]}) /\ Cardinality(New \cup {device[c]}) <= Cardinality(New) + 1
        BY Sizes, OneMore
    <3>2. Cardinality(New') <= Cardinality(New \cup {device[c]})  BY <2>1, <3>1, FS_Subset
    <3>3. Cardinality(New \cup {device[c]}) \in Nat  BY <3>1, FS_CardinalityType
    <3> QED BY <3>1, <3>2, <3>3, Sizes
  <2>3. Cardinality(Coming') <= Cardinality(Coming) - 1
    <3>1. c \in Coming  BY <1>0 DEF Coming
    <3>2. IsFiniteSet(Coming \ {c}) /\ Cardinality(Coming \ {c}) = Cardinality(Coming) - 1
        BY <3>1, Sizes, FS_RemoveElement
    <3> QED BY <1>3, <3>2, FS_Subset
  <2> QED BY <2>2, <2>3, Sizes, CallerCount, LicenseConstants DEF NewDevicesBounded, Limit
<1> QED BY <1>3, <1>5, <1>6, <1>7

LEMMA FreeingKeeps ==
    ASSUME LicenseInv, New' \subseteq New,
           activation' \in [Devices -> {"none", "ACTIVE", "DEACTIVATED"}], moves' \in Nat,
           cameBack' \subseteq Devices,
           UNCHANGED <<licenseStatus, revokedAt, crossed>>,
           licCall' = licCall \/ \E c \in Callers, from \in LicensePlaces : Answer(c, from)
    PROVE  LicenseInv'
<1> USE DEF LicenseInv
<1>1. CASE licCall' = licCall
  <2>1. LicenseTypeOK'  BY <1>1 DEF LicenseTypeOK, licCall
  <2>2. Coming' = Coming  BY <1>1 DEF Coming, licCall
  <2>3. NewDevicesBounded'  BY <2>2, NothingComes
  <2>4. KnowsIssued' /\ Revoked'  BY <1>1 DEF KnowsIssued, Revoked, HoldsIssued, licCall
  <2> QED BY <2>1, <2>3, <2>4
<1>2. CASE \E c \in Callers, from \in LicensePlaces : Answer(c, from)
  <2> PICK c \in Callers, from \in LicensePlaces : Answer(c, from)  BY <1>2
  <2>1. LicenseTypeOK'  BY AnswerFacts DEF LicenseTypeOK
  <2>2. NewDevicesBounded'  BY AnswerFacts, NothingComes
  <2>3. KnowsIssued'  BY AnswerFacts
  <2>4. Revoked'  BY AnswerFacts, RevokedStays
  <2> QED BY <2>1, <2>2, <2>3, <2>4
<1> QED BY <1>1, <1>2

LEMMA RevokeKeeps == ASSUME LicenseInv, NEW c \in Callers, RevokeLicense(c) PROVE LicenseInv'
<1> USE DEF LicenseInv
<1>1. /\ Answer(c, "revoke") /\ "revoke" \in LicensePlaces
      /\ licenseStatus' = "REVOKED" /\ revokedAt' = TRUE
      /\ crossed' = (crossed \/ \E o \in Callers : HoldsIssued(o))
      /\ UNCHANGED <<activation, moves, cameBack>>
    BY DEF RevokeLicense, LicensePlaces
<1>2. crossed' \in BOOLEAN  BY <1>1 DEF LicenseTypeOK
<1>3. LicenseTypeOK'  BY <1>1, <1>2, AnswerFacts DEF LicenseTypeOK, LicenseStatuses
<1>4. NewDevicesBounded'  BY <1>1, AnswerFacts, NewStays, NothingComes
<1>5. KnowsIssued'  BY <1>1, AnswerFacts
<1>6. \A o \in Callers : HoldsIssued(o)' => HoldsIssued(o)  BY <1>1, AnswerFacts
<1>7. Revoked'  BY <1>1, <1>6 DEF Revoked
<1> QED BY <1>3, <1>4, <1>5, <1>7

LEMMA CreateLicenseKeeps == ASSUME LicenseInv, NEW c \in Callers, CreateLicense(c) PROVE LicenseInv'
<1> USE DEF LicenseInv
<1>1. Answer(c, "issue") /\ "issue" \in LicensePlaces  BY DEF CreateLicense, LicensePlaces
<1>2. LicenseTypeOK'
    BY <1>1, AnswerFacts DEF CreateLicense, LicenseTypeOK, LicenseStatuses, licPast
<1>3. NewDevicesBounded'  BY <1>1, AnswerFacts, NewStays, NothingComes DEF CreateLicense, licPast
<1>4. KnowsIssued'  BY <1>1, AnswerFacts
<1>5. Revoked'  BY <1>1, AnswerFacts, RevokedStays DEF CreateLicense, licPast
<1> QED BY <1>2, <1>3, <1>4, <1>5

(* Only a call that read ISSUED makes the licence ACTIVE. *)
LEMMA FirstActivationKeeps ==
    ASSUME LicenseInv, NEW c \in Callers, FirstActivation(c) PROVE LicenseInv'
<1> USE DEF LicenseInv
<1>1. Answer(c, "first") /\ "first" \in LicensePlaces /\ licPc[c] = "first"
    BY DEF FirstActivation, Answer, LicGoto, LicensePlaces
<1>2. LicenseTypeOK'
    BY <1>1, AnswerFacts DEF FirstActivation, LicenseTypeOK, LicenseStatuses, licPast
<1>3. NewDevicesBounded'  BY <1>1, AnswerFacts, NewStays, NothingComes DEF FirstActivation, licPast
<1>4. KnowsIssued'  BY <1>1, AnswerFacts
<1>5. HoldsIssued(c)  BY <1>1 DEF KnowsIssued, HoldsIssued
<1>6. Revoked'  BY <1>5 DEF FirstActivation, Revoked, licPast
<1> QED BY <1>2, <1>3, <1>4, <1>6

LEMMA LicenseInvNext == LicenseInv /\ [LicenseNext]_licVars => LicenseInv'
<1> SUFFICES ASSUME LicenseInv, [LicenseNext]_licVars PROVE LicenseInv'  OBVIOUS
<1>p. {"idle", "issue", "rows", "reactivate", "move", "free", "revoke"} \subseteq LicensePlaces
    BY DEF LicensePlaces
<1>1. CASE UNCHANGED licVars
    BY <1>1 DEF LicenseInv, LicenseTypeOK, NewDevicesBounded, New, Active, Coming, KnowsIssued,
       Revoked, HoldsIssued, licVars
<1>2. ASSUME NEW c \in Callers, Issue(c) PROVE LicenseInv'
    BY <1>2, <1>p, GoingOnKeeps DEF Issue
<1>3. ASSUME NEW c \in Callers, CreateLicense(c) PROVE LicenseInv'  BY <1>3, CreateLicenseKeeps
<1>4. ASSUME NEW c \in Callers, NEW d \in Devices, ReadLicense(c, d) PROVE LicenseInv'
    BY <1>4, ReadLicenseKeeps
<1>5. ASSUME NEW c \in Callers, DecideActivation(c) PROVE LicenseInv'  BY <1>5, DecideKeeps
<1>6. ASSUME NEW c \in Callers, Reactivate(c) PROVE LicenseInv'
  <2>1. device[c] \in Devices  BY DEF LicenseInv, LicenseTypeOK
  <2>2. activation' \in [Devices -> {"none", "ACTIVE", "DEACTIVATED"}] /\ cameBack' \subseteq Devices
      BY <1>6, <2>1 DEF Reactivate, LicenseInv, LicenseTypeOK
  <2>3. New' \subseteq New
      BY <1>6, <2>1 DEF Reactivate, New, Active, LicenseInv, LicenseTypeOK
  <2>4. moves' \in Nat  BY <1>6 DEF Reactivate, LicenseInv, LicenseTypeOK
  <2> QED BY <1>6, <1>p, <2>2, <2>3, <2>4, FreeingKeeps DEF Reactivate
<1>7. ASSUME NEW c \in Callers, CreateActivation(c) PROVE LicenseInv'  BY <1>7, ActivationKeeps
<1>8. ASSUME NEW c \in Callers, FirstActivation(c) PROVE LicenseInv'  BY <1>8, FirstActivationKeeps
<1>9. ASSUME NEW c \in Callers, AskMove(c) PROVE LicenseInv'
    BY <1>9, <1>p, GoingOnKeeps DEF AskMove
<1>10. ASSUME NEW c \in Callers, MoveDecision(c) PROVE LicenseInv'
    BY <1>10, <1>p, GoingOnKeeps, AnsweringKeeps DEF MoveDecision
<1>11. ASSUME NEW c \in Callers, MoveAccount(c) PROVE LicenseInv'
  <2>1. activation' \in [Devices -> {"none", "ACTIVE", "DEACTIVATED"}] /\ moves' \in Nat
      BY <1>11 DEF MoveAccount, LicenseInv, LicenseTypeOK
  <2>2. New' \subseteq New  BY <1>11 DEF MoveAccount, New, Active
  <2>3. cameBack' \subseteq Devices  BY <1>11 DEF MoveAccount, licPast, LicenseInv, LicenseTypeOK
  <2> QED BY <1>11, <1>p, <2>1, <2>2, <2>3, FreeingKeeps DEF MoveAccount, licPast
<1>12. ASSUME NEW c \in Callers, Revoke(c) PROVE LicenseInv'
    BY <1>12, <1>p, GoingOnKeeps DEF Revoke
<1>13. ASSUME NEW c \in Callers, RevokeLicense(c) PROVE LicenseInv'  BY <1>13, RevokeKeeps
<1>14. ASSUME NEW c \in Callers, LicenseCrash(c) PROVE LicenseInv'
  <2>1. licPc[c] \in LicensePlaces  BY DEF LicenseInv, LicenseTypeOK
  <2> QED BY <1>14, <2>1, AnsweringKeeps DEF LicenseCrash
<1>15. ASSUME NEW d \in Devices, Deactivate(d) PROVE LicenseInv'
  <2>1. activation' \in [Devices -> {"none", "ACTIVE", "DEACTIVATED"}] /\ moves' \in Nat
        /\ cameBack' \subseteq Devices
      BY <1>15 DEF Deactivate, LicenseInv, LicenseTypeOK, licPast
  <2>2. New' \subseteq New
      BY <1>15 DEF Deactivate, New, Active, LicenseInv, LicenseTypeOK, licPast
  <2> QED BY <1>15, <2>1, <2>2, FreeingKeeps DEF Deactivate, licPast
<1>16. CASE WindowPasses
  <2>1. moves' \in Nat  BY <1>16 DEF WindowPasses, LicenseInv, LicenseTypeOK
  <2>2. New' \subseteq New  BY <1>16, NewStays DEF WindowPasses, licPast
  <2>3. activation' \in [Devices -> {"none", "ACTIVE", "DEACTIVATED"}] /\ cameBack' \subseteq Devices
      BY <1>16 DEF WindowPasses, LicenseInv, LicenseTypeOK, licPast
  <2> QED BY <1>16, <2>1, <2>2, <2>3, FreeingKeeps DEF WindowPasses, licPast
<1> QED BY <1>1, <1>2, <1>3, <1>4, <1>5, <1>6, <1>7, <1>8, <1>9, <1>10, <1>11, <1>12, <1>13,
        <1>14, <1>15, <1>16 DEF LicenseNext, LicenseCall

-----------------------------------------------------------------------------
LEMMA LicenseInvHolds == LicenseSpec => []LicenseInv
BY LicenseInvInit, LicenseInvNext, PTL DEF LicenseSpec

(* Type correctness of the licence, its activations and the calls. *)
THEOREM LicenseTypeCorrect == LicenseSpec => []LicenseTypeOK
<1>1. LicenseInv => LicenseTypeOK  BY DEF LicenseInv
<1> QED BY <1>1, LicenseInvHolds, PTL

(* Devices bound for the first time pass the policy's limit by at most one    *)
(* for every other call that overlaps (licenseService.ts:261).                *)
THEOREM NewDevicesStayWithinLimit == LicenseSpec => []NewDevicesWithinLimit
<1>1. LicenseInv => NewDevicesWithinLimit
    BY Sizes, CallerCount, LicenseConstants
    DEF LicenseInv, NewDevicesBounded, NewDevicesWithinLimit, New, Limit
<1> QED BY <1>1, LicenseInvHolds, PTL

(* A revocation no call that had read ISSUED was in the way of holds for good *)
(* (licenseStateMachine.ts:12).                                               *)
THEOREM RevocationsHold == LicenseSpec => []RevocationHolds
<1>1. LicenseInv => RevocationHolds  BY DEF LicenseInv, Revoked, RevocationHolds
<1> QED BY <1>1, LicenseInvHolds, PTL

-----------------------------------------------------------------------------
(***************************************************************************)
(* The inductive invariant.  A request that found no row and is about to   *)
(* create one is a row to come, and comes about only while there is none.  *)
(* A request that read a row active and is about to write it past due is a *)
(* mail to come, and comes about only while the count starts anew: a row   *)
(* that is active has no failure on it.                                    *)
(***************************************************************************)
Creating == {h \in Handlers : subPc[h] = "write" /\ task[h].kind = "plan" /\ found[h] = 0}
Telling(n) == {h \in Handlers : subPc[h] = "write" /\ task[h].kind = "pastDue" /\ found[h] = n}

RowsToCome == rowCount + Cardinality(Creating) <= Cardinality(Handlers)
MailsToCome == \A n \in RowNumbers : failures[n] + Cardinality(Telling(n)) <= Cardinality(Handlers)
ActiveIsFresh == \A n \in RowNumbers : subscriptions[n].status = "active" => failures[n] = 0
HasRow(h) == subPc[h] = "write" /\ task[h].kind # "plan" => found[h] \in 1 .. rowCount

SubscriptionInv ==
    /\ SubscriptionTypeOK /\ RowsToCome /\ MailsToCome /\ ActiveIsFresh
    /\ \A h \in Handlers : HasRow(h)

-----------------------------------------------------------------------------
LEMMA HandlerCount == IsFiniteSet(Handlers) /\ Cardinality(Handlers) \in Nat /\ Cardinality(Handlers) >= 1
<1>1. IsFiniteSet(Handlers) /\ Handlers # {}  BY SubscriptionConstants
<1> QED BY <1>1, FS_CardinalityType, FS_EmptySet

LEMMA PartSizes ==
    ASSUME NEW S, NEW T, S \subseteq Handlers, T \subseteq Handlers
    PROVE  /\ Cardinality(S) \in Nat /\ Cardinality(T) \in Nat
           /\ Cardinality(T) <= Cardinality(Handlers)
           /\ T \subseteq S => Cardinality(T) <= Cardinality(S)
           /\ \A h \in S : T \subseteq S \ {h} => Cardinality(T) + 1 <= Cardinality(S)
<1>1. IsFiniteSet(S) /\ IsFiniteSet(T) /\ Cardinality(T) <= Cardinality(Handlers)
    BY HandlerCount, FS_Subset
<1>2. Cardinality(S) \in Nat /\ Cardinality(T) \in Nat  BY <1>1, FS_CardinalityType
<1>3. T \subseteq S => Cardinality(T) <= Cardinality(S)  BY <1>1, FS_Subset
<1>4. ASSUME NEW h \in S, T \subseteq S \ {h} PROVE Cardinality(T) + 1 <= Cardinality(S)
  <2>1. IsFiniteSet(S \ {h}) /\ Cardinality(S \ {h}) = Cardinality(S) - 1  BY <1>1, FS_RemoveElement
  <2>2. Cardinality(T) <= Cardinality(S \ {h})  BY <1>4, <2>1, FS_Subset
  <2> QED BY <1>2, <2>1, <2>2
<1> QED BY <1>1, <1>2, <1>3, <1>4

LEMMA CreatingSizes ==
    /\ Cardinality(Creating) \in Nat /\ Cardinality(Creating') \in Nat
    /\ Cardinality(Creating') <= Cardinality(Handlers)
    /\ Creating' \subseteq Creating => Cardinality(Creating') <= Cardinality(Creating)
    /\ \A h \in Creating : Creating' \subseteq Creating \ {h} => Cardinality(Creating') + 1 <= Cardinality(Creating)
<1>1. Creating \subseteq Handlers /\ Creating' \subseteq Handlers  BY DEF Creating
<1> QED BY <1>1, PartSizes

LEMMA TellingSizes ==
    ASSUME NEW n
    PROVE  /\ Cardinality(Telling(n)) \in Nat /\ Cardinality(Telling(n)') \in Nat
           /\ Cardinality(Telling(n)') <= Cardinality(Handlers)
           /\ Telling(n)' \subseteq Telling(n) => Cardinality(Telling(n)') <= Cardinality(Telling(n))
           /\ \A h \in Telling(n) : Telling(n)' \subseteq Telling(n) \ {h} =>
                Cardinality(Telling(n)') + 1 <= Cardinality(Telling(n))
<1>1. Telling(n) \subseteq Handlers /\ Telling(n)' \subseteq Handlers  BY DEF Telling
<1> QED BY <1>1, PartSizes

(* A step after which no request is about to create a row that was not before. *)
LEMMA NoRowComes ==
    ASSUME SubscriptionInv, Creating' \subseteq Creating, rowCount' = rowCount
    PROVE  RowsToCome'
BY CreatingSizes, HandlerCount DEF SubscriptionInv, SubscriptionTypeOK, RowsToCome

(* One after which no request is about to have a mail sent that was not. *)
LEMMA NoMailComes ==
    ASSUME SubscriptionInv, NEW n \in RowNumbers, Telling(n)' \subseteq Telling(n),
           failures'[n] \in {failures[n], 0}
    PROVE  failures'[n] + Cardinality(Telling(n)') <= Cardinality(Handlers)
BY TellingSizes, HandlerCount DEF SubscriptionInv, SubscriptionTypeOK, MailsToCome

(* What a request that ends leaves. *)
LEMMA FinishFacts ==
    ASSUME SubscriptionTypeOK, NEW h \in Handlers, NEW from, Finish(h, from)
    PROVE  /\ subPc' \in [Handlers -> {"idle", "find", "write", "user"}]
           /\ task' \in [Handlers -> Tasks]
           /\ found' \in [Handlers -> 0 .. MaxRows]
           /\ status' \in [Handlers -> Statuses]
           /\ Creating' \subseteq Creating \ {h}
           /\ \A n : Telling(n)' \subseteq Telling(n) \ {h}
           /\ \A g \in Handlers : HasRow(g) /\ rowCount' \in Nat /\ rowCount' >= rowCount => HasRow(g)'
<1>1. NoTask \in Tasks  BY DEF NoTask, Asked, Tasks, Kinds, Plans
<1>2. 0 \in 0 .. MaxRows  BY SubscriptionConstants
<1>3. /\ subPc' \in [Handlers -> {"idle", "find", "write", "user"}] /\ task' \in [Handlers -> Tasks]
      /\ found' \in [Handlers -> 0 .. MaxRows] /\ status' \in [Handlers -> Statuses]
    BY <1>1, <1>2 DEF SubscriptionTypeOK, Finish, Statuses
<1>4. subPc'[h] = "idle" /\ \A g \in Handlers \ {h} :
        subPc'[g] = subPc[g] /\ task'[g] = task[g] /\ found'[g] = found[g]
    BY DEF SubscriptionTypeOK, Finish
<1>5. Creating' \subseteq Creating \ {h}  BY <1>4 DEF Creating
<1>6. \A n : Telling(n)' \subseteq Telling(n) \ {h}  BY <1>4 DEF Telling
<1>7. \A g \in Handlers : HasRow(g) /\ rowCount' \in Nat /\ rowCount' >= rowCount => HasRow(g)'
    BY <1>4 DEF HasRow, SubscriptionTypeOK
<1> QED BY <1>3, <1>5, <1>6, <1>7

-----------------------------------------------------------------------------
LEMMA SubscriptionInvInit == SubscriptionInit => SubscriptionInv
<1> SUFFICES ASSUME SubscriptionInit PROVE SubscriptionInv  OBVIOUS
<1>1. NoTask \in Tasks /\ NoRow \in SubscriptionRows
    BY DEF NoTask, Asked, Tasks, Kinds, Plans, NoRow, SubscriptionRows, Statuses
<1>2. 0 \in 0 .. MaxRows  BY SubscriptionConstants
<1>3. SubscriptionTypeOK
    BY <1>1, <1>2 DEF SubscriptionInit, SubscriptionTypeOK, Plans, Statuses
<1>4. Creating = {} /\ \A n : Telling(n) = {}  BY DEF SubscriptionInit, Creating, Telling
<1>5. RowsToCome  BY <1>4, FS_EmptySet, HandlerCount DEF SubscriptionInit, RowsToCome
<1>6. MailsToCome
  <2> SUFFICES ASSUME NEW n \in RowNumbers
      PROVE  failures[n] + Cardinality(Telling(n)) <= Cardinality(Handlers)
      BY DEF MailsToCome
  <2>1. Telling(n) = {} /\ failures[n] = 0  BY <1>4 DEF SubscriptionInit
  <2>2. Cardinality(Telling(n)) = 0  BY <2>1, FS_EmptySet
  <2> QED BY <2>1, <2>2, HandlerCount
<1>7. ActiveIsFresh /\ \A h \in Handlers : HasRow(h)
    BY DEF SubscriptionInit, ActiveIsFresh, HasRow
<1> QED BY <1>3, <1>5, <1>6, <1>7 DEF SubscriptionInv

(* A request that ends with nothing written. *)
LEMMA EndingKeeps ==
    ASSUME SubscriptionInv, NEW h \in Handlers, NEW from, Finish(h, from),
           UNCHANGED <<subscriptions, rowCount, failures>>,
           atStripe' = atStripe, userPlan' \in Plans
    PROVE  SubscriptionInv'
<1> USE DEF SubscriptionInv
<1>1. SubscriptionTypeOK'  BY FinishFacts DEF SubscriptionTypeOK
<1>2. RowsToCome'  BY FinishFacts, NoRowComes
<1>3. MailsToCome'
  <2> SUFFICES ASSUME NEW n \in RowNumbers
      PROVE  failures'[n] + Cardinality(Telling(n)') <= Cardinality(Handlers)
      BY DEF MailsToCome
  <2> QED BY FinishFacts, NoMailComes
<1>4. ActiveIsFresh'  BY DEF ActiveIsFresh
<1>5. rowCount' \in Nat /\ rowCount' >= rowCount  BY DEF SubscriptionTypeOK
<1>6. \A g \in Handlers : HasRow(g)'  BY <1>5, FinishFacts
<1> QED BY <1>1, <1>2, <1>3, <1>4, <1>6

LEMMA BeginKeeps ==
    ASSUME SubscriptionInv, NEW h \in Handlers, NEW t \in Tasks, Begin(h, t)
    PROVE  SubscriptionInv'
<1> USE DEF SubscriptionInv
<1>1. subPc'[h] = "find" /\ \A g \in Handlers \ {h} :
        subPc'[g] = subPc[g] /\ task'[g] = task[g] /\ found'[g] = found[g]
    BY DEF Begin, SubscriptionTypeOK
<1>2. UNCHANGED <<atStripe, subscriptions, rowCount, userPlan, failures>>  BY DEF Begin, subRows
<1>3. SubscriptionTypeOK'  BY DEF Begin, subRows, SubscriptionTypeOK
<1>4. RowsToCome'
  <2>1. Creating' \subseteq Creating  BY <1>1 DEF Creating
  <2> QED BY <1>2, <2>1, NoRowComes
<1>5. MailsToCome'
  <2> SUFFICES ASSUME NEW n \in RowNumbers
      PROVE  failures'[n] + Cardinality(Telling(n)') <= Cardinality(Handlers)
      BY DEF MailsToCome
  <2>1. Telling(n)' \subseteq Telling(n)  BY <1>1 DEF Telling
  <2> QED BY <1>2, <2>1, NoMailComes
<1>6. ActiveIsFresh'  BY <1>2 DEF ActiveIsFresh
<1>7. \A g \in Handlers : HasRow(g)'  BY <1>1, <1>2 DEF HasRow
<1> QED BY <1>3, <1>4, <1>5, <1>6, <1>7

(* A request that has found row n goes on to write it. *)
FoundRow(h, n) ==
    /\ subPc[h] = "find" /\ subPc' = [subPc EXCEPT ![h] = "write"]
    /\ found' = [found EXCEPT ![h] = n]
    /\ status' \in [Handlers -> Statuses]
    /\ UNCHANGED <<subRows, task>>

LEMMA FoundFacts ==
    ASSUME SubscriptionInv, NEW h \in Handlers, NEW n \in 0 .. rowCount, FoundRow(h, n),
           task[h].kind # "plan" => n # 0
    PROVE  /\ SubscriptionTypeOK' /\ ActiveIsFresh' /\ \A g \in Handlers : HasRow(g)'
           /\ subPc'[h] = "write" /\ found'[h] = n
           /\ \A g \in Handlers \ {h} : subPc'[g] = subPc[g] /\ found'[g] = found[g]
<1> USE DEF SubscriptionInv
<1>1. n \in 0 .. MaxRows  BY SubscriptionConstants DEF SubscriptionTypeOK
<1>2. SubscriptionTypeOK'  BY <1>1 DEF FoundRow, subRows, SubscriptionTypeOK
<1>3. ActiveIsFresh'  BY DEF FoundRow, subRows, ActiveIsFresh
<1>4. subPc'[h] = "write" /\ found'[h] = n
      /\ \A g \in Handlers \ {h} : subPc'[g] = subPc[g] /\ found'[g] = found[g]
    BY DEF FoundRow, SubscriptionTypeOK
<1>5. rowCount' = rowCount /\ rowCount \in Nat /\ task' = task  BY DEF FoundRow, subRows, SubscriptionTypeOK
<1>6. \A g \in Handlers : HasRow(g)'  BY <1>4, <1>5 DEF HasRow
<1> QED BY <1>2, <1>3, <1>4, <1>6

LEMMA FindLatestKeeps == ASSUME SubscriptionInv, NEW h \in Handlers, FindLatest(h) PROVE SubscriptionInv'
<1> USE DEF SubscriptionInv
<1>1. CASE rowCount = 0 /\ task[h].kind # "plan"
  <2>1. Finish(h, "find") /\ subRows' = subRows  BY <1>1 DEF FindLatest, subRows
  <2> QED BY <2>1, EndingKeeps DEF subRows, SubscriptionTypeOK
<1>2. CASE ~ (rowCount = 0 /\ task[h].kind # "plan")
  <2>1. rowCount \in 0 .. rowCount /\ rowCount \in Nat /\ rowCount <= MaxRows
      BY DEF SubscriptionTypeOK
  <2>2. FoundRow(h, rowCount)
    <3>1. task[h].kind = "end" => subscriptions[rowCount].status \in Statuses
      <4> SUFFICES ASSUME task[h].kind = "end" PROVE subscriptions[rowCount].status \in Statuses  OBVIOUS
      <4>1. rowCount \in RowNumbers  BY <1>2, <2>1 DEF RowNumbers
      <4> QED BY <4>1 DEF SubscriptionTypeOK, SubscriptionRows
    <3>2. status' \in [Handlers -> Statuses]
        BY <1>2, <3>1 DEF FindLatest, SubscriptionTypeOK
    <3> QED BY <1>2, <3>2 DEF FindLatest, FoundRow, subRows
  <2>3. task[h].kind # "plan" => rowCount # 0  BY <1>2
  <2>4. /\ SubscriptionTypeOK' /\ ActiveIsFresh' /\ \A g \in Handlers : HasRow(g)'
        /\ subPc'[h] = "write" /\ found'[h] = rowCount
        /\ \A g \in Handlers \ {h} : subPc'[g] = subPc[g] /\ found'[g] = found[g]
      BY <2>1, <2>2, <2>3, FoundFacts
  <2>5. task' = task /\ rowCount' = rowCount /\ failures' = failures  BY <2>2 DEF FoundRow, subRows
  <2>6. RowsToCome'
    <3>1. CASE rowCount = 0  BY <2>5, <3>1, CreatingSizes, HandlerCount DEF RowsToCome
    <3>2. CASE rowCount # 0
      <4>1. Creating' \subseteq Creating  BY <2>4, <2>5, <3>2 DEF Creating
      <4> QED BY <2>5, <4>1, NoRowComes
    <3> QED BY <3>1, <3>2
  <2>7. MailsToCome'
    <3> SUFFICES ASSUME NEW n \in RowNumbers
        PROVE  failures'[n] + Cardinality(Telling(n)') <= Cardinality(Handlers)
        BY DEF MailsToCome
    <3>1. task[h].kind # "pastDue"  BY DEF FindLatest
    <3>2. Telling(n)' \subseteq Telling(n)  BY <2>4, <2>5, <3>1 DEF Telling
    <3> QED BY <2>5, <3>2, NoMailComes
  <2> QED BY <2>4, <2>6, <2>7
<1> QED BY <1>1, <1>2

LEMMA FindByStripeIdKeeps ==
    ASSUME SubscriptionInv, NEW h \in Handlers, FindByStripeId(h) PROVE SubscriptionInv'
<1> USE DEF SubscriptionInv
<1>1. CASE Finish(h, "find")
  <2>1. subRows' = subRows  BY DEF FindByStripeId, subRows
  <2> QED BY <1>1, <2>1, EndingKeeps DEF subRows, SubscriptionTypeOK
<1>2. ASSUME NEW n \in Holder(task[h].stripe),
             task[h].kind = "pastDue" => subscriptions[n].status = "active",
             subPc[h] = "find", subPc' = [subPc EXCEPT ![h] = "write"],
             found' = [found EXCEPT ![h] = n], UNCHANGED <<task, status>>
      PROVE  SubscriptionInv'
  <2>1. n \in 1 .. rowCount /\ n \in RowNumbers /\ n \in 0 .. rowCount
    <3>1. n \in 1 .. rowCount  BY DEF Holder, Saved
    <3>2. rowCount \in Nat /\ rowCount <= MaxRows /\ MaxRows \in Nat
        BY SubscriptionConstants DEF SubscriptionTypeOK
    <3> QED BY <3>1, <3>2 DEF RowNumbers
  <2>2. subRows' = subRows /\ task[h].kind \in {"pastDue", "canceled"}
      BY DEF FindByStripeId, subRows
  <2>3. FoundRow(h, n)  BY <1>2, <2>2 DEF FoundRow, subRows, SubscriptionTypeOK
  <2>4. /\ SubscriptionTypeOK' /\ ActiveIsFresh' /\ \A g \in Handlers : HasRow(g)'
        /\ subPc'[h] = "write" /\ found'[h] = n
        /\ \A g \in Handlers \ {h} : subPc'[g] = subPc[g] /\ found'[g] = found[g]
    <3>1. n # 0  BY <2>1
    <3> QED BY <2>1, <2>3, <3>1, FoundFacts
  <2>5. task' = task /\ rowCount' = rowCount /\ failures' = failures  BY <2>3 DEF FoundRow, subRows
  <2>6. RowsToCome'
    <3>1. Creating' \subseteq Creating  BY <2>2, <2>4, <2>5 DEF Creating
    <3> QED BY <2>5, <3>1, NoRowComes
  <2>7. MailsToCome'
    <3> SUFFICES ASSUME NEW k \in RowNumbers
        PROVE  failures'[k] + Cardinality(Telling(k)') <= Cardinality(Handlers)
        BY DEF MailsToCome
    <3>1. CASE k = n /\ task[h].kind = "pastDue"
      <4>1. failures[k] = 0  BY <1>2, <3>1 DEF ActiveIsFresh
      <4> QED BY <2>5, <4>1, TellingSizes, HandlerCount
    <3>2. CASE ~ (k = n /\ task[h].kind = "pastDue")
      <4>1. Telling(k)' \subseteq Telling(k)  BY <2>4, <2>5, <3>2 DEF Telling
      <4> QED BY <2>5, <4>1, NoMailComes
    <3> QED BY <3>1, <3>2
  <2> QED BY <2>4, <2>6, <2>7
<1> QED BY <1>1, <1>2 DEF FindByStripeId

-----------------------------------------------------------------------------
(* What writing a row leaves. *)
LEMMA WriteRowFacts ==
    ASSUME SubscriptionInv, NEW n \in RowNumbers, NEW row \in SubscriptionRows, WriteRow(n, row)
    PROVE  /\ subscriptions' \in [RowNumbers -> SubscriptionRows]
           /\ failures' \in [RowNumbers -> Nat]
           /\ ActiveIsFresh'
           /\ \A k \in RowNumbers : failures'[k] \in {failures[k], 0}
BY DEF SubscriptionInv, SubscriptionTypeOK, WriteRow, ActiveIsFresh

LEMMA WithStatusType ==
    ASSUME NEW row \in SubscriptionRows, NEW s \in Statuses
    PROVE  WithStatus(row, s) \in SubscriptionRows /\ WithStatus(row, s).status = s
BY DEF WithStatus, SubscriptionRows

LEMMA PlannedType ==
    ASSUME NEW row \in SubscriptionRows, NEW t \in Tasks
    PROVE  Planned(row, t) \in SubscriptionRows
BY DEF Planned, SubscriptionRows, Tasks, Statuses

LEMMA WritePlanKeeps == ASSUME SubscriptionInv, NEW h \in Handlers, WritePlan(h) PROVE SubscriptionInv'
<1> USE DEF SubscriptionInv
<1>1. CASE Taken(task[h], found[h])
  <2>1. Finish(h, "write") /\ UNCHANGED <<subscriptions, rowCount, failures, atStripe, userPlan>>
      BY <1>1 DEF WritePlan
  <2> QED BY <2>1, EndingKeeps DEF SubscriptionTypeOK
<1>2. CASE ~ Taken(task[h], found[h])
  <2>1. /\ subPc[h] = "write" /\ subPc' = [subPc EXCEPT ![h] = "user"]
        /\ task' = [task EXCEPT ![h] = NewPlan(task[h].plan, NoId, NoId)]
        /\ found' = [found EXCEPT ![h] = 0]
        /\ UNCHANGED <<status, atStripe, userPlan>>
        /\ task[h].kind = "plan"
      BY <1>2 DEF WritePlan
  <2>2. task[h] \in Tasks /\ found[h] \in 0 .. MaxRows  BY DEF SubscriptionTypeOK
  <2>3. subPc'[h] = "user" /\ \A g \in Handlers \ {h} :
          subPc'[g] = subPc[g] /\ task'[g] = task[g] /\ found'[g] = found[g]
      BY <2>1 DEF SubscriptionTypeOK
  <2>4. Creating' \subseteq Creating \ {h} /\ \A n : Telling(n)' \subseteq Telling(n)
      BY <2>3 DEF Creating, Telling
  <2>5. /\ rowCount' \in 0 .. MaxRows /\ rowCount' >= rowCount /\ RowsToCome'
        /\ \E n \in RowNumbers, row \in SubscriptionRows : WriteRow(n, row)
    <3>1. CASE found[h] # 0
      <4>1. WriteRow(found[h], Planned(subscriptions[found[h]], task[h])) /\ rowCount' = rowCount
          BY <1>2, <3>1 DEF WritePlan
      <4>2. found[h] \in RowNumbers  BY <2>2, <3>1 DEF RowNumbers
      <4>3. subscriptions[found[h]] \in SubscriptionRows  BY <4>2 DEF SubscriptionTypeOK
      <4>4. Planned(subscriptions[found[h]], task[h]) \in SubscriptionRows  BY <2>2, <4>3, PlannedType
      <4>5. RowsToCome'  BY <2>4, <4>1, NoRowComes
      <4>6. rowCount' \in 0 .. MaxRows /\ rowCount' >= rowCount  BY <4>1 DEF SubscriptionTypeOK
      <4> QED BY <4>1, <4>2, <4>4, <4>5, <4>6
    <3>2. CASE found[h] = 0
      <4>1. rowCount < MaxRows /\ rowCount' = rowCount + 1 /\ WriteRow(rowCount + 1, Planned(NoRow, task[h]))
          BY <1>2, <3>2 DEF WritePlan
      <4>2. rowCount + 1 \in RowNumbers /\ rowCount \in Nat /\ rowCount' \in 0 .. MaxRows
          BY <4>1, SubscriptionConstants DEF RowNumbers, SubscriptionTypeOK
      <4>3. NoRow \in SubscriptionRows  BY DEF NoRow, SubscriptionRows, Plans, Statuses
      <4>4. Planned(NoRow, task[h]) \in SubscriptionRows  BY <2>2, <4>3, PlannedType
      <4>5. RowsToCome'
        <5>1. h \in Creating  BY <2>1, <3>2 DEF Creating
        <5>2. Cardinality(Creating') + 1 <= Cardinality(Creating)  BY <2>4, <5>1, CreatingSizes
        <5> QED BY <4>1, <4>2, <5>2, CreatingSizes, HandlerCount DEF RowsToCome
      <4> QED BY <4>1, <4>2, <4>4, <4>5
    <3> QED BY <3>1, <3>2
  <2> PICK n \in RowNumbers, row \in SubscriptionRows : WriteRow(n, row)  BY <2>5
  <2>6. NewPlan(task[h].plan, NoId, NoId) \in Tasks  BY <2>2 DEF NewPlan, Tasks, Kinds
  <2>7. 0 \in 0 .. MaxRows  BY SubscriptionConstants
  <2>8. SubscriptionTypeOK'
      BY <2>1, <2>5, <2>6, <2>7, WriteRowFacts DEF SubscriptionTypeOK
  <2>9. MailsToCome'
    <3> SUFFICES ASSUME NEW k \in RowNumbers
        PROVE  failures'[k] + Cardinality(Telling(k)') <= Cardinality(Handlers)
        BY DEF MailsToCome
    <3> QED BY <2>4, WriteRowFacts, NoMailComes
  <2>10. \A g \in Handlers : HasRow(g)'
      BY <2>3, <2>5 DEF HasRow, SubscriptionTypeOK
  <2> QED BY <2>5, <2>8, <2>9, <2>10, WriteRowFacts
<1> QED BY <1>1, <1>2

LEMMA WriteFlagKeeps == ASSUME SubscriptionInv, NEW h \in Handlers, WriteFlag(h) PROVE SubscriptionInv'
<1> USE DEF SubscriptionInv
<1>1. Finish(h, "write") /\ task[h].kind \in {"end", "resume"} /\ UNCHANGED <<atStripe, rowCount, userPlan>>
    BY DEF WriteFlag
<1>2. found[h] \in RowNumbers
    BY <1>1 DEF Finish, HasRow, RowNumbers, SubscriptionTypeOK
<1>3. PICK row \in SubscriptionRows : WriteRow(found[h], row)
  <2>1. subscriptions[found[h]] \in SubscriptionRows  BY <1>2 DEF SubscriptionTypeOK
  <2>2. status[h] \in Statuses /\ "active" \in Statuses  BY DEF SubscriptionTypeOK, Statuses
  <2> QED BY <2>1, <2>2, WithStatusType DEF WriteFlag
<1>4. SubscriptionTypeOK'
    BY <1>1, <1>2, <1>3, FinishFacts, WriteRowFacts DEF SubscriptionTypeOK
<1>5. RowsToCome'  BY <1>1, FinishFacts, NoRowComes
<1>6. MailsToCome'
  <2> SUFFICES ASSUME NEW n \in RowNumbers
      PROVE  failures'[n] + Cardinality(Telling(n)') <= Cardinality(Handlers)
      BY DEF MailsToCome
  <2> QED BY <1>1, <1>2, <1>3, FinishFacts, WriteRowFacts, NoMailComes
<1>7. rowCount' \in Nat /\ rowCount' >= rowCount  BY <1>1 DEF SubscriptionTypeOK
<1>8. \A g \in Handlers : HasRow(g)'  BY <1>1, <1>7, FinishFacts
<1> QED BY <1>2, <1>3, <1>4, <1>5, <1>6, <1>8, WriteRowFacts

LEMMA WriteStatusKeeps == ASSUME SubscriptionInv, NEW h \in Handlers, WriteStatus(h) PROVE SubscriptionInv'
<1> USE DEF SubscriptionInv
<1> DEFINE n == found[h]
<1>1. /\ Finish(h, "write") /\ task[h].kind \in {"pastDue", "canceled"}
      /\ UNCHANGED <<atStripe, rowCount, userPlan>>
    BY DEF WriteStatus
<1>2. n \in RowNumbers
    BY <1>1 DEF Finish, HasRow, RowNumbers, SubscriptionTypeOK
<1>3. PICK s \in {"past_due", "canceled"} :
        subscriptions' = [subscriptions EXCEPT ![n] = WithStatus(subscriptions[n], s)]
    BY DEF WriteStatus
<1>4. subscriptions[n] \in SubscriptionRows /\ s \in Statuses  BY <1>2 DEF SubscriptionTypeOK, Statuses
<1>5. WithStatus(subscriptions[n], s) \in SubscriptionRows
      /\ WithStatus(subscriptions[n], s).status # "active"
    BY <1>4, WithStatusType
<1>6. failures' = IF task[h].kind = "pastDue" THEN [failures EXCEPT ![n] = failures[n] + 1] ELSE failures
    BY DEF WriteStatus
<1>7. failures' \in [RowNumbers -> Nat]  BY <1>2, <1>6 DEF SubscriptionTypeOK
<1>8. subscriptions' \in [RowNumbers -> SubscriptionRows]
    BY <1>2, <1>3, <1>5 DEF SubscriptionTypeOK
<1>9. SubscriptionTypeOK'  BY <1>1, <1>7, <1>8, FinishFacts DEF SubscriptionTypeOK
<1>10. RowsToCome'  BY <1>1, FinishFacts, NoRowComes
<1>11. MailsToCome'
  <2> SUFFICES ASSUME NEW k \in RowNumbers
      PROVE  failures'[k] + Cardinality(Telling(k)') <= Cardinality(Handlers)
      BY DEF MailsToCome
  <2>1. Telling(k)' \subseteq Telling(k) \ {h}  BY <1>1, FinishFacts
  <2>2. CASE k = n /\ task[h].kind = "pastDue"
    <3>1. h \in Telling(k)  BY <1>1, <2>2 DEF Telling, Finish
    <3>2. Cardinality(Telling(k)') + 1 <= Cardinality(Telling(k))  BY <2>1, <3>1, TellingSizes
    <3>3. failures'[k] = failures[k] + 1 /\ failures[k] \in Nat
        BY <1>2, <1>6, <2>2 DEF SubscriptionTypeOK
    <3>4. failures[k] + Cardinality(Telling(k)) <= Cardinality(Handlers)  BY DEF MailsToCome
    <3> QED BY <3>2, <3>3, <3>4, TellingSizes, HandlerCount
  <2>3. CASE ~ (k = n /\ task[h].kind = "pastDue")
    <3>1. failures'[k] = failures[k]  BY <1>6, <2>3 DEF SubscriptionTypeOK
    <3> QED BY <2>1, <3>1, NoMailComes
  <2> QED BY <2>2, <2>3
<1>12. ActiveIsFresh'
  <2> SUFFICES ASSUME NEW k \in RowNumbers, subscriptions'[k].status = "active" PROVE failures'[k] = 0
      BY DEF ActiveIsFresh
  <2>1. k # n  BY <1>2, <1>3, <1>5 DEF SubscriptionTypeOK
  <2>2. subscriptions'[k] = subscriptions[k] /\ failures'[k] = failures[k]
      BY <1>3, <1>6, <2>1 DEF SubscriptionTypeOK
  <2> QED BY <2>2 DEF ActiveIsFresh
<1>13. rowCount' \in Nat /\ rowCount' >= rowCount  BY <1>1 DEF SubscriptionTypeOK
<1>14. \A g \in Handlers : HasRow(g)'  BY <1>1, <1>13, FinishFacts
<1> QED BY <1>9, <1>10, <1>11, <1>12, <1>14

LEMMA SubscriptionInvNext == SubscriptionInv /\ [SubscriptionNext]_subVars => SubscriptionInv'
<1> SUFFICES ASSUME SubscriptionInv, [SubscriptionNext]_subVars PROVE SubscriptionInv'  OBVIOUS
<1>t. ASSUME NEW k \in Kinds, NEW s \in StripeIds \cup {NoId} PROVE Asked(k, s) \in Tasks
    BY DEF Asked, Tasks, Plans
<1>n. ASSUME NEW plan \in Plans, NEW s \in StripeIds \cup {NoId}, NEW i \in Invoices \cup {NoId}
      PROVE  NewPlan(plan, s, i) \in Tasks
    BY DEF NewPlan, Tasks, Kinds
<1>1. CASE UNCHANGED subVars
    BY <1>1 DEF SubscriptionInv, SubscriptionTypeOK, RowsToCome, Creating, MailsToCome, Telling,
       ActiveIsFresh, HasRow, subVars
<1>2. ASSUME NEW h \in Handlers, Request(h) PROVE SubscriptionInv'
  <2>1. PICK t \in Tasks : Begin(h, t)
    <3>1. ASSUME NEW s \in StripeIds, PaymentEvent(h, s) \/ FailedEvent(h, s) \/ DeletedEvent(h, s)
          PROVE  \E t \in Tasks : Begin(h, t)
        BY <3>1, <1>t, <1>n DEF PaymentEvent, FailedEvent, DeletedEvent, Kinds, Plans
    <3>2. ASSUME NEW i \in Invoices, InvoicePaid(h, i) PROVE \E t \in Tasks : Begin(h, t)
        BY <3>2, <1>n DEF InvoicePaid, Plans
    <3>3. ASSUME ChangePlan(h) \/ \E plan \in Plans : OverridePlan(h, plan)
          PROVE  \E t \in Tasks : Begin(h, t)
        BY <3>3, <1>n DEF ChangePlan, OverridePlan, Plans
    <3>4. ASSUME NEW ending \in BOOLEAN, SetCancelAtPeriodEnd(h, ending)
          PROVE  \E t \in Tasks : Begin(h, t)
        BY <3>4, <1>t DEF SetCancelAtPeriodEnd, Kinds
    <3> QED BY <1>2, <3>1, <3>2, <3>3, <3>4 DEF Request
  <2> QED BY <2>1, BeginKeeps
<1>3. ASSUME NEW h \in Handlers, FindLatest(h) PROVE SubscriptionInv'  BY <1>3, FindLatestKeeps
<1>4. ASSUME NEW h \in Handlers, FindByStripeId(h) PROVE SubscriptionInv'  BY <1>4, FindByStripeIdKeeps
<1>5. ASSUME NEW h \in Handlers, WritePlan(h) PROVE SubscriptionInv'  BY <1>5, WritePlanKeeps
<1>6. ASSUME NEW h \in Handlers, WriteUserPlan(h) PROVE SubscriptionInv'
  <2>1. task[h].plan \in Plans  BY DEF SubscriptionInv, SubscriptionTypeOK, Tasks
  <2> QED BY <1>6, <2>1, EndingKeeps DEF WriteUserPlan
<1>7. ASSUME NEW h \in Handlers, WriteFlag(h) PROVE SubscriptionInv'  BY <1>7, WriteFlagKeeps
<1>8. ASSUME NEW h \in Handlers, WriteStatus(h) PROVE SubscriptionInv'  BY <1>8, WriteStatusKeeps
<1>9. ASSUME NEW h \in Handlers, SubscriptionCrash(h) PROVE SubscriptionInv'
    BY <1>9, EndingKeeps DEF SubscriptionCrash, subRows, SubscriptionInv, SubscriptionTypeOK
<1>10. ASSUME NEW s \in StripeIds, NEW to \in {"live", "ended"}, StripeMoves(s, to) PROVE SubscriptionInv'
  <2>1. atStripe' \in [StripeIds -> {"none", "live", "ended"}]
      BY <1>10 DEF StripeMoves, SubscriptionInv, SubscriptionTypeOK
  <2> QED BY <1>10, <2>1
      DEF StripeMoves, SubscriptionInv, SubscriptionTypeOK, RowsToCome, Creating, MailsToCome, Telling,
          ActiveIsFresh, HasRow
<1> QED BY <1>1, <1>2, <1>3, <1>4, <1>5, <1>6, <1>7, <1>8, <1>9, <1>10 DEF SubscriptionNext

-----------------------------------------------------------------------------
LEMMA SubscriptionInvHolds == SubscriptionSpec => []SubscriptionInv
BY SubscriptionInvInit, SubscriptionInvNext, PTL DEF SubscriptionSpec

(* Type correctness of the subscription rows and the requests. *)
THEOREM SubscriptionTypeCorrect == SubscriptionSpec => []SubscriptionTypeOK
<1>1. SubscriptionInv => SubscriptionTypeOK  BY DEF SubscriptionInv
<1> QED BY <1>1, SubscriptionInvHolds, PTL

(* A user never has more subscriptions than requests overlapped the creation  *)
(* of the first (SubscriptionActionService.ts:128).                           *)
THEOREM SubscriptionsAreBounded == SubscriptionSpec => []SubscriptionsBounded
<1>1. SubscriptionInv => SubscriptionsBounded
    BY CreatingSizes, HandlerCount
    DEF SubscriptionInv, SubscriptionTypeOK, RowsToCome, SubscriptionsBounded
<1> QED BY <1>1, SubscriptionInvHolds, PTL

(* Between two times a row is active, its buyer is told of a failed payment   *)
(* once, and once more for each delivery that overlaps (:182).                *)
THEOREM FailureMailsAreBounded == SubscriptionSpec => []FailureMailsBounded
<1>1. SubscriptionInv => FailureMailsBounded
    BY TellingSizes, HandlerCount
    DEF SubscriptionInv, SubscriptionTypeOK, MailsToCome, FailureMailsBounded
<1> QED BY <1>1, SubscriptionInvHolds, PTL
=============================================================================
