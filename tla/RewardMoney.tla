---------------------------- MODULE RewardMoney ----------------------------
(***************************************************************************)
(* One reward contract from its payment to the last withdrawal             *)
(* (services/rewards): fulfilment after a verified payment, the daily      *)
(* sweep, cancellation, a member's withdrawal and the admin's decision.    *)
(* A step is one statement or one transaction; a worker may die between    *)
(* any two.                                                                *)
(*                                                                         *)
(* Amounts are sets: the rebate is its instalments, a reserve or ledger    *)
(* entry the instalments it stands for, a payout the items it pays.        *)
(* Whether a user is eligible (Pro plan, identity, minimum amount,         *)
(* withdrawals switched on) may change at any time: each look at it        *)
(* answers either way.                                                     *)
(***************************************************************************)
EXTENDS Integers, FiniteSets

CONSTANTS
    Workers,      \* invocations that may overlap
    Roles,        \* what each of them runs
    Terms,        \* number of instalments
    Levels,       \* referral levels paid on the sale
    PayoutIds,    \* bound: withdrawals asked for
    NoPayout      \* payoutId null

Instalments == 1 .. Terms
Items == Instalments \cup Levels
AllRoles == {"fulfil", "sweep", "cancel", "withdraw", "decide"}

ASSUME RewardConstants ==
    /\ Roles \in [Workers -> SUBSET AllRoles]
    /\ Terms \in Nat \ {0}
    /\ Instalments \cap Levels = {}
    /\ NoPayout \notin PayoutIds

VARIABLES
    voided,     \* the Purchase is REFUNDED or REVERSED
    months,     \* instalments 1..months are due; Terms + 1: the term is over
    checkout, contract, document,   \* RewardCheckout, RewardContract, RewardContractDocument
    item, payoutId,                 \* RebateInstallment and ReferralCommission: status, payoutId
    released, returned,             \* reserve entries RELEASED (with its ledger entry) and RETURNED
    credited,                       \* COMMISSION_RELEASED ledger entries
    payout, amount, settled,        \* RewardPayout: status, amountCents; PAYOUT_PAID ledger entries
    rwPc, sweeping, got, saw, next, able, hand  \* of each worker: place, whether in the sweep,
                                    \* rows read, status read, status to write, facts, payout or commission at hand

moneyRows == <<payoutId, credited, payout, amount, settled>>
reserve   == <<released, returned>>
rwRows    == <<voided, months, checkout, contract, document, item, moneyRows, reserve>>
rwLocals  == <<sweeping, got, saw, next, able, hand>>
rwVars    == <<voided, months, checkout, contract, document, item, payoutId, released, returned,
               credited, payout, amount, settled, rwPc, sweeping, got, saw, next, able, hand>>

ContractStatuses == {"none", "PENDING_DOCUMENT", "ACTIVE", "FROZEN", "ENDED", "REVOKED"}
ItemStatuses == {"none", "SCHEDULED", "FROZEN", "PENDING", "RELEASED", "CANCELLED", "REVERSED", "PAID"}
PayoutStatuses == {"none", "REQUESTED", "PAID", "REJECTED"}
RewardPlaces == {"idle", "create", "failed", "document", "existing", "activate", "issue",
                 "open", "revoke", "due", "contract", "settle", "taken", "takeback",
                 "pending", "mature", "credit", "statuses", "refresh", "collect", "claim", "pay", "reject"}

Open == {i \in Instalments : item[i] \in {"SCHEDULED", "FROZEN"}}
Due == {i \in Open : i <= months}
Unrequested == {i \in Items : item[i] = "RELEASED" /\ payoutId[i] = NoPayout}
Wallets == {Instalments} \cup {{l} : l \in Levels}   \* the buyer's items, each partner's

RewardInit ==
    /\ voided = FALSE /\ months = 0
    /\ checkout = "PENDING" /\ contract = "none" /\ document = FALSE
    /\ item = [i \in Items |-> "none"]
    /\ payoutId = [i \in Items |-> NoPayout]
    /\ released = {} /\ returned = {} /\ credited = {}
    /\ payout = [p \in PayoutIds |-> "none"]
    /\ amount = [p \in PayoutIds |-> {}]
    /\ settled = {}
    /\ rwPc = [w \in Workers |-> "idle"]
    /\ sweeping = [w \in Workers |-> FALSE]
    /\ got = [w \in Workers |-> {}]
    /\ saw = [w \in Workers |-> "none"]
    /\ next = [w \in Workers |-> "none"]
    /\ able = [w \in Workers |-> FALSE]
    /\ hand = [w \in Workers |-> NoPayout]

At(w, place) == rwPc[w] = place
Moved(w, place) == rwPc' = [rwPc EXCEPT ![w] = place]
Read(f, w, v) == [f EXCEPT ![w] = v]
Marked(S, status) == [i \in Items |-> IF i \in S THEN status ELSE item[i]]

Stop(w) ==
    /\ Moved(w, "idle")
    /\ sweeping' = Read(sweeping, w, FALSE) /\ got' = Read(got, w, {})
    /\ saw' = Read(saw, w, "none") /\ next' = Read(next, w, "none")
    /\ able' = Read(able, w, FALSE) /\ hand' = Read(hand, w, NoPayout)

(* To the next place, forgetting what was read. *)
Onward(w, place) ==
    /\ Moved(w, place)
    /\ got' = Read(got, w, {}) /\ saw' = Read(saw, w, "none")
    /\ next' = Read(next, w, "none") /\ able' = Read(able, w, FALSE)
    /\ UNCHANGED <<sweeping, hand>>

-----------------------------------------------------------------------------
(* fulfilRewardCheckout(): the checkout as it is read; a FULFILLED one goes   *)
(* straight to its document.                                                  *)
Fulfil(w) ==
    /\ "fulfil" \in Roles[w] /\ At(w, "idle")
    /\ Moved(w, IF checkout = "FULFILLED" THEN "document" ELSE "create")
    /\ UNCHANGED <<rwRows, rwLocals>>

(* The transaction; the unique purchaseId makes a second contract fail. Each  *)
(* commission is RELEASED at once, or PENDING when a hold is configured.      *)
CreateContract(w) ==
    /\ At(w, "create")
    /\ IF contract # "none" THEN Stop(w) /\ UNCHANGED rwRows
       ELSE \E status \in {"PENDING", "RELEASED"} :
            /\ contract' = "PENDING_DOCUMENT" /\ checkout' = "FULFILLED"
            /\ item' = [i \in Items |-> IF i \in Instalments THEN "SCHEDULED" ELSE status]
            /\ credited' = IF status = "RELEASED" THEN Levels ELSE {}
            /\ Moved(w, "document")
            /\ UNCHANGED <<voided, months, document, reserve, payoutId, payout, amount, settled, rwLocals>>

(* The transaction throws, the caller records it and answers 200. *)
CreateFails(w) ==
    /\ At(w, "create")
    /\ Moved(w, "failed")
    /\ UNCHANGED <<rwRows, rwLocals>>

MarkCheckoutFailed(w) ==
    /\ At(w, "failed")
    /\ checkout' = IF checkout = "FULFILLED" THEN checkout ELSE "FAILED"
    /\ Stop(w)
    /\ UNCHANGED <<voided, months, contract, document, item, moneyRows, reserve>>

(* issueContractDocument(): the contract, then its document, are read ...     *)
DocumentContract(w) ==
    /\ At(w, "document")
    /\ saw' = Read(saw, w, contract) /\ Moved(w, "existing")
    /\ UNCHANGED <<rwRows, sweeping, got, next, able, hand>>

DocumentExisting(w) ==
    /\ At(w, "existing")
    /\ IF document /\ saw[w] # "PENDING_DOCUMENT" THEN Stop(w)
       ELSE Onward(w, IF document THEN "activate" ELSE "issue")
    /\ UNCHANGED rwRows

(* ... and the contract is set ACTIVE by its id, whatever it is by then.      *)
Activate(w) ==
    /\ At(w, "activate")
    /\ contract' = "ACTIVE"
    /\ Stop(w)
    /\ UNCHANGED <<voided, months, checkout, document, item, moneyRows, reserve>>

(* The unique contractId makes a second document fail and takes the rest back. *)
IssueDocument(w) ==
    /\ At(w, "issue")
    /\ document' = TRUE
    /\ contract' = IF document THEN contract ELSE "ACTIVE"
    /\ Stop(w)
    /\ UNCHANGED <<voided, months, checkout, item, moneyRows, reserve>>

-----------------------------------------------------------------------------
(* The rows of a list are handled one by one at `here', then comes `after'.   *)
Loop(w, S, here, after) ==
    IF S = {} THEN Onward(w, after)
    ELSE Moved(w, here) /\ got' = Read(got, w, S) /\ UNCHANGED <<sweeping, saw, next, able, hand>>

AfterRow(w, i, after) ==
    IF got[w] = {i} THEN Onward(w, after)
    ELSE got' = Read(got, w, got[w] \ {i}) /\ UNCHANGED <<rwPc, sweeping, saw, next, able, hand>>

(* runRewardsSweep() 1: a live contract whose purchase is voided is cancelled. *)
Sweep(w) ==
    /\ "sweep" \in Roles[w] /\ At(w, "idle")
    /\ Moved(w, IF voided /\ contract \in {"ACTIVE", "FROZEN", "PENDING_DOCUMENT"} THEN "open" ELSE "due")
    /\ sweeping' = Read(sweeping, w, TRUE)
    /\ UNCHANGED <<rwRows, got, saw, next, able, hand>>

(* The admin's POST contracts/[id]/cancel. *)
AskCancel(w) ==
    /\ "cancel" \in Roles[w] /\ At(w, "idle")
    /\ Moved(w, "open")
    /\ UNCHANGED <<rwRows, rwLocals>>

CancelReturns(w) == IF sweeping[w] THEN Onward(w, "due") ELSE Stop(w)

(* cancelContractTx(): what it reads ...                                      *)
ReadOpen(w) ==
    /\ At(w, "open")
    /\ IF contract \in {"none", "REVOKED"} THEN CancelReturns(w)
       ELSE /\ got' = Read(got, w, Open) /\ Moved(w, "revoke")
            /\ UNCHANGED <<sweeping, saw, next, able, hand>>
    /\ UNCHANGED rwRows

(* ... and what it commits: the instalments by id, whatever they are by then; *)
(* a second RETURNED entry has the key of the first and undoes it all.        *)
CancelContract(w) ==
    /\ At(w, "revoke")
    /\ IF got[w] # {} /\ returned # {} THEN UNCHANGED <<item, returned, contract>>
       ELSE /\ item' = [i \in Items |->
                          IF i \in got[w] THEN "CANCELLED"
                          ELSE IF i \in Levels /\ item[i] = "PENDING" THEN "REVERSED" ELSE item[i]]
            /\ returned' = returned \cup got[w]
            /\ contract' = "REVOKED"
    /\ CancelReturns(w)
    /\ UNCHANGED <<voided, months, checkout, document, moneyRows, released>>

(* 2: the due instalments, then their contract and the buyer's facts.         *)
ReadDue(w) ==
    /\ At(w, "due")
    /\ Loop(w, Due, "contract", "taken")
    /\ UNCHANGED rwRows

ReadContract(w) ==
    /\ At(w, "contract")
    /\ saw' = Read(saw, w, contract)
    /\ \E facts \in BOOLEAN : able' = Read(able, w, facts)
    /\ Moved(w, "settle")
    /\ UNCHANGED <<rwRows, sweeping, got, next, hand>>

(* decideInstalment(); every update is guarded by the status it expects.      *)
Decision(w) ==
    IF saw[w] = "REVOKED" THEN "CANCELLED"
    ELSE IF saw[w] = "PENDING_DOCUMENT" \/ ~able[w] THEN "FROZEN" ELSE "RELEASED"

Settleable(decision, i) ==
    /\ item[i] \in (IF decision = "FROZEN" THEN {"SCHEDULED"} ELSE {"SCHEDULED", "FROZEN"})
    /\ decision = "RELEASED" => i \notin released

Bug_SettleInstalment(w, i) ==
    /\ At(w, "settle") /\ i \in got[w] \cap Instalments
    /\ item' = Marked({i}, Decision(w))
    /\ released' = IF Decision(w) = "RELEASED" THEN released \cup {i} ELSE released
    /\ AfterRow(w, i, "taken")
    /\ UNCHANGED <<voided, months, checkout, contract, document, moneyRows, returned>>

SettleInstalment(w, i) ==
    /\ At(w, "settle") /\ i \in got[w] \cap Instalments
    /\ LET moved == {j \in {i} : Settleable(Decision(w), j)} IN
       /\ item' = Marked(moved, Decision(w))
       /\ released' = IF Decision(w) = "RELEASED" THEN released \cup moved ELSE released
    /\ AfterRow(w, i, "taken")
    /\ UNCHANGED <<voided, months, checkout, contract, document, moneyRows, returned>>

(* 2b: a commission nobody asked for is taken back from a voided purchase.    *)
ReadTaken(w) ==
    /\ At(w, "taken")
    /\ Loop(w, IF voided THEN Unrequested \cap Levels ELSE {}, "takeback", "pending")
    /\ UNCHANGED rwRows

TakeBack(w, l) ==
    /\ At(w, "takeback") /\ l \in got[w]
    /\ item' = Marked({l} \cap Unrequested, "REVERSED")
    /\ AfterRow(w, l, "pending")
    /\ UNCHANGED <<voided, months, checkout, contract, document, moneyRows, reserve>>

(* 3: pending commissions whose hold is over, and whether they are voided.    *)
ReadPending(w) ==
    /\ At(w, "pending")
    /\ \E S \in SUBSET {l \in Levels : item[l] = "PENDING"} :
         IF S = {} THEN Onward(w, "statuses")
         ELSE /\ Moved(w, "mature") /\ got' = Read(got, w, S)
              /\ saw' = Read(saw, w, IF voided THEN "REVERSED" ELSE "RELEASED")
              /\ UNCHANGED <<sweeping, next, able, hand>>
    /\ UNCHANGED rwRows

Mature(w, l) ==
    /\ At(w, "mature") /\ l \in got[w]
    /\ IF item[l] = "PENDING" /\ saw[w] = "RELEASED"
       THEN Moved(w, "credit") /\ hand' = Read(hand, w, l) /\ UNCHANGED <<sweeping, got, saw, next, able>>
       ELSE AfterRow(w, l, "statuses")
    /\ item' = IF item[l] = "PENDING" THEN Marked({l}, saw[w]) ELSE item
    /\ UNCHANGED <<voided, months, checkout, contract, document, moneyRows, reserve>>

(* The released commission's ledger entry is a statement of its own. *)
Credit(w) ==
    /\ At(w, "credit")
    /\ credited' = credited \cup {hand[w]}
    /\ got' = Read(got, w, got[w] \ {hand[w]})
    /\ hand' = Read(hand, w, NoPayout)
    /\ Moved(w, IF got[w] = {hand[w]} THEN "statuses" ELSE "mature")
    /\ UNCHANGED <<voided, months, checkout, contract, document, item, payoutId, payout, amount,
                   settled, reserve, sweeping, saw, next, able>>

(* 4: contractStatusAfter() of what is read, written if the status still is.  *)
StatusAfter ==
    IF \E i \in Instalments : item[i] = "FROZEN" THEN "FROZEN"
    ELSE IF months > Terms /\ \A i \in Instalments : item[i] # "SCHEDULED" THEN "ENDED"
    ELSE "ACTIVE"

ReadStatuses(w) ==
    /\ At(w, "statuses")
    /\ IF contract \in {"ACTIVE", "FROZEN"} /\ StatusAfter # contract
       THEN /\ Moved(w, "refresh")
            /\ saw' = Read(saw, w, contract) /\ next' = Read(next, w, StatusAfter)
            /\ UNCHANGED <<sweeping, got, able, hand>>
       ELSE Stop(w)
    /\ UNCHANGED rwRows

Refresh(w) ==
    /\ At(w, "refresh")
    /\ contract' = IF contract = saw[w] THEN next[w] ELSE contract
    /\ Stop(w)
    /\ UNCHANGED <<voided, months, checkout, document, item, moneyRows, reserve>>

-----------------------------------------------------------------------------
(* requestWithdrawal(): no request of the member is open ...                  *)
RequestWithdrawal(w) ==
    /\ "withdraw" \in Roles[w] /\ At(w, "idle")
    /\ \E wallet \in Wallets :
         /\ \A p \in PayoutIds : payout[p] = "REQUESTED" => ~ amount[p] \subseteq wallet
         /\ got' = Read(got, w, wallet)
    /\ Moved(w, "collect")
    /\ UNCHANGED <<rwRows, sweeping, saw, next, able, hand>>

(* ... what is released and past its hold is summed, for an eligible member ... *)
Collect(w) ==
    /\ At(w, "collect")
    /\ \/ \E S \in SUBSET (got[w] \cap Unrequested) :
            /\ S # {}
            /\ got' = Read(got, w, S) /\ Moved(w, "claim")
            /\ UNCHANGED <<sweeping, saw, next, able, hand>>
       \/ Stop(w)
    /\ UNCHANGED rwRows

Bug_Claim(w) ==
    /\ At(w, "claim")
    /\ \E p \in PayoutIds :
         /\ payout[p] = "none"
         /\ payoutId' = [i \in Items |-> IF i \in got[w] \cap Unrequested THEN p ELSE payoutId[i]]
         /\ payout' = [payout EXCEPT ![p] = "REQUESTED"]
         /\ amount' = [amount EXCEPT ![p] = got[w]]
    /\ Stop(w)
    /\ UNCHANGED <<voided, months, checkout, contract, document, item, credited, settled, reserve>>

(* ... and exactly that is taken: BALANCE_CHANGED undoes the transaction.     *)
Claim(w) ==
    /\ At(w, "claim")
    /\ IF got[w] \subseteq Unrequested
       THEN \E p \in PayoutIds :
            /\ payout[p] = "none"
            /\ payoutId' = [i \in Items |-> IF i \in got[w] THEN p ELSE payoutId[i]]
            /\ payout' = [payout EXCEPT ![p] = "REQUESTED"]
            /\ amount' = [amount EXCEPT ![p] = got[w]]
       ELSE UNCHANGED <<payoutId, payout, amount>>
    /\ Stop(w)
    /\ UNCHANGED <<voided, months, checkout, contract, document, item, credited, settled, reserve>>

(* decideWithdrawal(): the payout is read REQUESTED; PAID needs an eligible   *)
(* member still, or answers NOT_ELIGIBLE.                                     *)
DecideWithdrawal(w) ==
    /\ "decide" \in Roles[w] /\ At(w, "idle")
    /\ \E p \in PayoutIds : payout[p] = "REQUESTED" /\ hand' = Read(hand, w, p)
    /\ \E place \in {"pay", "reject"} : Moved(w, place)
    /\ UNCHANGED <<rwRows, sweeping, got, saw, next, able>>

Requested(p) == {i \in Items : payoutId[i] = p}

(* The unique key payout:<id> undoes a second payment. *)
Pay(w) ==
    /\ At(w, "pay")
    /\ IF hand[w] \in settled THEN UNCHANGED <<item, payout, settled>>
       ELSE /\ item' = Marked(Requested(hand[w]), "PAID")
            /\ payout' = [payout EXCEPT ![hand[w]] = "PAID"]
            /\ settled' = settled \cup {hand[w]}
    /\ Stop(w)
    /\ UNCHANGED <<voided, months, checkout, contract, document, payoutId, credited, amount, reserve>>

Bug_Reject(w) ==
    /\ At(w, "reject")
    /\ payoutId' = [i \in Items |-> IF i \in Requested(hand[w]) THEN NoPayout ELSE payoutId[i]]
    /\ payout' = [payout EXCEPT ![hand[w]] = "CANCELLED"]
    /\ Stop(w)
    /\ UNCHANGED <<voided, months, checkout, contract, document, item, credited, amount, settled, reserve>>

Reject(w) ==
    /\ At(w, "reject")
    /\ payoutId' = [i \in Items |-> IF i \in Requested(hand[w]) THEN NoPayout ELSE payoutId[i]]
    /\ payout' = [payout EXCEPT ![hand[w]] = "REJECTED"]
    /\ Stop(w)
    /\ UNCHANGED <<voided, months, checkout, contract, document, item, credited, amount, settled, reserve>>

-----------------------------------------------------------------------------
(* A worker dies, or one of its statements throws. *)
RewardCrash(w) == rwPc[w] # "idle" /\ Stop(w) /\ UNCHANGED rwRows

(* The purchase is refunded or reversed; no code in src/ does it.             *)
Void ==
    /\ ~voided /\ voided' = TRUE
    /\ UNCHANGED <<months, checkout, contract, document, item, moneyRows, reserve, rwPc, rwLocals>>

MonthPasses ==
    /\ contract # "none" /\ months <= Terms /\ months' = months + 1
    /\ UNCHANGED <<voided, checkout, contract, document, item, moneyRows, reserve, rwPc, rwLocals>>

Fulfilment(w) ==
    \/ Fulfil(w) \/ CreateContract(w) \/ CreateFails(w) \/ MarkCheckoutFailed(w)
    \/ DocumentContract(w) \/ DocumentExisting(w) \/ Activate(w) \/ IssueDocument(w)

Cancellation(w) == AskCancel(w) \/ ReadOpen(w) \/ CancelContract(w)

SweepStep(w) ==
    \/ Sweep(w) \/ ReadDue(w) \/ ReadContract(w) \/ (\E i \in Instalments : SettleInstalment(w, i))
    \/ ReadTaken(w) \/ (\E l \in Levels : TakeBack(w, l))
    \/ ReadPending(w) \/ (\E l \in Levels : Mature(w, l)) \/ Credit(w)
    \/ ReadStatuses(w) \/ Refresh(w)

Withdrawal(w) ==
    RequestWithdrawal(w) \/ Collect(w) \/ Claim(w) \/ DecideWithdrawal(w) \/ Pay(w) \/ Reject(w)

RewardNext ==
    \/ \E w \in Workers : Fulfilment(w) \/ Cancellation(w) \/ SweepStep(w) \/ Withdrawal(w) \/ RewardCrash(w)
    \/ Void \/ MonthPasses

RewardSpec == RewardInit /\ [][RewardNext]_rwVars

-----------------------------------------------------------------------------
(* Every row and every worker has the shape the schema and the code give it.  *)
RewardTypeOK ==
    /\ voided \in BOOLEAN /\ months \in 0 .. Terms + 1
    /\ checkout \in {"PENDING", "FAILED", "FULFILLED"}
    /\ contract \in ContractStatuses /\ document \in BOOLEAN
    /\ item \in [Items -> ItemStatuses]
    /\ payoutId \in [Items -> PayoutIds \cup {NoPayout}]
    /\ released \subseteq Instalments /\ returned \subseteq Instalments /\ credited \subseteq Levels
    /\ payout \in [PayoutIds -> PayoutStatuses]
    /\ amount \in [PayoutIds -> SUBSET Items]
    /\ settled \subseteq PayoutIds
    /\ rwPc \in [Workers -> RewardPlaces]
    /\ sweeping \in [Workers -> BOOLEAN]
    /\ got \in [Workers -> SUBSET Items]
    /\ saw \in [Workers -> ContractStatuses \cup ItemStatuses]
    /\ next \in [Workers -> ContractStatuses]
    /\ able \in [Workers -> BOOLEAN]
    /\ hand \in [Workers -> PayoutIds \cup Levels \cup {NoPayout}]

(* The reserve of a contract covers what is owed on it (releaseService.ts:    *)
(* 199): an instalment is still owed exactly when it has left the reserve     *)
(* neither to the buyer nor back to operations, in any overlap of sweeps,     *)
(* cancellations and crashes; and a revoked contract owes nothing.            *)
ReserveAccounts ==
    /\ contract # "none" => \A i \in Instalments : i \in Open <=> i \notin released \cup returned
    /\ contract = "REVOKED" => Open = {}

(* The instalments that a payout asks for or has paid left the reserve for    *)
(* the buyer, and nothing of it is in another such payout (payoutStore.ts:    *)
(* 54): nobody is paid twice, as long as one admin decides at a time.         *)
PayoutsAreBacked ==
    \A p \in PayoutIds : payout[p] \in {"REQUESTED", "PAID"} =>
        /\ amount[p] \cap Instalments \subseteq released
        /\ \A q \in PayoutIds \ {p} : payout[q] \in {"REQUESTED", "PAID"} => amount[p] \cap amount[q] = {}

(* releaseService.ts:199 "They must match": a cancellation that overlaps a    *)
(* release returns to operations what went to the buyer; does not hold.       *)
ReserveMatches == released \cap returned = {}

(* releaseService.ts:165: a commission that may be withdrawn, other than by   *)
(* the sweep under way, has its COMMISSION_RELEASED entry; does not hold: the *)
(* status is written first, and a sweep that dies or throws before the entry  *)
(* finds the row no longer PENDING.                                           *)
CommissionsAreCredited ==
    \A l \in Levels : item[l] \in {"RELEASED", "PAID"} =>
        l \in credited \/ \E w \in Workers : rwPc[w] = "credit" /\ hand[w] = l
=============================================================================
