--------------------------- MODULE LicenseService ---------------------------
(***************************************************************************)
(* The licence of one payment and the devices (or trading accounts) bound  *)
(* to it (services/licensing): issue by a payment webhook, activation by   *)
(* /api/license/activate and /check, deactivation, the buyer's "change     *)
(* trading account", and revocation.  A step is one statement or one       *)
(* transaction of a call; calls overlap and may die between two.           *)
(*                                                                         *)
(* Left out: what only reads (validate, status), the signature, expiry,    *)
(* product and release checks, which end a call with nothing written, and  *)
(* the API key.  No code in src/ suspends, reinstates or expires a licence. *)
(***************************************************************************)
EXTENDS Integers, FiniteSets

CONSTANTS
    Callers,         \* calls that may overlap
    Devices,
    MaxActivations,  \* activationPolicy.maxActivations
    MaxMoves         \* MAX_MOVES in any WINDOW_DAYS days

ASSUME LicenseConstants ==
    /\ IsFiniteSet(Callers) /\ Callers # {}
    /\ IsFiniteSet(Devices) /\ Devices # {}
    /\ MaxActivations \in Nat \ {0} /\ MaxMoves \in Nat

VARIABLES
    licenseStatus, revokedAt,   \* the License row
    activation,                 \* the Activation rows: status by device
    moves,                      \* account_moved audit rows of the last WINDOW_DAYS
    licPc, device, readStatus,   \* of each call: place, device, status it read
    cameBack,                   \* history: devices that were deactivated and activated again
    crossed                     \* history: a revocation met a call that had read ISSUED

licRows   == <<licenseStatus, revokedAt, activation, moves>>
licCall   == <<licPc, device, readStatus>>
licPast   == <<cameBack, crossed>>
licVars   == <<licenseStatus, revokedAt, activation, moves, licPc, device, readStatus,
               cameBack, crossed>>

LicenseStatuses == {"none", "ISSUED", "ACTIVE", "REVOKED"}
LicensePlaces == {"idle", "issue", "rows", "reactivate", "create", "first", "move", "free", "revoke"}
AnyDevice == CHOOSE d \in Devices : TRUE
Active == {d \in Devices : activation[d] = "ACTIVE"}

LicenseInit ==
    /\ licenseStatus = "none" /\ revokedAt = FALSE
    /\ activation = [d \in Devices |-> "none"]
    /\ moves = 0
    /\ licPc = [c \in Callers |-> "idle"]
    /\ device = [c \in Callers |-> AnyDevice]
    /\ readStatus = [c \in Callers |-> "none"]
    /\ cameBack = {} /\ crossed = FALSE

LicGoto(c, from, to) == licPc[c] = from /\ licPc' = [licPc EXCEPT ![c] = to]

Answer(c, from) ==
    /\ LicGoto(c, from, "idle")
    /\ device' = [device EXCEPT ![c] = AnyDevice]
    /\ readStatus' = [readStatus EXCEPT ![c] = "none"]

-----------------------------------------------------------------------------
(* issueLicenseForPurchase(): no purchase has this providerRef yet; of two    *)
(* deliveries of one event the unique providerRef lets one write.             *)
Issue(c) ==
    /\ licenseStatus = "none"
    /\ LicGoto(c, "idle", "issue")
    /\ UNCHANGED <<licRows, device, readStatus, licPast>>

CreateLicense(c) ==
    /\ Answer(c, "issue")
    /\ licenseStatus' = IF licenseStatus = "none" THEN "ISSUED" ELSE licenseStatus
    /\ UNCHANGED <<revokedAt, activation, moves, licPast>>

(* activateLicense() and checkLicenseByKey(): the licence row as it is read.  *)
ReadLicense(c, d) ==
    /\ licenseStatus \in {"ISSUED", "ACTIVE"}
    /\ LicGoto(c, "idle", "rows")
    /\ device' = [device EXCEPT ![c] = d]
    /\ readStatus' = [readStatus EXCEPT ![c] = licenseStatus]
    /\ UNCHANGED <<licRows, licPast>>

Bug_DecideActivation(c) ==
    /\ IF activation[device[c]] # "none" THEN LicGoto(c, "rows", "reactivate") /\ UNCHANGED <<device, readStatus>>
       ELSE IF Cardinality(Active) <= MaxActivations
       THEN LicGoto(c, "rows", "create") /\ UNCHANGED <<device, readStatus>>
       ELSE Answer(c, "rows")
    /\ UNCHANGED <<licRows, licPast>>

(* decideActivation() on the rows read: a device that has one is let back in  *)
(* before the limit is looked at.                                             *)
DecideActivation(c) ==
    /\ IF activation[device[c]] # "none" THEN LicGoto(c, "rows", "reactivate") /\ UNCHANGED <<device, readStatus>>
       ELSE IF Cardinality(Active) < MaxActivations
       THEN LicGoto(c, "rows", "create") /\ UNCHANGED <<device, readStatus>>
       ELSE Answer(c, "rows")
    /\ UNCHANGED <<licRows, licPast>>

Reactivate(c) ==
    /\ Answer(c, "reactivate")
    /\ activation' = [activation EXCEPT ![device[c]] = "ACTIVE"]
    /\ cameBack' = IF activation[device[c]] = "ACTIVE" THEN cameBack ELSE cameBack \cup {device[c]}
    /\ UNCHANGED <<licenseStatus, revokedAt, moves, crossed>>

Bug_CreateAlwaysRecords(c) ==
    /\ LicGoto(c, "create", "first") /\ UNCHANGED <<device, readStatus>>
    /\ activation' = [activation EXCEPT ![device[c]] = "ACTIVE"]
    /\ UNCHANGED <<licenseStatus, revokedAt, moves, licPast>>

(* The unique (licence, device) makes a second row fail: /activate throws,    *)
(* /check goes on.  The first activation of an ISSUED licence makes it ACTIVE. *)
CreateActivation(c) ==
    /\ \/ readStatus[c] = "ISSUED" /\ LicGoto(c, "create", "first") /\ UNCHANGED <<device, readStatus>>
       \/ (readStatus[c] = "ACTIVE" \/ activation[device[c]] # "none") /\ Answer(c, "create")
    /\ activation' = IF activation[device[c]] = "none" THEN [activation EXCEPT ![device[c]] = "ACTIVE"] ELSE activation
    /\ UNCHANGED <<licenseStatus, revokedAt, moves, licPast>>

FirstActivation(c) ==
    /\ Answer(c, "first")
    /\ licenseStatus' = "ACTIVE"
    /\ UNCHANGED <<revokedAt, activation, moves, licPast>>

(* deactivateLicense(): one guarded update, whatever the licence's status.    *)
Deactivate(d) ==
    /\ activation[d] = "ACTIVE"
    /\ activation' = [activation EXCEPT ![d] = "DEACTIVATED"]
    /\ UNCHANGED <<licenseStatus, revokedAt, moves, licCall, licPast>>

-----------------------------------------------------------------------------
(* moveLicenseAccount(): the status, then in a transaction the bindings and   *)
(* the moves of the window, then every binding is freed and the move logged.  *)
AskMove(c) ==
    /\ licenseStatus \in {"ISSUED", "ACTIVE"}
    /\ LicGoto(c, "idle", "move")
    /\ UNCHANGED <<licRows, device, readStatus, licPast>>

MoveDecision(c) ==
    /\ IF Active # {} /\ moves < MaxMoves
       THEN LicGoto(c, "move", "free") /\ UNCHANGED <<device, readStatus>>
       ELSE Answer(c, "move")
    /\ UNCHANGED <<licRows, licPast>>

MoveAccount(c) ==
    /\ Answer(c, "free")
    /\ activation' = [d \in Devices |-> IF d \in Active THEN "DEACTIVATED" ELSE activation[d]]
    /\ moves' = moves + 1
    /\ UNCHANGED <<licenseStatus, revokedAt, licPast>>

(* A logged move is WINDOW_DAYS old. *)
WindowPasses ==
    /\ moves > 0 /\ moves' = moves - 1
    /\ UNCHANGED <<licenseStatus, revokedAt, activation, licCall, licPast>>

(* revokeLicense(): transition() of the status read, then written by id.      *)
Revoke(c) ==
    /\ licenseStatus \in {"ISSUED", "ACTIVE"}
    /\ LicGoto(c, "idle", "revoke")
    /\ UNCHANGED <<licRows, device, readStatus, licPast>>

HoldsIssued(c) == licPc[c] \in {"rows", "create", "first"} /\ readStatus[c] = "ISSUED"

RevokeLicense(c) ==
    /\ Answer(c, "revoke")
    /\ licenseStatus' = "REVOKED" /\ revokedAt' = TRUE
    /\ crossed' = (crossed \/ \E o \in Callers : HoldsIssued(o))
    /\ UNCHANGED <<activation, moves, cameBack>>

LicenseCrash(c) ==
    /\ licPc[c] # "idle" /\ Answer(c, licPc[c])
    /\ UNCHANGED <<licRows, licPast>>

LicenseCall(c) ==
    \/ Issue(c) \/ CreateLicense(c)
    \/ \E d \in Devices : ReadLicense(c, d)
    \/ DecideActivation(c) \/ Reactivate(c) \/ CreateActivation(c) \/ FirstActivation(c)
    \/ AskMove(c) \/ MoveDecision(c) \/ MoveAccount(c)
    \/ Revoke(c) \/ RevokeLicense(c) \/ LicenseCrash(c)

LicenseNext ==
    \/ \E c \in Callers : LicenseCall(c)
    \/ \E d \in Devices : Deactivate(d)
    \/ WindowPasses

LicenseSpec == LicenseInit /\ [][LicenseNext]_licVars

-----------------------------------------------------------------------------
(* The rows and the calls have the shape the schema and the code give them. *)
LicenseTypeOK ==
    /\ licenseStatus \in LicenseStatuses /\ revokedAt \in BOOLEAN
    /\ activation \in [Devices -> {"none", "ACTIVE", "DEACTIVATED"}]
    /\ moves \in Nat
    /\ licPc \in [Callers -> LicensePlaces]
    /\ device \in [Callers -> Devices]
    /\ readStatus \in [Callers -> {"none", "ISSUED", "ACTIVE"}]
    /\ cameBack \subseteq Devices /\ crossed \in BOOLEAN

(* licenseService.ts:261: devices that are bound for the first time pass the  *)
(* limit by at most one for every other call that overlaps.                   *)
NewDevicesWithinLimit ==
    Cardinality(Active \ cameBack) <= MaxActivations + Cardinality(Callers) - 1

(* licenseStateMachine.ts:12, REVOKED is terminal: a revocation is undone     *)
(* only by an activation that had read ISSUED before it (licenseService.ts:   *)
(* 284); otherwise it holds for good.                                         *)
RevocationHolds == revokedAt /\ ~ crossed => licenseStatus = "REVOKED"

(* The table's own word; does not hold, for activation writes ACTIVE from the *)
(* status it read.                                                            *)
RevokedIsFinal == revokedAt => licenseStatus = "REVOKED"

(* licenseService.ts:351: no more devices than the policy allows; does not    *)
(* hold, for a device that had a slot once is let back in past the limit.     *)
WithinLimit == Cardinality(Active) <= MaxActivations
=============================================================================
