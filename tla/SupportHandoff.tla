--------------------------- MODULE SupportHandoff ---------------------------
(***************************************************************************)
(* The tickets of one support conversation (services/support): opened by   *)
(* the escalation hook or the user, one active ticket at a time; assigned, *)
(* moved on and closed by admins; reopened by either.  Every operation     *)
(* reads the row, checks its status and writes the row by its id.  A step  *)
(* is one statement; a request may die between two.                        *)
(*                                                                         *)
(* Left out: messages (replying writes nothing else; the user's is refused *)
(* on a ticket read closed), the audit log, and the e-mails.               *)
(***************************************************************************)
EXTENDS Integers, FiniteSets

CONSTANTS
    Agents,      \* requests that may overlap: users', admins', the hook's
    Admins,
    Nobody,      \* assignedAdminUserId null
    Tickets      \* bound: tickets of the conversation

ASSUME HandoffConstants == Nobody \notin Admins /\ Tickets # {}

VARIABLES
    ticket,      \* the SupportHandoff rows: status
    assignee,    \* assignedAdminUserId
    resolvedAt,  \* set or not
    hoPc, about, toStatus, toAdmin   \* of each request: place, ticket, status and admin to write

hoRows == <<ticket, assignee, resolvedAt>>
hoVars == <<ticket, assignee, resolvedAt, hoPc, about, toStatus, toAdmin>>

TicketStatuses == {"none", "OPEN", "ASSIGNED", "IN_PROGRESS", "RESOLVED", "CANCELLED"}
ACTIVE_HANDOFF_STATUSES == {"OPEN", "ASSIGNED", "IN_PROGRESS"}
AnyTicket == CHOOSE t \in Tickets : TRUE
ActiveTickets == {t \in Tickets : ticket[t] \in ACTIVE_HANDOFF_STATUSES}

Bug_ADMIN_TRANSITIONS ==
    {<<"OPEN", "IN_PROGRESS">>, <<"OPEN", "CANCELLED">>, <<"ASSIGNED", "IN_PROGRESS">>,
     <<"ASSIGNED", "CANCELLED">>, <<"IN_PROGRESS", "RESOLVED">>, <<"IN_PROGRESS", "CANCELLED">>,
     <<"RESOLVED", "OPEN">>}

ADMIN_TRANSITIONS ==
    {<<"OPEN", "CANCELLED">>, <<"ASSIGNED", "IN_PROGRESS">>, <<"ASSIGNED", "CANCELLED">>,
     <<"IN_PROGRESS", "RESOLVED">>, <<"IN_PROGRESS", "CANCELLED">>, <<"RESOLVED", "OPEN">>}

HandoffInit ==
    /\ ticket = [t \in Tickets |-> "none"]
    /\ assignee = [t \in Tickets |-> Nobody]
    /\ resolvedAt = [t \in Tickets |-> FALSE]
    /\ hoPc = [r \in Agents |-> "idle"]
    /\ about = [r \in Agents |-> AnyTicket]
    /\ toStatus = [r \in Agents |-> "none"]
    /\ toAdmin = [r \in Agents |-> Nobody]

ReadTicket(r, place, t, status, admin) ==
    /\ hoPc[r] = "idle" /\ hoPc' = [hoPc EXCEPT ![r] = place]
    /\ about' = [about EXCEPT ![r] = t]
    /\ toStatus' = [toStatus EXCEPT ![r] = status]
    /\ toAdmin' = [toAdmin EXCEPT ![r] = admin]
    /\ UNCHANGED hoRows

HandoffReturns(r, place) ==
    /\ hoPc[r] = place /\ hoPc' = [hoPc EXCEPT ![r] = "idle"]
    /\ about' = [about EXCEPT ![r] = AnyTicket]
    /\ toStatus' = [toStatus EXCEPT ![r] = "none"]
    /\ toAdmin' = [toAdmin EXCEPT ![r] = Nobody]

(* The partial unique index: a second active ticket is refused, whether it is *)
(* created or comes back.                                                     *)
Admits(t, status) == status \in ACTIVE_HANDOFF_STATUSES => ActiveTickets \subseteq {t}

-----------------------------------------------------------------------------
(* ensureSupportHandoff(): no active ticket is found ...                      *)
EnsureHandoff(r) ==
    /\ ActiveTickets = {}
    /\ ReadTicket(r, "create", AnyTicket, "OPEN", Nobody)

(* ... and one is created; refused, the other one is answered.                *)
CreateTicket(r) ==
    /\ HandoffReturns(r, "create")
    /\ IF ActiveTickets # {} THEN UNCHANGED ticket
       ELSE \E t \in Tickets : ticket[t] = "none" /\ ticket' = [ticket EXCEPT ![t] = "OPEN"]
    /\ UNCHANGED <<assignee, resolvedAt>>

(* reopenSupportHandoffAsUser(). *)
ReopenAsUser(r, t) == ticket[t] = "RESOLVED" /\ ReadTicket(r, "patch", t, "OPEN", Nobody)

(* assignSupportHandoff(): only an OPEN ticket becomes ASSIGNED by it.        *)
Assign(r, t, admin) ==
    /\ ticket[t] \in ACTIVE_HANDOFF_STATUSES
    /\ ReadTicket(r, "patch", t, IF ticket[t] = "OPEN" THEN "ASSIGNED" ELSE "none", admin)

(* transitionSupportHandoffAsAdmin(). *)
TransitionAsAdmin(r, t, status) ==
    /\ <<ticket[t], status>> \in ADMIN_TRANSITIONS
    /\ ReadTicket(r, "patch", t, status, Nobody)

(* handoffRepository.patch(): only what is given is written.                  *)
PatchTicket(r) ==
    /\ HandoffReturns(r, "patch")
    /\ LET t == about[r]  status == toStatus[r] IN
       IF status # "none" /\ ~ Admits(t, status) THEN UNCHANGED hoRows
       ELSE /\ ticket' = IF status = "none" THEN ticket ELSE [ticket EXCEPT ![t] = status]
            /\ assignee' = IF toAdmin[r] = Nobody THEN assignee ELSE [assignee EXCEPT ![t] = toAdmin[r]]
            /\ resolvedAt' = CASE status = "RESOLVED" -> [resolvedAt EXCEPT ![t] = TRUE]
                               [] status = "OPEN" -> [resolvedAt EXCEPT ![t] = FALSE]
                               [] OTHER -> resolvedAt

HandoffCrash(r) == hoPc[r] # "idle" /\ HandoffReturns(r, hoPc[r]) /\ UNCHANGED hoRows

HandoffNext ==
    \E r \in Agents :
        \/ EnsureHandoff(r) \/ CreateTicket(r) \/ PatchTicket(r) \/ HandoffCrash(r)
        \/ \E t \in Tickets :
             \/ ReopenAsUser(r, t)
             \/ \E admin \in Admins : Assign(r, t, admin)
             \/ \E status \in TicketStatuses : TransitionAsAdmin(r, t, status)

HandoffSpec == HandoffInit /\ [][HandoffNext]_hoVars

-----------------------------------------------------------------------------
(* The rows and the requests have the shape the schema and the code give. *)
HandoffTypeOK ==
    /\ ticket \in [Tickets -> TicketStatuses]
    /\ assignee \in [Tickets -> Admins \cup {Nobody}]
    /\ resolvedAt \in [Tickets -> BOOLEAN]
    /\ hoPc \in [Agents -> {"idle", "create", "patch"}]
    /\ about \in [Agents -> Tickets]
    /\ toStatus \in [Agents -> TicketStatuses]
    /\ toAdmin \in [Agents -> Admins \cup {Nobody}]

(* handoff-service.ts:481: however stale the status a request acts on, a      *)
(* ticket that is worked on or resolved is some admin's, a resolved one says  *)
(* when, and at most one ticket of the conversation is active.                *)
TicketsAreHandled ==
    /\ \A t \in Tickets : ticket[t] \in {"ASSIGNED", "IN_PROGRESS", "RESOLVED"} => assignee[t] # Nobody
    /\ \A t \in Tickets : ticket[t] = "RESOLVED" => resolvedAt[t]
    /\ Cardinality(ActiveTickets) <= 1

(* handoff-service.ts:471, CANCELLED allows nothing; does not hold: a reopen  *)
(* or an assignment that read the ticket before revives it.                   *)
CancelledIsFinal ==
    [][\A t \in Tickets : ticket[t] = "CANCELLED" => ticket'[t] = "CANCELLED"]_hoVars
=============================================================================
