------------------------------ MODULE LiveSync ------------------------------
(***************************************************************************)
(* The Live Sync protocol: Expert Advisors in terminals of one trading     *)
(* account (public/downloads/AT24LiveSync.mq5) report its deals in hashed  *)
(* batches to /api/live-sync/v1/ingest (services/live-sync).  Requests and *)
(* answers are late or lost, a terminal gives up waiting and sends again   *)
(* while its request may still be at work, restarts, loses its state file; *)
(* the user may delete the synced account.                                 *)
(*                                                                         *)
(* Deals are numbered in the order of the terminal's history.  A hash is   *)
(* what it commits to: the sequence of the batches up to it.               *)
(*                                                                         *)
(* Left out: snapshots and heartbeats, back-off, authentication, limits    *)
(* per user, and the hash recomputation, which an honest terminal passes.  *)
(***************************************************************************)
EXTENDS Integers, Sequences, FiniteSets

CONSTANTS
    Terminals,   \* terminals running the Expert Advisor on this account
    Calls,       \* invocations of the ingest route
    NoCall,
    Time,        \* DEAL_TIME_MSC of each deal, in the order of the history
    BatchSize,   \* MAX_DEALS_PER_BATCH
    MaxDeletes   \* bound: deletions of the synced account

Deals == 1 .. Len(Time)

ASSUME LiveSyncConstants ==
    /\ Time \in Seq(Nat \ {0}) /\ \A d, e \in Deals : d < e => Time[d] <= Time[e]
    /\ BatchSize \in Nat \ {0} /\ MaxDeletes \in Nat
    /\ NoCall \notin Calls

VARIABLES
    clock,       \* deals up to this time have settled in the history
    deletes,     \* the account was deleted so often; its next row has this id
    account,     \* the LiveSyncAccount row: id, chainSeq, chainHead, lastDealTimeMsc (0: null)
    stored, batches,   \* its LiveSyncDeal and LiveSyncBatch rows
    erased,      \* history: deals that were stored and deleted with their account
    known, file, \* each terminal's g_seq, g_head, g_fromMsc, in memory and in the state file
    waiting,     \* the call whose answer a terminal waits for
    lsPc, request, accountRow, reply   \* of each call: place, body, account row it read, answer

lsServer == <<deletes, account, stored, batches, erased>>
lsClient == <<known, file, waiting>>
lsCall   == <<lsPc, request, accountRow, reply>>
lsVars   == <<clock, deletes, account, stored, batches, erased, known, file, waiting,
              lsPc, request, accountRow, reply>>

ZERO_HASH == <<>>
NewState == [seq |-> 0, head |-> ZERO_HASH, from |-> 0]
NoAccount == [id |-> -1, seq |-> 0, head |-> ZERO_HASH, last |-> 0]
NewAccount == [id |-> deletes, seq |-> 0, head |-> ZERO_HASH, last |-> 0]
NoRequest == [seq |-> 0, prev |-> ZERO_HASH, hash |-> ZERO_HASH, deals |-> {}]
NoReply == [code |-> 0, seq |-> 0, head |-> ZERO_HASH, last |-> 0]

LastTime(deals) == IF deals = {} THEN 0 ELSE Time[CHOOSE d \in deals : \A e \in deals : e <= d]

LiveSyncInit ==
    /\ clock = 0 /\ deletes = 0
    /\ account = NoAccount /\ stored = {} /\ batches = {} /\ erased = {}
    /\ known = [t \in Terminals |-> NewState]
    /\ file = [t \in Terminals |-> NewState]
    /\ waiting = [t \in Terminals |-> NoCall]
    /\ lsPc = [c \in Calls |-> "idle"]
    /\ request = [c \in Calls |-> NoRequest]
    /\ accountRow = [c \in Calls |-> NoAccount]
    /\ reply = [c \in Calls |-> NoReply]

-----------------------------------------------------------------------------
(* CollectDeals() and the cut to a batch: settled deals after the last        *)
(* acknowledged time, the first BatchSize of them.                            *)
Collected(t) == {d \in Deals : Time[d] > known[t].from /\ Time[d] <= clock}
Batch(t) == {d \in Collected(t) : Cardinality({e \in Collected(t) : e < d}) < BatchSize}

(* SendNewDeals(): the request goes out and the terminal waits. *)
Send(t, c) ==
    /\ waiting[t] = NoCall /\ Collected(t) # {}
    /\ lsPc[c] = "idle" /\ lsPc' = [lsPc EXCEPT ![c] = "account"]
    /\ waiting' = [waiting EXCEPT ![t] = c]
    /\ request' = [request EXCEPT ![c] =
         [seq |-> known[t].seq + 1, prev |-> known[t].head, deals |-> Batch(t),
          hash |-> Append(known[t].head, <<known[t].seq + 1, Batch(t)>>)]]
    /\ UNCHANGED <<clock, lsServer, known, file, accountRow, reply>>

(* HTTP_TIMEOUT_MS passes, or the connection breaks: the call is on its own.  *)
GiveUp(t) ==
    /\ waiting[t] # NoCall /\ waiting' = [waiting EXCEPT ![t] = NoCall]
    /\ UNCHANGED <<clock, lsServer, known, file, lsCall>>

EndCall(c) ==
    /\ lsPc' = [lsPc EXCEPT ![c] = "idle"]
    /\ request' = [request EXCEPT ![c] = NoRequest]
    /\ accountRow' = [accountRow EXCEPT ![c] = NoAccount]
    /\ reply' = [reply EXCEPT ![c] = NoReply]

(* What the terminal makes of an answer; the state file may not open.         *)
Adopt(t, state) ==
    /\ known' = [known EXCEPT ![t] = state]
    /\ \E saved \in BOOLEAN : file' = IF saved THEN [file EXCEPT ![t] = state] ELSE file

Bug_Receive(t) ==
    /\ waiting[t] # NoCall /\ lsPc[waiting[t]] = "answer"
    /\ LET c == waiting[t]  r == reply[c]  from == known[t].from IN
       /\ IF r.code = 409
          THEN Adopt(t, [seq |-> r.seq, head |-> r.head, from |-> IF r.last > from THEN r.last ELSE from])
          ELSE Adopt(t, [seq |-> r.seq, head |-> r.head, from |-> LastTime(request[c].deals)])
       /\ EndCall(c)
    /\ waiting' = [waiting EXCEPT ![t] = NoCall]
    /\ UNCHANGED <<clock, lsServer>>

(* 200 acknowledges the batch; 409 (HandleHttpError) has the terminal adopt   *)
(* the server's position; anything else is tried again.                       *)
Receive(t) ==
    /\ waiting[t] # NoCall /\ lsPc[waiting[t]] = "answer"
    /\ LET c == waiting[t]  r == reply[c]  from == known[t].from IN
       /\ CASE r.code = 200 -> Adopt(t, [seq |-> r.seq, head |-> r.head, from |-> LastTime(request[c].deals)])
            [] r.code = 409 -> Adopt(t, [seq |-> r.seq, head |-> r.head,
                                         from |-> IF r.last > from THEN r.last ELSE from])
            [] OTHER -> UNCHANGED <<known, file>>
       /\ EndCall(c)
    /\ waiting' = [waiting EXCEPT ![t] = NoCall]
    /\ UNCHANGED <<clock, lsServer>>

(* An answer nobody waits for any more; or the invocation dies.               *)
Dropped(c) ==
    /\ lsPc[c] # "idle" /\ \A t \in Terminals : waiting[t] # c
    /\ EndCall(c)
    /\ UNCHANGED <<clock, lsServer, lsClient>>

(* The terminal restarts, reading its state file (LoadState) if it has it.    *)
Restart(t) ==
    /\ \E state \in {file[t], NewState} :
         known' = [known EXCEPT ![t] = state] /\ file' = [file EXCEPT ![t] = state]
    /\ waiting' = [waiting EXCEPT ![t] = NoCall]
    /\ UNCHANGED <<clock, lsServer, lsCall>>

-----------------------------------------------------------------------------
Answered(c, code, seq, head, last) ==
    /\ lsPc' = [lsPc EXCEPT ![c] = "answer"]
    /\ reply' = [reply EXCEPT ![c] = [code |-> code, seq |-> seq, head |-> head, last |-> last]]
    /\ UNCHANGED request

Bug_Judge(c, row) ==
    /\ IF request[c].seq # row.seq + 1 THEN Answered(c, 409, row.seq, row.head, row.last)
       ELSE lsPc' = [lsPc EXCEPT ![c] = "commit"] /\ UNCHANGED <<request, reply>>
    /\ accountRow' = [accountRow EXCEPT ![c] = row]

(* processIngest(): the batch's place in the chain of the row that was read:  *)
(* the last batch again, a gap or a fork (409), or the next one.              *)
Judge(c, row) ==
    /\ LET q == request[c] IN
       IF /\ ~(q.seq = row.seq /\ q.hash = row.head)
          /\ q.seq # row.seq + 1 \/ q.prev # row.head
       THEN Answered(c, 409, row.seq, row.head, row.last)
       ELSE lsPc' = [lsPc EXCEPT ![c] = "commit"] /\ UNCHANGED <<request, reply>>
    /\ accountRow' = [accountRow EXCEPT ![c] = row]

GetAccount(c) ==
    /\ lsPc[c] = "account"
    /\ IF account = NoAccount
       THEN lsPc' = [lsPc EXCEPT ![c] = "create"] /\ UNCHANGED <<request, accountRow, reply>>
       ELSE Judge(c, account)
    /\ UNCHANGED <<clock, lsServer, lsClient>>

(* createAccount() is an upsert. *)
CreateAccount(c) ==
    /\ lsPc[c] = "create"
    /\ account' = IF account = NoAccount THEN NewAccount ELSE account
    /\ Judge(c, account')
    /\ UNCHANGED <<clock, deletes, stored, batches, erased, lsClient>>

(* commit(): one transaction, undone if its account is gone or another call   *)
(* took this place in the chain; deals that are there are skipped.            *)
Commit(c) ==
    /\ lsPc[c] = "commit"
    /\ LET q == request[c]  row == accountRow[c]  again == q.hash = row.head IN
       IF account.id # row.id \/ (~again /\ \E b \in batches : b.seq = q.seq)
       THEN Answered(c, 500, 0, ZERO_HASH, 0) /\ UNCHANGED <<account, stored, batches>>
       ELSE IF again
       THEN Answered(c, 200, row.seq, row.head, row.last) /\ UNCHANGED <<account, stored, batches>>
       ELSE /\ stored' = stored \cup q.deals
            /\ batches' = batches \cup {[seq |-> q.seq, hash |-> q.hash]}
            /\ account' = [account EXCEPT !.seq = q.seq, !.head = q.hash, !.last = LastTime(q.deals)]
            /\ Answered(c, 200, q.seq, q.hash, LastTime(q.deals))
    /\ UNCHANGED <<clock, deletes, erased, lsClient, accountRow>>

(* deleteSyncedAccount(). *)
DeleteAccount ==
    /\ account # NoAccount /\ deletes < MaxDeletes
    /\ deletes' = deletes + 1
    /\ account' = NoAccount /\ stored' = {} /\ batches' = {}
    /\ erased' = erased \cup stored
    /\ UNCHANGED <<clock, lsClient, lsCall>>

(* Time passes and deals settle, those of one millisecond together.           *)
Settle ==
    /\ \E d \in Deals : Time[d] > clock /\ clock' = Time[d] /\ \A e \in 1 .. d - 1 : Time[e] <= clock \/ Time[e] = Time[d]
    /\ UNCHANGED <<lsServer, lsClient, lsCall>>

LiveSyncNext ==
    \/ \E t \in Terminals :
         \/ \E c \in Calls : Send(t, c)
         \/ GiveUp(t) \/ Receive(t) \/ Restart(t)
    \/ \E c \in Calls : Dropped(c) \/ GetAccount(c) \/ CreateAccount(c) \/ Commit(c)
    \/ DeleteAccount \/ Settle

LiveSyncSpec == LiveSyncInit /\ [][LiveSyncNext]_lsVars

-----------------------------------------------------------------------------
Chains   == Seq(Nat \X SUBSET Deals)
States   == [seq : Nat, head : Chains, from : Nat]
Accounts == [id : -1 .. MaxDeletes, seq : Nat, head : Chains, last : Nat]

(* The rows, the terminals and the calls have the shape the code gives them.  *)
LiveSyncTypeOK ==
    /\ clock \in Nat /\ deletes \in 0 .. MaxDeletes
    /\ account \in Accounts
    /\ stored \subseteq Deals /\ erased \subseteq Deals
    /\ \A b \in batches : b \in [seq : Nat, hash : Chains]
    /\ known \in [Terminals -> States] /\ file \in [Terminals -> States]
    /\ waiting \in [Terminals -> Calls \cup {NoCall}]
    /\ lsPc \in [Calls -> {"idle", "account", "create", "commit", "answer"}]
    /\ request \in [Calls -> [seq : Nat, prev : Chains, hash : Chains, deals : SUBSET Deals]]
    /\ accountRow \in [Calls -> Accounts]
    /\ reply \in [Calls -> [code : {0, 200, 409, 500}, seq : Nat, head : Chains, last : Nat]]

Reported(k) == account.head[k][2]

(* ingest.ts:8-9 and LIVE-SYNC-SPEC.md:71, "append-only": whatever is sent    *)
(* again, late or by another terminal, the batches are one chain without gap  *)
(* or fork, the stored deals are those of its batches, and each was reported  *)
(* once, later than those before it.                                          *)
ChainIsWhole ==
    /\ batches = {[seq |-> k, hash |-> SubSeq(account.head, 1, k)] : k \in 1 .. Len(account.head)}
    /\ account.seq = Len(account.head)
    /\ stored = UNION {Reported(k) : k \in 1 .. Len(account.head)}
    /\ \A k, l \in 1 .. Len(account.head) : k < l =>
         \A d \in Reported(k), e \in Reported(l) : Time[d] < Time[e]

(* LIVE-SYNC-SPEC.md:124: no terminal takes for acknowledged a time whose     *)
(* deals did not arrive, whatever was lost; deals of one millisecond stand    *)
(* for one another here.                                                      *)
AcknowledgedIsStored ==
    \A t \in Terminals, d \in Deals :
        Time[d] <= known[t].from => \E e \in stored \cup erased : Time[e] = Time[d]

(* LIVE-SYNC-SPEC.md:124, "loses nothing": does not hold, for a batch that    *)
(* ends amid a millisecond has the rest of it passed over.                    *)
LosesNothing ==
    \A t \in Terminals, d \in Deals : Time[d] <= known[t].from => d \in stored \cup erased
=============================================================================
