--------------------------- MODULE LiveSyncProofs ---------------------------
(* Theorems about LiveSync, for any number of terminals, calls and deals, and *)
(* about the alert rules over what is synced.                                 *)
EXTENDS LiveSync, AlertRules, SequenceTheorems, FiniteSetTheorems, WellFoundedInduction, TLAPS

Kept == stored \cup erased

-----------------------------------------------------------------------------
(* Deals, their times, and the batch a terminal cuts.                         *)

LEMMA DealsAreTimed ==
    /\ Len(Time) \in Nat /\ Deals \subseteq Nat \ {0} /\ IsFiniteSet(Deals)
    /\ \A d \in Deals : Time[d] \in Nat /\ Time[d] > 0
    /\ \A d, e \in Deals : d <= e => Time[d] <= Time[e]
<1>1. Len(Time) \in Nat /\ Deals = 1 .. Len(Time)  BY LiveSyncConstants DEF Deals
<1>2. IsFiniteSet(Deals)  BY <1>1, FS_Interval
<1>3. \A d \in Deals : Time[d] \in Nat /\ Time[d] > 0  BY <1>1, LiveSyncConstants
<1>4. ASSUME NEW d \in Deals, NEW e \in Deals, d <= e PROVE Time[d] <= Time[e]
    <2>1. CASE d = e  BY <1>3, <2>1
    <2>2. CASE d # e
        <3>1. d < e  BY <1>1, <1>4, <2>2
        <3> QED BY <3>1, LiveSyncConstants
    <2> QED BY <2>1, <2>2
<1> QED BY <1>1, <1>2, <1>3, <1>4

LEMMA FirstDeal ==
    ASSUME NEW S \in SUBSET Deals, S # {}
    PROVE  \E d \in S : \A e \in S : d <= e
<1>1. S \subseteq Nat  BY DealsAreTimed
<1>2. PICK d \in S : \A e \in S : ~ (<<e, d>> \in OpToRel(<, Nat))
    BY <1>1, NatLessThanWellFounded, WFMin
<1>3. \A e \in S : ~ (e < d)  BY <1>1, <1>2 DEF OpToRel
<1> QED BY <1>1, <1>3

LEMMA LastDeal ==
    ASSUME NEW S \in SUBSET Deals, S # {}
    PROVE  \E d \in S : \A e \in S : e <= d
<1> DEFINE n == Len(Time)
           T == {1 + n - d : d \in S}
<1>1. n \in Nat /\ \A d \in S : d \in 1 .. n  BY DealsAreTimed DEF Deals
<1>2. T \in SUBSET Deals  BY <1>1 DEF Deals
<1>3. T # {}  OBVIOUS
<1> HIDE DEF T
<1>4. PICK t \in T : \A u \in T : t <= u  BY <1>2, <1>3, FirstDeal
<1>5. PICK d \in S : t = 1 + n - d  BY <1>4 DEF T
<1>6. ASSUME NEW e \in S PROVE e <= d
    <2>1. 1 + n - e \in T  BY DEF T
    <2>2. t <= 1 + n - e  BY <1>4, <2>1
    <2> HIDE DEF n
    <2> QED BY <1>1, <1>5, <2>2
<1> QED BY <1>6

(* The last time of some deals is that of one of them, and no earlier than    *)
(* that of any.                                                               *)
LEMMA LastTimeIsLast ==
    ASSUME NEW S \in SUBSET Deals, S # {}
    PROVE  /\ LastTime(S) \in Nat
           /\ \E m \in S : LastTime(S) = Time[m] /\ \A e \in S : e <= m
           /\ \A e \in S : Time[e] <= LastTime(S)
<1> DEFINE m == CHOOSE d \in S : \A e \in S : e <= d
<1>1. m \in S /\ \A e \in S : e <= m  BY LastDeal
<1>2. LastTime(S) = Time[m]  BY DEF LastTime
<1> HIDE DEF m
<1> QED BY <1>1, <1>2, DealsAreTimed

-----------------------------------------------------------------------------
(***************************************************************************)
(* The inductive invariant.  It says what is true of a position in the     *)
(* chain wherever it is written down, on the server, in a terminal, in its *)
(* state file or in an answer under way: its time covers its batches, and  *)
(* what it acknowledges has been stored.  Of a call about to commit it     *)
(* says that the row it read is of an earlier life of the account, or that *)
(* the chain has only grown since.                                         *)
(***************************************************************************)
Covers(head, from) == \A k \in 1 .. Len(head) : \A e \in head[k][2] : Time[e] <= from
Acked(kept, from)  == \A d \in Deals : Time[d] <= from => \E e \in kept : Time[e] = Time[d]

StateTrue(kept, state) == Covers(state.head, state.from) /\ Acked(kept, state.from)

RequestTrue(kept, q) ==
    /\ q.deals # {} /\ q.hash = Append(q.prev, <<q.seq, q.deals>>)
    /\ \A k \in 1 .. Len(q.prev) : \A e \in q.prev[k][2], d \in q.deals : Time[e] < Time[d]
    /\ Acked(kept \cup q.deals, LastTime(q.deals))

ReplyTrue(kept, r, q) ==
    /\ r.code = 200 => r.head = q.hash /\ q.deals \subseteq kept
    /\ r.code = 409 => Covers(r.head, r.last) /\ Acked(kept, r.last)

Begins(head, longer) ==
    Len(head) <= Len(longer) /\ \A k \in 1 .. Len(head) : head[k] = longer[k]

RowTrue(kept, lives, now, row, q) ==
    /\ row.id \in 0 .. lives /\ row.seq = Len(row.head)
    /\ now = NoAccount => row.id < lives
    /\ row.id = now.id => Begins(row.head, now.head)
    /\ q.hash = row.head \/ (q.prev = row.head /\ q.seq = row.seq + 1)
    /\ \A k \in 1 .. Len(row.head) : row.head[k][2] \subseteq kept

CallTrue(kept, lives, now, pc, q, row, r) ==
    /\ pc # "idle" => RequestTrue(kept, q)
    /\ pc = "commit" => RowTrue(kept, lives, now, row, q)
    /\ pc = "answer" => ReplyTrue(kept, r, q)

AccountTrue ==
    /\ account # NoAccount => account.id = deletes
    /\ Covers(account.head, account.last) /\ Acked(Kept, account.last)
    /\ ChainIsWhole

StateInv   == \A t \in Terminals : StateTrue(Kept, known[t]) /\ StateTrue(Kept, file[t])
CallInv    == \A c \in Calls : CallTrue(Kept, deletes, account, lsPc[c], request[c], accountRow[c], reply[c])

LiveSyncInv == LiveSyncTypeOK /\ AccountTrue /\ StateInv /\ CallInv

SyncRequests == [seq : Nat, prev : Chains, hash : Chains, deals : SUBSET Deals]

(* The type invariant in parts. *)
Pcs     == {"idle", "account", "create", "commit", "answer"}
Replies == [code : {0, 200, 409, 500}, seq : Nat, head : Chains, last : Nat]

ServerTyped ==
    /\ deletes \in 0 .. MaxDeletes /\ account \in Accounts
    /\ stored \subseteq Deals /\ erased \subseteq Deals
    /\ \A b \in batches : b \in [seq : Nat, hash : Chains]

ClientTyped ==
    /\ known \in [Terminals -> States] /\ file \in [Terminals -> States]
    /\ waiting \in [Terminals -> Calls \cup {NoCall}]

CallsTyped ==
    /\ lsPc \in [Calls -> Pcs] /\ request \in [Calls -> SyncRequests]
    /\ accountRow \in [Calls -> Accounts] /\ reply \in [Calls -> Replies]

LEMMA TypedInParts ==
    LiveSyncTypeOK <=> clock \in Nat /\ ServerTyped /\ ClientTyped /\ CallsTyped
<1> DEFINE L == request \in [Calls -> SyncRequests]
           M == reply \in [Calls -> Replies]
<1>1. L <=> request \in [Calls -> [seq : Nat, prev : Chains, hash : Chains, deals : SUBSET Deals]]
    BY DEF SyncRequests
<1>2. M <=> reply \in [Calls -> [code : {0, 200, 409, 500}, seq : Nat, head : Chains, last : Nat]]
    BY DEF Replies
<1> HIDE DEF SyncRequests, Replies
<1> QED BY <1>1, <1>2, Zenon DEF LiveSyncTypeOK, ServerTyped, ClientTyped, CallsTyped, Pcs

LEMMA TypedNext ==
    (clock \in Nat)' /\ ServerTyped' /\ ClientTyped' /\ CallsTyped' => LiveSyncTypeOK'
BY TypedInParts, PTL

-----------------------------------------------------------------------------
(* What has been kept stays kept, so what is true of it stays true. *)
LEMMA AckedGrows ==
    ASSUME NEW kept, NEW more, kept \subseteq more, NEW from, Acked(kept, from)
    PROVE  Acked(more, from)
BY DEF Acked

LEMMA StateGrows ==
    ASSUME NEW kept, NEW more, kept \subseteq more, NEW state, StateTrue(kept, state)
    PROVE  StateTrue(more, state)
BY AckedGrows DEF StateTrue

LEMMA RequestGrows ==
    ASSUME NEW kept, NEW more, kept \subseteq more, NEW q, RequestTrue(kept, q)
    PROVE  RequestTrue(more, q)
<1>1. kept \cup q.deals \subseteq more \cup q.deals  OBVIOUS
<1> QED BY <1>1, AckedGrows DEF RequestTrue

LEMMA ReplyGrows ==
    ASSUME NEW kept, NEW more, kept \subseteq more, NEW r, NEW q, ReplyTrue(kept, r, q)
    PROVE  ReplyTrue(more, r, q)
BY AckedGrows DEF ReplyTrue

(* What happens to the account: nothing, its creation, a batch, its deletion. *)
Develops(lives, lives2, now, now2) ==
    \/ now2 = now /\ lives2 = lives
    \/ now = NoAccount /\ now2.id = lives /\ now2 # NoAccount /\ lives2 = lives
    \/ now # NoAccount /\ now2 # NoAccount /\ now2.id = now.id /\ Begins(now.head, now2.head) /\ lives2 = lives
    \/ now2 = NoAccount /\ lives2 = lives + 1

LEMMA RowGrows ==
    ASSUME NEW kept, NEW more, kept \subseteq more, NEW lives \in Nat, NEW lives2 \in Nat,
           NEW now \in Accounts, NEW now2 \in Accounts, NEW row \in Accounts, NEW q,
           Develops(lives, lives2, now, now2), RowTrue(kept, lives, now, row, q)
    PROVE  RowTrue(more, lives2, now2, row, q)
<1>1. Len(row.head) \in Nat /\ Len(now.head) \in Nat /\ Len(now2.head) \in Nat /\ row.id \in Int /\ NoAccount.id = -1
    BY DEF Accounts, Chains, NoAccount
<1>2. row.id \in 0 .. lives2 /\ (now2 = NoAccount => row.id < lives2)
    BY <1>1 DEF Develops, RowTrue
<1>3. ASSUME row.id = now2.id PROVE Begins(row.head, now2.head)
    <2>1. now2 # NoAccount  BY <1>1, <1>2, <1>3
    <2>2. now # NoAccount /\ row.id = now.id  BY <1>1, <1>3, <2>1 DEF Develops, RowTrue
    <2> QED BY <1>1, <2>1, <2>2 DEF Develops, RowTrue, Begins
<1>4. \A k \in 1 .. Len(row.head) : row.head[k][2] \subseteq more
    BY DEF RowTrue
<1> QED BY <1>2, <1>3, <1>4 DEF RowTrue

-----------------------------------------------------------------------------
(* The batch a terminal cuts fits behind its position. *)
LEMMA BatchFits ==
    ASSUME NEW t \in Terminals, NEW kept, clock \in Nat, known[t] \in States,
           StateTrue(kept, known[t]), Collected(t) # {}
    PROVE  /\ Batch(t) \in SUBSET Deals /\ Batch(t) # {}
           /\ \A d \in Batch(t) : Time[d] > known[t].from
           /\ Acked(kept \cup Batch(t), LastTime(Batch(t)))
<1> DEFINE Before(d) == {e \in Collected(t) : e < d}
<1>1. Collected(t) \in SUBSET Deals /\ IsFiniteSet(Collected(t))
    BY DealsAreTimed, FS_Subset DEF Collected
<1>2. Collected(t) \subseteq Nat  BY <1>1, DealsAreTimed
<1>3. \A d \in Deals : IsFiniteSet(Before(d)) /\ Cardinality(Before(d)) \in Nat
    BY <1>1, FS_Subset, FS_CardinalityType
<1>4. Batch(t) # {}
    <2>1. PICK f \in Collected(t) : \A e \in Collected(t) : f <= e  BY <1>1, FirstDeal
    <2>2. Before(f) = {}  BY <1>2, <2>1
    <2>3. Cardinality(Before(f)) = 0  BY <2>2, FS_EmptySet
    <2>4. 0 < BatchSize  BY LiveSyncConstants
    <2> QED BY <2>1, <2>3, <2>4 DEF Batch
<1>5. Batch(t) \in SUBSET Deals /\ \A d \in Batch(t) : Time[d] > known[t].from
    BY <1>1 DEF Batch, Collected
<1>6. PICK m \in Batch(t) : LastTime(Batch(t)) = Time[m]
    BY <1>4, <1>5, LastTimeIsLast
<1>7. m \in Collected(t) /\ m \in Deals /\ Cardinality(Before(m)) < BatchSize  BY <1>1 DEF Batch
<1>8. ASSUME NEW d \in Deals, Time[d] <= Time[m]
      PROVE  \E e \in kept \cup Batch(t) : Time[e] = Time[d]
    <2>1. d \in Nat /\ m \in Nat /\ Time[d] \in Nat /\ Time[m] \in Nat  BY <1>7, DealsAreTimed
    <2>2. CASE Time[d] <= known[t].from
        BY <2>2 DEF StateTrue, Acked
    <2>3. CASE d > m
        <3>1. Time[m] <= Time[d]  BY <1>7, <2>1, <2>3, DealsAreTimed
        <3> QED BY <1>8, <2>1, <3>1
    <2>4. CASE ~ (Time[d] <= known[t].from) /\ ~ (d > m)
        <3>1. known[t].from \in Nat  BY DEF States
        <3>2. d \in Collected(t)  BY <1>7, <1>8, <2>1, <2>4, <3>1 DEF Collected
        <3>3. Before(d) \subseteq Before(m)  BY <1>2, <2>1, <2>4
        <3>4. Cardinality(Before(d)) <= Cardinality(Before(m))  BY <1>3, <1>7, <3>3, FS_Subset
        <3>5. Cardinality(Before(d)) < BatchSize
            <4>1. /\ Cardinality(Before(d)) \in Nat /\ Cardinality(Before(m)) \in Nat
                  /\ Cardinality(Before(m)) < BatchSize
                BY <1>3, <1>7
            <4>2. BatchSize \in Nat  BY LiveSyncConstants
            <4> HIDE DEF Before
            <4> QED BY <3>4, <4>1, <4>2
        <3>6. d \in Batch(t)  BY <3>2, <3>5 DEF Batch
        <3> QED BY <3>6
    <2> QED BY <2>2, <2>3, <2>4
<1> HIDE DEF Before
<1> QED BY <1>4, <1>5, <1>6, <1>8 DEF Acked

(* The position after a batch is covered by the batch's last time. *)
LEMMA NextPosition ==
    ASSUME NEW kept, NEW q \in SyncRequests, RequestTrue(kept, q)
    PROVE  /\ LastTime(q.deals) \in Nat /\ Covers(q.hash, LastTime(q.deals))
           /\ <<q.seq, q.deals>> \in Nat \X SUBSET Deals
           /\ Len(q.prev) \in Nat /\ Len(q.hash) = Len(q.prev) + 1
           /\ \A k \in 1 .. Len(q.prev) : q.hash[k] = q.prev[k]
           /\ q.hash[Len(q.prev) + 1] = <<q.seq, q.deals>>
<1>1. q.prev \in Seq(Nat \X SUBSET Deals) /\ q.seq \in Nat /\ q.deals \in SUBSET Deals /\ q.deals # {}
    BY DEF SyncRequests, Chains, RequestTrue
<1>2. <<q.seq, q.deals>> \in Nat \X SUBSET Deals  BY <1>1
<1>3. /\ Len(q.prev) \in Nat /\ Len(q.hash) = Len(q.prev) + 1
      /\ \A k \in 1 .. Len(q.prev) : q.hash[k] = q.prev[k]
      /\ q.hash[Len(q.prev) + 1] = <<q.seq, q.deals>>
    BY <1>1, <1>2, AppendProperties DEF RequestTrue
<1>4. LastTime(q.deals) \in Nat /\ \A e \in q.deals : Time[e] <= LastTime(q.deals)
    BY <1>1, LastTimeIsLast
<1>5. ASSUME NEW k \in 1 .. Len(q.hash), NEW e \in q.hash[k][2] PROVE Time[e] <= LastTime(q.deals)
    <2>1. CASE k = Len(q.prev) + 1  BY <1>3, <1>4, <1>5, <2>1
    <2>2. CASE k # Len(q.prev) + 1
        <3>1. k \in 1 .. Len(q.prev) /\ e \in q.prev[k][2]  BY <1>3, <1>5, <2>2
        <3>2. PICK d \in q.deals : TRUE  BY <1>1
        <3>3. Time[e] < Time[d]  BY <3>1, <3>2 DEF RequestTrue
        <3>4. e \in Deals /\ d \in Deals
            <4>1. q.prev[k] \in Nat \X SUBSET Deals  BY <1>1, <3>1
            <4> QED BY <1>1, <3>1, <3>2, <4>1
        <3> QED BY <1>4, <3>2, <3>3, <3>4, DealsAreTimed
    <2> QED BY <2>1, <2>2
<1> QED BY <1>2, <1>3, <1>4, <1>5 DEF Covers

(* A longer chain: the new batch behind the old ones. *)
LEMMA ChainGrows ==
    ASSUME NEW q \in SyncRequests, NEW kept, RequestTrue(kept, q), ChainIsWhole, account \in Accounts,
           q.prev = account.head, q.seq = account.seq + 1,
           account' = [account EXCEPT !.seq = q.seq, !.head = q.hash, !.last = LastTime(q.deals)],
           stored' = stored \cup q.deals, batches' = batches \cup {[seq |-> q.seq, hash |-> q.hash]}
    PROVE  ChainIsWhole'
<1> DEFINE h == account.head
           n == Len(account.head)
           new == <<q.seq, q.deals>>
<1>1. h \in Seq(Nat \X SUBSET Deals) /\ n \in Nat  BY DEF Accounts, Chains
<1>2. /\ new \in Nat \X SUBSET Deals /\ q.hash = Append(h, new) /\ Len(q.hash) = n + 1
      /\ \A k \in 1 .. n : q.hash[k] = h[k]
      /\ q.hash[n + 1] = new
    BY NextPosition DEF RequestTrue
<1>3. account'.head = q.hash /\ account'.seq = q.seq  BY DEF Accounts
<1>4. account.seq = n /\ q.seq = n + 1 /\ q.hash \in Seq(Nat \X SUBSET Deals)
    BY <1>1, <1>2, AppendProperties DEF ChainIsWhole
<1>5. \A k \in 1 .. n : SubSeq(q.hash, 1, k) = SubSeq(h, 1, k)
    <2>1. q.hash = h \o <<new>>  BY <1>1, <1>2, AppendIsConcat
    <2>2. <<new>> \in Seq(Nat \X SUBSET Deals)  BY <1>2
    <2>3. ASSUME NEW k \in 1 .. n PROVE SubSeq(h \o <<new>>, 1, k) = SubSeq(h, 1, k)
        <3>1. 1 \in 1 .. Len(h) /\ k \in 1 .. Len(h)  BY <1>1
        <3> HIDE DEF h, new
        <3> QED BY <1>1, <2>2, <3>1, SubSeqOfConcat1
    <2> QED BY <2>1, <2>3
<1>6. SubSeq(q.hash, 1, n + 1) = q.hash  BY <1>2, <1>4, SubSeqFull
<1>7. batches' = {[seq |-> k, hash |-> SubSeq(account'.head, 1, k)] : k \in 1 .. Len(account'.head)}
    <2>1. batches = {[seq |-> k, hash |-> SubSeq(h, 1, k)] : k \in 1 .. n}  BY DEF ChainIsWhole
    <2>2. 1 .. (n + 1) = (1 .. n) \cup {n + 1}  BY <1>1
    <2> HIDE DEF h, n, new
    <2>3. batches' = {[seq |-> k, hash |-> SubSeq(q.hash, 1, k)] : k \in 1 .. (n + 1)}
        BY <1>4, <1>5, <1>6, <2>1, <2>2
    <2> QED BY <1>2, <1>3, <2>3
<1>8. stored' = UNION {Reported(k)' : k \in 1 .. Len(account'.head)}
    <2>1. stored = UNION {h[k][2] : k \in 1 .. n}  BY DEF ChainIsWhole, Reported
    <2>2. 1 .. (n + 1) = (1 .. n) \cup {n + 1}  BY <1>1
    <2>3. new[2] = q.deals  OBVIOUS
    <2>4. \A k \in 1 .. (n + 1) : Reported(k)' = q.hash[k][2]  BY <1>3 DEF Reported
    <2>5. Len(account'.head) = n + 1  BY <1>2, <1>3
    <2> HIDE DEF h, n, new
    <2>6. stored' = UNION {q.hash[k][2] : k \in 1 .. (n + 1)}
        BY <1>2, <2>1, <2>2, <2>3
    <2> QED BY <2>4, <2>5, <2>6
<1>9. ASSUME NEW k \in 1 .. Len(account'.head), NEW l \in 1 .. Len(account'.head), k < l,
             NEW d \in Reported(k)', NEW e \in Reported(l)'
      PROVE  Time[d] < Time[e]
    <2>1. k \in 1 .. n /\ d \in h[k][2]  BY <1>1, <1>2, <1>3, <1>9 DEF Reported
    <2>2. CASE l = n + 1
        <3>1. e \in q.deals  BY <1>2, <1>3, <1>9, <2>2 DEF Reported
        <3> QED BY <2>1, <3>1 DEF RequestTrue
    <2>3. CASE l # n + 1
        <3>1. l \in 1 .. n /\ e \in h[l][2]  BY <1>1, <1>2, <1>3, <1>9, <2>3 DEF Reported
        <3> QED BY <1>9, <2>1, <3>1 DEF ChainIsWhole, Reported
    <2> QED BY <2>2, <2>3
<1>10. account'.seq = Len(account'.head)  BY <1>2, <1>3, <1>4
<1> QED BY <1>7, <1>8, <1>9, <1>10 DEF ChainIsWhole

-----------------------------------------------------------------------------
(* The initial states. *)
LEMMA Nothing ==
    /\ ZERO_HASH \in Chains /\ Len(ZERO_HASH) = 0
    /\ NewState \in States /\ NoRequest \in SyncRequests /\ NoAccount \in Accounts
    /\ NoReply \in [code : {0, 200, 409, 500}, seq : Nat, head : Chains, last : Nat]
    /\ \A kept : StateTrue(kept, NewState) /\ Acked(kept, 0)
<1>1. ZERO_HASH \in Chains /\ Len(ZERO_HASH) = 0  BY DEF ZERO_HASH, Chains
<1>2. NewState \in States /\ NoRequest \in SyncRequests
    BY <1>1 DEF NewState, States, NoRequest, SyncRequests
<1>3. MaxDeletes \in Nat  BY LiveSyncConstants
<1>4. NoAccount \in Accounts  BY <1>1, <1>3 DEF NoAccount, Accounts
<1>5. NoReply \in [code : {0, 200, 409, 500}, seq : Nat, head : Chains, last : Nat]
    BY <1>1 DEF NoReply
<1>6. \A kept : Acked(kept, 0)  BY DealsAreTimed DEF Acked
<1>7. \A kept : StateTrue(kept, NewState)
    BY <1>1, <1>6 DEF StateTrue, NewState, Covers
<1> QED BY <1>1, <1>2, <1>4, <1>5, <1>6, <1>7

LEMMA NoChain == ASSUME account = NoAccount, stored = {}, batches = {} PROVE ChainIsWhole
<1>1. account.seq = 0 /\ account.head = ZERO_HASH  BY DEF NoAccount
<1>2. Len(account.head) = 0 /\ 1 .. Len(account.head) = {}  BY <1>1, Nothing
<1> QED BY <1>1, <1>2 DEF ChainIsWhole

LEMMA LiveSyncInvInit == LiveSyncInit => LiveSyncInv
<1> SUFFICES ASSUME LiveSyncInit PROVE LiveSyncInv
    OBVIOUS
<1>1. MaxDeletes \in Nat  BY LiveSyncConstants
<1>2. LiveSyncTypeOK
    <2>1. /\ request \in [Calls -> SyncRequests] /\ accountRow \in [Calls -> Accounts]
          /\ known \in [Terminals -> States] /\ file \in [Terminals -> States]
          /\ reply \in [Calls -> [code : {0, 200, 409, 500}, seq : Nat, head : Chains, last : Nat]]
        BY Nothing DEF LiveSyncInit
    <2> QED BY <1>1, <2>1, Nothing DEF LiveSyncInit, LiveSyncTypeOK, SyncRequests
<1>3. AccountTrue
    <2>1. ChainIsWhole  BY NoChain DEF LiveSyncInit
    <2>2. Covers(account.head, account.last) /\ Acked(Kept, account.last)
        BY Nothing DEF LiveSyncInit, NoAccount, Covers
    <2> QED BY <2>1, <2>2 DEF LiveSyncInit, AccountTrue
<1>4. StateInv  BY Nothing DEF LiveSyncInit, StateInv
<1>5. CallInv  BY DEF LiveSyncInit, CallInv, CallTrue
<1> QED BY <1>2, <1>3, <1>4, <1>5 DEF LiveSyncInv

-----------------------------------------------------------------------------
(* Steps that leave the server's rows alone. *)
LEMMA ServerRests ==
    ASSUME LiveSyncInv, UNCHANGED lsServer
    PROVE  AccountTrue' /\ Kept' = Kept
BY DEF LiveSyncInv, AccountTrue, lsServer, Kept, ChainIsWhole, Reported

LEMMA SendKeeps ==
    ASSUME LiveSyncInv, NEW t \in Terminals, NEW c \in Calls, Send(t, c)
    PROVE  LiveSyncInv'
<1> USE DEF LiveSyncInv
<1> DEFINE q == [seq |-> known[t].seq + 1, prev |-> known[t].head, deals |-> Batch(t),
                 hash |-> Append(known[t].head, <<known[t].seq + 1, Batch(t)>>)]
<1>1. UNCHANGED lsServer  BY DEF Send
<1>2. AccountTrue' /\ Kept' = Kept  BY <1>1, ServerRests
<1>3. known[t] \in States /\ clock \in Nat /\ StateTrue(Kept, known[t]) /\ Collected(t) # {}
    BY DEF LiveSyncTypeOK, StateInv, Send
<1>4. /\ Batch(t) \in SUBSET Deals /\ Batch(t) # {}
      /\ \A d \in Batch(t) : Time[d] > known[t].from
      /\ Acked(Kept \cup Batch(t), LastTime(Batch(t)))
    BY <1>3, BatchFits
<1>5. q \in SyncRequests
    <2>1. known[t].seq + 1 \in Nat /\ known[t].head \in Seq(Nat \X SUBSET Deals)
        BY <1>3 DEF States, Chains
    <2>2. <<known[t].seq + 1, Batch(t)>> \in Nat \X SUBSET Deals  BY <1>4, <2>1
    <2>3. q.hash \in Chains  BY <2>1, <2>2, AppendProperties DEF Chains
    <2> QED BY <1>4, <2>1, <2>3 DEF SyncRequests, Chains
<1>6. RequestTrue(Kept, q)
    <2>1. ASSUME NEW k \in 1 .. Len(known[t].head), NEW e \in known[t].head[k][2], NEW d \in Batch(t)
          PROVE  Time[e] < Time[d]
        <3>1. Time[e] <= known[t].from /\ Time[d] > known[t].from
            BY <1>3, <1>4, <2>1 DEF StateTrue, Covers
        <3>2. known[t].head[k] \in Nat \X SUBSET Deals  BY <1>3 DEF States, Chains
        <3>3. e \in Deals /\ d \in Deals  BY <1>4, <3>2
        <3>4. Time[e] \in Nat /\ Time[d] \in Nat /\ known[t].from \in Nat
            BY <1>3, <3>3, DealsAreTimed DEF States
        <3> QED BY <3>1, <3>4
    <2> QED BY <1>4, <2>1 DEF RequestTrue
<1>7. request' = [request EXCEPT ![c] = q]  BY DEF Send
<1> HIDE DEF q
<1>8. LiveSyncTypeOK'
    <2>1. ServerTyped' /\ clock' \in Nat
        BY <1>1, TypedInParts DEF ServerTyped, Send, lsServer
    <2>2. ClientTyped'
        BY TypedInParts DEF ClientTyped, Send
    <2>3. CallsTyped'
        BY <1>5, <1>7, TypedInParts DEF CallsTyped, Send, Pcs
    <2> QED BY <2>1, <2>2, <2>3, TypedNext
<1>9. StateInv'  BY <1>2 DEF StateInv, Send
<1>10. CallInv'
    <2>1. ASSUME NEW d \in Calls
          PROVE  CallTrue(Kept', deletes', account', lsPc'[d], request'[d], accountRow'[d], reply'[d])
        <3>1. CASE d = c
            <4>1. lsPc'[c] = "account" /\ request'[c] = q
                BY <1>7 DEF Send, LiveSyncTypeOK
            <4> QED BY <1>2, <1>6, <3>1, <4>1 DEF CallTrue
        <3>2. CASE d # c
            <4>1. /\ lsPc'[d] = lsPc[d] /\ request'[d] = request[d]
                  /\ accountRow' = accountRow /\ reply' = reply
                BY <1>7, <3>2 DEF Send, LiveSyncTypeOK
            <4>2. deletes' = deletes /\ account' = account  BY <1>1 DEF lsServer
            <4> QED BY <1>2, <4>1, <4>2 DEF CallInv
        <3> QED BY <3>1, <3>2
    <2> QED BY <2>1 DEF CallInv
<1> QED BY <1>2, <1>8, <1>9, <1>10

LEMMA ServerStaysTyped ==
    ASSUME LiveSyncTypeOK, UNCHANGED lsServer
    PROVE  ServerTyped'
BY TypedInParts DEF ServerTyped, lsServer

LEMMA CallsRest ==
    ASSUME LiveSyncInv, UNCHANGED lsServer, UNCHANGED lsCall
    PROVE  CallsTyped' /\ CallInv'
<1>1. CallsTyped  BY TypedInParts DEF LiveSyncInv
<1>2. CallsTyped'  BY <1>1 DEF CallsTyped, lsCall
<1>3. Kept' = Kept /\ deletes' = deletes /\ account' = account
    BY ServerRests DEF lsServer
<1>4. lsPc' = lsPc /\ request' = request /\ accountRow' = accountRow /\ reply' = reply
    BY DEF lsCall
<1> QED BY <1>2, <1>3, <1>4 DEF LiveSyncInv, CallInv

LEMMA EndCallKeeps ==
    ASSUME LiveSyncInv, UNCHANGED lsServer, NEW c \in Calls, EndCall(c)
    PROVE  CallsTyped' /\ CallInv'
<1>1. CallsTyped  BY TypedInParts DEF LiveSyncInv
<1>2. CallsTyped'
    <2>1. NoRequest \in SyncRequests /\ NoAccount \in Accounts /\ NoReply \in Replies
        BY Nothing DEF Replies
    <2> QED BY <1>1, <2>1 DEF CallsTyped, EndCall, Pcs
<1>3. Kept' = Kept /\ deletes' = deletes /\ account' = account
    BY ServerRests DEF lsServer
<1>4. ASSUME NEW d \in Calls
      PROVE  CallTrue(Kept', deletes', account', lsPc'[d], request'[d], accountRow'[d], reply'[d])
    <2>1. CASE d = c
        <3>1. lsPc'[c] = "idle"  BY <1>1 DEF EndCall, CallsTyped
        <3> QED BY <2>1, <3>1 DEF CallTrue
    <2>2. CASE d # c
        <3>1. /\ lsPc'[d] = lsPc[d] /\ request'[d] = request[d]
              /\ accountRow'[d] = accountRow[d] /\ reply'[d] = reply[d]
            BY <1>1, <2>2 DEF EndCall, CallsTyped
        <3> QED BY <1>3, <3>1 DEF LiveSyncInv, CallInv
    <2> QED BY <2>1, <2>2
<1> QED BY <1>2, <1>4 DEF CallInv

LEMMA GiveUpKeeps ==
    ASSUME LiveSyncInv, NEW t \in Terminals, GiveUp(t)
    PROVE  LiveSyncInv'
<1>1. UNCHANGED lsServer /\ UNCHANGED lsCall /\ UNCHANGED <<known, file, clock>>
    BY DEF GiveUp
<1>2. ServerTyped' /\ CallsTyped' /\ CallInv' /\ AccountTrue' /\ Kept' = Kept
    BY <1>1, ServerStaysTyped, CallsRest, ServerRests DEF LiveSyncInv
<1>3. ClientTyped' /\ (clock \in Nat)'
    BY <1>1, TypedInParts DEF LiveSyncInv, ClientTyped, GiveUp
<1>4. LiveSyncTypeOK'  BY <1>2, <1>3, TypedNext
<1>5. StateInv'  BY <1>1, <1>2 DEF LiveSyncInv, StateInv
<1> QED BY <1>2, <1>4, <1>5 DEF LiveSyncInv

LEMMA DroppedKeeps ==
    ASSUME LiveSyncInv, NEW c \in Calls, Dropped(c)
    PROVE  LiveSyncInv'
<1>1. UNCHANGED lsServer /\ EndCall(c) /\ UNCHANGED <<known, file, clock, waiting>>
    BY DEF Dropped, lsClient
<1>2. ServerTyped' /\ CallsTyped' /\ CallInv' /\ AccountTrue' /\ Kept' = Kept
    BY <1>1, ServerStaysTyped, EndCallKeeps, ServerRests DEF LiveSyncInv
<1>3. ClientTyped' /\ (clock \in Nat)'
    BY <1>1, TypedInParts DEF LiveSyncInv, ClientTyped
<1>4. LiveSyncTypeOK'  BY <1>2, <1>3, TypedNext
<1>5. StateInv'  BY <1>1, <1>2 DEF LiveSyncInv, StateInv
<1> QED BY <1>2, <1>4, <1>5 DEF LiveSyncInv

LEMMA SettleKeeps ==
    ASSUME LiveSyncInv, Settle
    PROVE  LiveSyncInv'
<1>1. UNCHANGED lsServer /\ UNCHANGED lsCall /\ UNCHANGED <<known, file, waiting>>
    BY DEF Settle, lsClient
<1>2. ServerTyped' /\ CallsTyped' /\ CallInv' /\ AccountTrue' /\ Kept' = Kept
    BY <1>1, ServerStaysTyped, CallsRest, ServerRests DEF LiveSyncInv
<1>3. ClientTyped'  BY <1>1, TypedInParts DEF LiveSyncInv, ClientTyped
<1>4. (clock \in Nat)'  BY DealsAreTimed DEF Settle
<1>5. LiveSyncTypeOK'  BY <1>2, <1>3, <1>4, TypedNext
<1>6. StateInv'  BY <1>1, <1>2 DEF LiveSyncInv, StateInv
<1> QED BY <1>2, <1>5, <1>6 DEF LiveSyncInv

(* A terminal adopts a position that is true. *)
LEMMA AdoptKeeps ==
    ASSUME LiveSyncInv, NEW t \in Terminals, NEW state \in States, StateTrue(Kept, state),
           Kept' = Kept, known' = [known EXCEPT ![t] = state],
           file' = [file EXCEPT ![t] = state] \/ file' = file,
           waiting' = [waiting EXCEPT ![t] = NoCall]
    PROVE  ClientTyped' /\ StateInv'
<1>1. ClientTyped /\ StateInv  BY TypedInParts DEF LiveSyncInv
<1>2. ClientTyped'  BY <1>1 DEF ClientTyped
<1>3. ASSUME NEW u \in Terminals PROVE StateTrue(Kept', known'[u]) /\ StateTrue(Kept', file'[u])
    <2>1. known'[u] = state \/ known'[u] = known[u]  BY <1>1 DEF ClientTyped
    <2>2. file'[u] = state \/ file'[u] = file[u]  BY <1>1 DEF ClientTyped
    <2>3. StateTrue(Kept', known'[u])  BY <1>1, <2>1 DEF StateInv
    <2>4. StateTrue(Kept', file'[u])  BY <1>1, <2>2 DEF StateInv
    <2> QED BY <2>3, <2>4
<1> QED BY <1>2, <1>3 DEF StateInv

LEMMA RestartKeeps ==
    ASSUME LiveSyncInv, NEW t \in Terminals, Restart(t)
    PROVE  LiveSyncInv'
<1>1. UNCHANGED lsServer /\ UNCHANGED lsCall /\ UNCHANGED clock
    BY DEF Restart
<1>2. ServerTyped' /\ CallsTyped' /\ CallInv' /\ AccountTrue' /\ Kept' = Kept
    BY <1>1, ServerStaysTyped, CallsRest, ServerRests DEF LiveSyncInv
<1>3. PICK state \in {file[t], NewState} :
         known' = [known EXCEPT ![t] = state] /\ file' = [file EXCEPT ![t] = state]
    BY DEF Restart
<1>4. file[t] \in States /\ StateTrue(Kept, file[t])
    BY TypedInParts DEF LiveSyncInv, ClientTyped, StateInv
<1>5. state \in States /\ StateTrue(Kept, state)  BY <1>3, <1>4, Nothing
<1>6. waiting' = [waiting EXCEPT ![t] = NoCall]  BY DEF Restart
<1>7. ClientTyped' /\ StateInv'  BY <1>2, <1>3, <1>5, <1>6, AdoptKeeps
<1>8. (clock \in Nat)'  BY <1>1, TypedInParts DEF LiveSyncInv
<1>9. LiveSyncTypeOK'  BY <1>2, <1>7, <1>8, TypedNext
<1> QED BY <1>2, <1>7, <1>9 DEF LiveSyncInv

LEMMA ReceiveKeeps ==
    ASSUME LiveSyncInv, NEW t \in Terminals, Receive(t)
    PROVE  LiveSyncInv'
<1> DEFINE c == waiting[t]
           r == reply[c]
           from == known[t].from
           after200 == [seq |-> r.seq, head |-> r.head, from |-> LastTime(request[c].deals)]
           after409 == [seq |-> r.seq, head |-> r.head, from |-> IF r.last > from THEN r.last ELSE from]
<1>1. ClientTyped /\ CallsTyped /\ StateInv /\ CallInv /\ clock \in Nat
    BY TypedInParts DEF LiveSyncInv
<1>2. c \in Calls /\ lsPc[c] = "answer" /\ EndCall(c) /\ UNCHANGED lsServer /\ UNCHANGED clock
    BY <1>1 DEF Receive, ClientTyped
<1>3. ServerTyped' /\ CallsTyped' /\ CallInv' /\ AccountTrue' /\ Kept' = Kept
    BY <1>2, ServerStaysTyped, EndCallKeeps, ServerRests DEF LiveSyncInv
<1>4. RequestTrue(Kept, request[c]) /\ ReplyTrue(Kept, r, request[c])
    BY <1>1, <1>2 DEF CallInv, CallTrue
<1>5. request[c] \in SyncRequests /\ r \in Replies /\ known[t] \in States /\ StateTrue(Kept, known[t])
    BY <1>1, <1>2 DEF CallsTyped, ClientTyped, StateInv
<1>6. waiting' = [waiting EXCEPT ![t] = NoCall]  BY DEF Receive
<1>7. CASE r.code = 200
    <2>1. Adopt(t, after200)  BY <1>7 DEF Receive
    <2>2. r.head = request[c].hash /\ request[c].deals \subseteq Kept
        BY <1>4, <1>7 DEF ReplyTrue
    <2>3. LastTime(request[c].deals) \in Nat /\ Covers(request[c].hash, LastTime(request[c].deals))
        BY <1>4, <1>5, NextPosition
    <2>4. Acked(Kept, LastTime(request[c].deals))
        <3>1. Kept \cup request[c].deals = Kept  BY <2>2
        <3> QED BY <1>4, <3>1 DEF RequestTrue
    <2>5. after200 \in States  BY <1>5, <2>3 DEF States, Replies
    <2>6. StateTrue(Kept, after200)  BY <2>2, <2>3, <2>4 DEF StateTrue
    <2> HIDE DEF after200, c
    <2>7. known' = [known EXCEPT ![t] = after200] /\ (file' = [file EXCEPT ![t] = after200] \/ file' = file)
        BY <2>1 DEF Adopt
    <2> QED BY <1>3, <1>6, <2>5, <2>6, <2>7, AdoptKeeps, TypedNext, <1>1, <1>2 DEF LiveSyncInv
<1>8. CASE r.code = 409
    <2>1. Adopt(t, after409)  BY <1>8 DEF Receive
    <2>2. Covers(r.head, r.last) /\ Acked(Kept, r.last)
        BY <1>4, <1>8 DEF ReplyTrue
    <2>3. r.last \in Nat /\ from \in Nat /\ r.seq \in Nat /\ r.head \in Seq(Nat \X SUBSET Deals)
        BY <1>5 DEF Replies, States, Chains
    <2>4. Acked(Kept, from)  BY <1>5 DEF StateTrue
    <2>5. after409 \in States  BY <2>3 DEF States, Chains
    <2>6. Covers(r.head, after409.from)
        <3>1. ASSUME NEW k \in 1 .. Len(r.head), NEW e \in r.head[k][2] PROVE Time[e] <= after409.from
            <4>1. r.head[k] \in Nat \X SUBSET Deals  BY <2>3
            <4>2. e \in Deals  BY <4>1
            <4>3. Time[e] \in Nat /\ Time[e] <= r.last  BY <2>2, <4>2, DealsAreTimed DEF Covers
            <4> HIDE DEF r, from
            <4> QED BY <2>3, <4>3
        <3> QED BY <3>1 DEF Covers
    <2>7. StateTrue(Kept, after409)
        <3>1. after409.from = r.last \/ after409.from = from  OBVIOUS
        <3>2. Acked(Kept, after409.from)  BY <2>2, <2>4, <3>1
        <3>3. after409.head = r.head  OBVIOUS
        <3> HIDE DEF after409
        <3> QED BY <2>6, <3>2, <3>3 DEF StateTrue
    <2> HIDE DEF after409, c
    <2>8. known' = [known EXCEPT ![t] = after409] /\ (file' = [file EXCEPT ![t] = after409] \/ file' = file)
        BY <2>1 DEF Adopt
    <2> QED BY <1>3, <1>6, <2>5, <2>7, <2>8, AdoptKeeps, TypedNext, <1>1, <1>2 DEF LiveSyncInv
<1>9. CASE r.code # 200 /\ r.code # 409
    <2>1. UNCHANGED <<known, file>>  BY <1>9 DEF Receive
    <2>2. ClientTyped' /\ StateInv'  BY <1>1, <1>3, <1>6, <2>1 DEF ClientTyped, StateInv
    <2> QED BY <1>1, <1>2, <1>3, <2>2, TypedNext DEF LiveSyncInv
<1> QED BY <1>7, <1>8, <1>9

-----------------------------------------------------------------------------
(* Steps of the server. *)
LEMMA CallGrows ==
    ASSUME NEW kept, NEW more, kept \subseteq more, NEW lives \in Nat, NEW lives2 \in Nat,
           NEW now \in Accounts, NEW now2 \in Accounts, Develops(lives, lives2, now, now2),
           NEW pc, NEW q, NEW row \in Accounts, NEW r, CallTrue(kept, lives, now, pc, q, row, r)
    PROVE  CallTrue(more, lives2, now2, pc, q, row, r)
<1>1. pc # "idle" => RequestTrue(more, q)  BY RequestGrows DEF CallTrue
<1>2. pc = "commit" => RowTrue(more, lives2, now2, row, q)  BY RowGrows DEF CallTrue
<1>3. pc = "answer" => ReplyTrue(more, r, q)  BY ReplyGrows DEF CallTrue
<1> QED BY <1>1, <1>2, <1>3 DEF CallTrue

(* Calls and terminals that do nothing while the server's rows develop. *)
LEMMA OthersKeep ==
    ASSUME LiveSyncInv, ServerTyped', Kept \subseteq Kept',
           Develops(deletes, deletes', account, account')
    PROVE  /\ UNCHANGED <<known, file>> => StateInv'
           /\ \A d \in Calls : CallTrue(Kept', deletes', account', lsPc[d], request[d], accountRow[d], reply[d])
<1>1. ServerTyped /\ CallsTyped /\ StateInv /\ CallInv  BY TypedInParts DEF LiveSyncInv
<1>2. deletes \in Nat /\ deletes' \in Nat /\ account \in Accounts /\ account' \in Accounts
    BY <1>1, LiveSyncConstants DEF ServerTyped
<1>3. UNCHANGED <<known, file>> => StateInv'
    BY <1>1, StateGrows DEF StateInv
<1>4. ASSUME NEW d \in Calls
      PROVE  CallTrue(Kept', deletes', account', lsPc[d], request[d], accountRow[d], reply[d])
    <2>1. CallTrue(Kept, deletes, account, lsPc[d], request[d], accountRow[d], reply[d])
        BY <1>1 DEF CallInv
    <2>2. accountRow[d] \in Accounts  BY <1>1 DEF CallsTyped
    <2> QED BY <1>2, <2>1, <2>2, CallGrows
<1> QED BY <1>3, <1>4

LEMMA BeginsItself == ASSUME NEW head \in Chains PROVE Begins(head, head)
BY DEF Begins, Chains

(* A chain that is whole: its deals are stored. *)
LEMMA ReportedIsStored ==
    ASSUME ChainIsWhole
    PROVE  \A k \in 1 .. Len(account.head) : account.head[k][2] \subseteq stored
BY DEF ChainIsWhole, Reported

(* What a call knows after its batch was judged against the current row. *)
LEMMA JudgeTells ==
    ASSUME CallsTyped, NEW c \in Calls, NEW row \in Accounts, NEW lives \in Nat, NEW kept, Judge(c, row),
           row # NoAccount, row.id = lives, row.seq = Len(row.head), RequestTrue(kept, request[c]),
           Covers(row.head, row.last), Acked(kept, row.last),
           \A k \in 1 .. Len(row.head) : row.head[k][2] \subseteq kept
    PROVE  /\ CallsTyped'
           /\ CallTrue(kept, lives, row, lsPc'[c], request'[c], accountRow'[c], reply'[c])
           /\ \A d \in Calls : d # c => /\ lsPc'[d] = lsPc[d] /\ request'[d] = request[d]
                                        /\ accountRow'[d] = accountRow[d] /\ reply'[d] = reply[d]
<1> DEFINE q == request[c]
           conflict == /\ ~(q.seq = row.seq /\ q.hash = row.head)
                       /\ q.seq # row.seq + 1 \/ q.prev # row.head
<1>1. accountRow' = [accountRow EXCEPT ![c] = row] /\ request' = request
    BY DEF Judge, Answered
<1>2. CASE conflict
    <2>1. /\ lsPc' = [lsPc EXCEPT ![c] = "answer"]
          /\ reply' = [reply EXCEPT ![c] = [code |-> 409, seq |-> row.seq, head |-> row.head, last |-> row.last]]
        BY <1>2 DEF Judge, Answered
    <2>2. [code |-> 409, seq |-> row.seq, head |-> row.head, last |-> row.last] \in Replies
        BY DEF Replies, Accounts
    <2> HIDE DEF q, conflict
    <2>3. CallsTyped'  BY <1>1, <2>1, <2>2 DEF CallsTyped, Pcs
    <2>4. /\ lsPc'[c] = "answer" /\ request'[c] = request[c]
          /\ reply'[c] = [code |-> 409, seq |-> row.seq, head |-> row.head, last |-> row.last]
        BY <1>1, <2>1 DEF CallsTyped
    <2>5. ReplyTrue(kept, reply'[c], request'[c])  BY <2>4 DEF ReplyTrue
    <2> QED BY <1>1, <2>1, <2>3, <2>4, <2>5 DEF CallTrue, CallsTyped
<1>3. CASE ~ conflict
    <2>1. lsPc' = [lsPc EXCEPT ![c] = "commit"] /\ reply' = reply
        BY <1>3 DEF Judge
    <2>2. q.hash = row.head \/ (q.prev = row.head /\ q.seq = row.seq + 1)  BY <1>3
    <2>3. CallsTyped'  BY <1>1, <2>1 DEF CallsTyped, Pcs
    <2>4. lsPc'[c] = "commit" /\ request'[c] = request[c] /\ accountRow'[c] = row
        BY <1>1, <2>1 DEF CallsTyped
    <2>5. Begins(row.head, row.head) /\ row.id \in 0 .. lives
        BY BeginsItself DEF Accounts
    <2>6. RowTrue(kept, lives, row, accountRow'[c], request'[c])
        BY <2>2, <2>4, <2>5 DEF RowTrue
    <2> HIDE DEF q, conflict
    <2> QED BY <1>1, <2>1, <2>3, <2>4, <2>6 DEF CallTrue, CallsTyped
<1> QED BY <1>2, <1>3

LEMMA GetAccountKeeps ==
    ASSUME LiveSyncInv, NEW c \in Calls, GetAccount(c)
    PROVE  LiveSyncInv'
<1>1. ServerTyped /\ CallsTyped /\ ClientTyped /\ StateInv /\ CallInv /\ clock \in Nat /\ AccountTrue
    BY TypedInParts DEF LiveSyncInv
<1>2. UNCHANGED lsServer /\ UNCHANGED <<clock, known, file, waiting>> /\ lsPc[c] = "account"
    BY DEF GetAccount, lsClient
<1>3. ServerTyped' /\ AccountTrue' /\ Kept' = Kept /\ deletes' = deletes /\ account' = account
    BY <1>2, ServerStaysTyped, ServerRests DEF LiveSyncInv, lsServer
<1>4. ClientTyped' /\ (clock \in Nat)' /\ StateInv'
    BY <1>1, <1>2, <1>3 DEF ClientTyped, StateInv
<1>5. CallsTyped' /\ CallInv'
    <2>1. RequestTrue(Kept, request[c])  BY <1>1, <1>2 DEF CallInv, CallTrue
    <2>2. CASE account = NoAccount
        <3>1. lsPc' = [lsPc EXCEPT ![c] = "create"] /\ UNCHANGED <<request, accountRow, reply>>
            BY <2>2 DEF GetAccount
        <3>2. CallsTyped'  BY <1>1, <3>1 DEF CallsTyped, Pcs
        <3>3. lsPc'[c] = "create" /\ \A d \in Calls : d # c => lsPc'[d] = lsPc[d]
            BY <1>1, <3>1 DEF CallsTyped
        <3>4. ASSUME NEW d \in Calls
              PROVE  CallTrue(Kept', deletes', account', lsPc'[d], request'[d], accountRow'[d], reply'[d])
            <4>1. CASE d = c  BY <1>3, <2>1, <3>1, <3>3, <4>1 DEF CallTrue
            <4>2. CASE d # c  BY <1>1, <1>3, <3>1, <3>3, <4>2 DEF CallInv
            <4> QED BY <4>1, <4>2
        <3> QED BY <3>2, <3>4 DEF CallInv
    <2>3. CASE account # NoAccount
        <3>1. Judge(c, account)  BY <2>3 DEF GetAccount
        <3>2. /\ account \in Accounts /\ deletes \in Nat /\ account.id = deletes
              /\ account.seq = Len(account.head)
              /\ Covers(account.head, account.last) /\ Acked(Kept, account.last)
            BY <1>1, <2>3, LiveSyncConstants DEF ServerTyped, AccountTrue, ChainIsWhole
        <3>3. \A k \in 1 .. Len(account.head) : account.head[k][2] \subseteq Kept
            BY <1>1, ReportedIsStored DEF AccountTrue, Kept
        <3>4. /\ CallsTyped'
              /\ CallTrue(Kept, deletes, account, lsPc'[c], request'[c], accountRow'[c], reply'[c])
              /\ \A d \in Calls : d # c => /\ lsPc'[d] = lsPc[d] /\ request'[d] = request[d]
                                           /\ accountRow'[d] = accountRow[d] /\ reply'[d] = reply[d]
            BY <1>1, <2>1, <2>3, <3>1, <3>2, <3>3, JudgeTells
        <3>5. ASSUME NEW d \in Calls
              PROVE  CallTrue(Kept', deletes', account', lsPc'[d], request'[d], accountRow'[d], reply'[d])
            <4>1. CASE d = c  BY <1>3, <3>4, <4>1
            <4>2. CASE d # c  BY <1>1, <1>3, <3>4, <4>2 DEF CallInv
            <4> QED BY <4>1, <4>2
        <3> QED BY <3>4, <3>5 DEF CallInv
    <2> QED BY <2>2, <2>3
<1> QED BY <1>3, <1>4, <1>5, TypedNext DEF LiveSyncInv

LEMMA CreateAccountKeeps ==
    ASSUME LiveSyncInv, NEW c \in Calls, CreateAccount(c)
    PROVE  LiveSyncInv'
<1>1. ServerTyped /\ CallsTyped /\ ClientTyped /\ StateInv /\ CallInv /\ clock \in Nat /\ AccountTrue
    BY TypedInParts DEF LiveSyncInv
<1>2. /\ UNCHANGED <<deletes, stored, batches, erased>> /\ UNCHANGED <<clock, known, file, waiting>>
      /\ lsPc[c] = "create" /\ Judge(c, account')
      /\ account' = IF account = NoAccount THEN NewAccount ELSE account
    BY DEF CreateAccount, lsClient
<1>3. /\ deletes \in Nat /\ deletes \in 0 .. MaxDeletes /\ MaxDeletes \in Nat
      /\ NewAccount \in Accounts /\ NewAccount.id = deletes /\ NewAccount # NoAccount
    <2>1. deletes \in Nat /\ deletes \in 0 .. MaxDeletes /\ MaxDeletes \in Nat
        BY <1>1, LiveSyncConstants DEF ServerTyped
    <2>2. NewAccount \in Accounts  BY <2>1, Nothing DEF NewAccount, Accounts
    <2>3. NewAccount.id = deletes /\ NoAccount.id = -1  BY DEF NewAccount, NoAccount
    <2>4. NewAccount # NoAccount  BY <2>1, <2>3
    <2> QED BY <2>1, <2>2, <2>3, <2>4
<1>4. ServerTyped' /\ account' # NoAccount /\ account'.id = deletes' /\ Kept' = Kept
    <2>1. account' \in Accounts /\ account' # NoAccount /\ account'.id = deletes'
        BY <1>1, <1>2, <1>3 DEF ServerTyped, AccountTrue
    <2> QED BY <1>1, <1>2, <2>1 DEF ServerTyped, Kept
<1>5. Develops(deletes, deletes', account, account')
    BY <1>2, <1>3 DEF Develops
<1>6. AccountTrue'
    <2>1. account'.head = account.head /\ account'.seq = account.seq /\ account'.last = account.last
        BY <1>2 DEF NewAccount, NoAccount
    <2>2. ChainIsWhole'
        <3>1. \A k : Reported(k)' = Reported(k)  BY <2>1 DEF Reported
        <3>2. ChainIsWhole  BY <1>1 DEF AccountTrue
        <3> QED BY <1>2, <2>1, <3>1, <3>2 DEF ChainIsWhole
    <2> QED BY <1>1, <1>4, <2>1, <2>2 DEF AccountTrue
<1>7. /\ UNCHANGED <<known, file>> => StateInv'
      /\ \A d \in Calls : CallTrue(Kept', deletes', account', lsPc[d], request[d], accountRow[d], reply[d])
    BY <1>4, <1>5, OthersKeep
<1>8. RequestTrue(Kept', request[c])  BY <1>1, <1>2, <1>4 DEF CallInv, CallTrue
<1>9. /\ account' \in Accounts /\ deletes' \in Nat /\ account'.seq = Len(account'.head)
      /\ Covers(account'.head, account'.last) /\ Acked(Kept', account'.last)
    BY <1>2, <1>3, <1>4, <1>6 DEF ServerTyped, AccountTrue, ChainIsWhole
<1>10. \A k \in 1 .. Len(account'.head) : account'.head[k][2] \subseteq Kept'
    BY <1>6 DEF AccountTrue, ChainIsWhole, Reported, Kept
<1>11. /\ CallsTyped'
       /\ CallTrue(Kept', deletes', account', lsPc'[c], request'[c], accountRow'[c], reply'[c])
       /\ \A d \in Calls : d # c => /\ lsPc'[d] = lsPc[d] /\ request'[d] = request[d]
                                    /\ accountRow'[d] = accountRow[d] /\ reply'[d] = reply[d]
    BY <1>1, <1>2, <1>4, <1>8, <1>9, <1>10, JudgeTells
<1>12. CallInv'
    <2>1. ASSUME NEW d \in Calls
          PROVE  CallTrue(Kept', deletes', account', lsPc'[d], request'[d], accountRow'[d], reply'[d])
        <3>1. CASE d = c  BY <1>11, <3>1
        <3>2. CASE d # c  BY <1>7, <1>11, <3>2
        <3> QED BY <3>1, <3>2
    <2> QED BY <2>1 DEF CallInv
<1>13. ClientTyped' /\ (clock \in Nat)' /\ StateInv'
    BY <1>1, <1>2, <1>7 DEF ClientTyped
<1> QED BY <1>4, <1>6, <1>11, <1>12, <1>13, TypedNext DEF LiveSyncInv

(* A call gets its answer. *)
LEMMA AnsweredTells ==
    ASSUME CallsTyped, NEW c \in Calls,
           NEW code \in {0, 200, 409, 500}, NEW seq \in Nat, NEW head \in Chains, NEW last \in Nat,
           Answered(c, code, seq, head, last), UNCHANGED accountRow
    PROVE  /\ CallsTyped'
           /\ lsPc'[c] = "answer" /\ request'[c] = request[c]
           /\ reply'[c].code = code /\ reply'[c].head = head
           /\ \A d \in Calls : d # c => /\ lsPc'[d] = lsPc[d] /\ request'[d] = request[d]
                                        /\ accountRow'[d] = accountRow[d] /\ reply'[d] = reply[d]
<1> DEFINE r == [code |-> code, seq |-> seq, head |-> head, last |-> last]
<1>1. lsPc' = [lsPc EXCEPT ![c] = "answer"] /\ reply' = [reply EXCEPT ![c] = r] /\ request' = request
    BY DEF Answered
<1>2. r \in Replies /\ r.code = code /\ r.head = head  BY DEF Replies
<1> HIDE DEF r
<1>3. CallsTyped'  BY <1>1, <1>2 DEF CallsTyped, Pcs
<1>4. lsPc'[c] = "answer" /\ request'[c] = request[c] /\ reply'[c] = r
    BY <1>1 DEF CallsTyped
<1> QED BY <1>1, <1>2, <1>3, <1>4 DEF CallsTyped

LEMMA CommitKeeps ==
    ASSUME LiveSyncInv, NEW c \in Calls, Commit(c)
    PROVE  LiveSyncInv'
<1> DEFINE q == request[c]
           row == accountRow[c]
           again == q.hash = row.head
           lost == account.id # row.id \/ (~again /\ \E b \in batches : b.seq = q.seq)
<1>1. ServerTyped /\ CallsTyped /\ ClientTyped /\ StateInv /\ CallInv /\ clock \in Nat /\ AccountTrue
    BY TypedInParts DEF LiveSyncInv
<1>2. /\ UNCHANGED <<deletes, erased>> /\ UNCHANGED <<clock, known, file, waiting>>
      /\ UNCHANGED accountRow /\ lsPc[c] = "commit"
    BY DEF Commit, lsClient
<1>3. /\ q \in SyncRequests /\ row \in Accounts /\ RequestTrue(Kept, q)
      /\ RowTrue(Kept, deletes, account, row, q)
    BY <1>1, <1>2 DEF CallsTyped, CallInv, CallTrue
<1>4. deletes \in Nat /\ account \in Accounts  BY <1>1, LiveSyncConstants DEF ServerTyped
<1>5. ClientTyped' /\ (clock \in Nat)'  BY <1>1, <1>2 DEF ClientTyped
<1>6. ASSUME ServerTyped', AccountTrue', Kept \subseteq Kept', Develops(deletes, deletes', account, account'),
             CallsTyped', CallTrue(Kept', deletes', account', lsPc'[c], request'[c], accountRow'[c], reply'[c]),
             \A d \in Calls : d # c => /\ lsPc'[d] = lsPc[d] /\ request'[d] = request[d]
                                       /\ accountRow'[d] = accountRow[d] /\ reply'[d] = reply[d]
      PROVE  LiveSyncInv'
    <2>1. /\ StateInv'
          /\ \A d \in Calls : CallTrue(Kept', deletes', account', lsPc[d], request[d], accountRow[d], reply[d])
        BY <1>2, <1>6, OthersKeep
    <2>2. ASSUME NEW d \in Calls
          PROVE  CallTrue(Kept', deletes', account', lsPc'[d], request'[d], accountRow'[d], reply'[d])
        <3>1. CASE d = c  BY <1>6, <3>1
        <3>2. CASE d # c  BY <1>6, <2>1, <3>2
        <3> QED BY <3>1, <3>2
    <2>3. CallInv'  BY <2>2 DEF CallInv
    <2> QED BY <1>5, <1>6, <2>1, <2>3, TypedNext DEF LiveSyncInv
<1>7. ASSUME UNCHANGED <<account, stored, batches>>,
             CallsTyped', CallTrue(Kept, deletes, account, lsPc'[c], request'[c], accountRow'[c], reply'[c]),
             \A d \in Calls : d # c => /\ lsPc'[d] = lsPc[d] /\ request'[d] = request[d]
                                       /\ accountRow'[d] = accountRow[d] /\ reply'[d] = reply[d]
      PROVE  LiveSyncInv'
    <2>1. UNCHANGED lsServer  BY <1>2, <1>7 DEF lsServer
    <2>2. ServerTyped' /\ AccountTrue' /\ Kept' = Kept
        BY <2>1, ServerStaysTyped, ServerRests DEF LiveSyncInv
    <2>3. Develops(deletes, deletes', account, account')  BY <1>2, <1>7 DEF Develops
    <2> QED BY <1>2, <1>6, <1>7, <2>2, <2>3
<1>8. CASE lost
    <2>1. Answered(c, 500, 0, ZERO_HASH, 0) /\ UNCHANGED <<account, stored, batches>>
        BY <1>8 DEF Commit
    <2>2. 500 \in {0, 200, 409, 500} /\ 500 # 409 /\ 500 # 200 /\ 0 \in Nat  OBVIOUS
    <2>3. /\ CallsTyped'
          /\ lsPc'[c] = "answer" /\ request'[c] = request[c] /\ reply'[c].code = 500
          /\ \A d \in Calls : d # c => /\ lsPc'[d] = lsPc[d] /\ request'[d] = request[d]
                                       /\ accountRow'[d] = accountRow[d] /\ reply'[d] = reply[d]
        BY <1>1, <1>2, <2>1, <2>2, Nothing, AnsweredTells
    <2>4. CallTrue(Kept, deletes, account, lsPc'[c], request'[c], accountRow'[c], reply'[c])
        BY <1>3, <2>2, <2>3 DEF CallTrue, ReplyTrue
    <2> QED BY <1>7, <2>1, <2>3, <2>4
<1>9. CASE ~ lost /\ again
    <2>1. Answered(c, 200, row.seq, row.head, row.last) /\ UNCHANGED <<account, stored, batches>>
        BY <1>9 DEF Commit
    <2>2. q.deals \subseteq Kept
        <3>1. q.hash[Len(q.prev) + 1] = <<q.seq, q.deals>> /\ Len(q.hash) = Len(q.prev) + 1 /\ Len(q.prev) \in Nat
            BY <1>3, NextPosition
        <3>2. \A k \in 1 .. Len(q.hash) : q.hash[k][2] \subseteq Kept  BY <1>3, <1>9 DEF RowTrue
        <3> HIDE DEF q, row
        <3>3. Len(q.prev) + 1 \in 1 .. Len(q.hash)  BY <3>1
        <3>4. q.hash[Len(q.prev) + 1][2] = q.deals  BY <3>1
        <3> QED BY <3>2, <3>3, <3>4
    <2>3. row.head = q.hash /\ row.seq \in Nat /\ row.head \in Chains /\ row.last \in Nat
        BY <1>3, <1>9 DEF Accounts
    <2> HIDE DEF row, again, lost
    <2>4. 200 \in {0, 200, 409, 500} /\ 200 # 409  OBVIOUS
    <2>5. /\ CallsTyped'
          /\ lsPc'[c] = "answer" /\ request'[c] = request[c]
          /\ reply'[c].code = 200 /\ reply'[c].head = row.head
          /\ \A d \in Calls : d # c => /\ lsPc'[d] = lsPc[d] /\ request'[d] = request[d]
                                       /\ accountRow'[d] = accountRow[d] /\ reply'[d] = reply[d]
        BY <1>1, <1>2, <2>1, <2>3, <2>4, AnsweredTells
    <2>6. CallTrue(Kept, deletes, account, lsPc'[c], request'[c], accountRow'[c], reply'[c])
        BY <1>3, <2>2, <2>3, <2>4, <2>5 DEF CallTrue, ReplyTrue
    <2> QED BY <1>7, <2>1, <2>5, <2>6
<1>10. CASE ~ lost /\ ~ again
    <2>1. /\ stored' = stored \cup q.deals
          /\ batches' = batches \cup {[seq |-> q.seq, hash |-> q.hash]}
          /\ account' = [account EXCEPT !.seq = q.seq, !.head = q.hash, !.last = LastTime(q.deals)]
          /\ Answered(c, 200, q.seq, q.hash, LastTime(q.deals))
        BY <1>10 DEF Commit
    <2>2. /\ account.id = row.id /\ Begins(row.head, account.head)
          /\ q.prev = row.head /\ q.seq = row.seq + 1 /\ row.seq = Len(row.head) /\ row.id \in 0 .. deletes
        BY <1>3, <1>10 DEF RowTrue
    <2>3. ChainIsWhole  BY <1>1 DEF AccountTrue
    <2>4. row.head \in Seq(Nat \X SUBSET Deals) /\ account.head \in Seq(Nat \X SUBSET Deals)
        BY <1>3, <1>4 DEF Accounts, Chains
    <2>5. Len(row.head) = Len(account.head)
        <3>1. Len(row.head) \in Nat /\ Len(account.head) \in Nat /\ Len(row.head) <= Len(account.head)
            BY <2>2, <2>4 DEF Begins
        <3>2. ASSUME Len(row.head) + 1 \in 1 .. Len(account.head) PROVE FALSE
            <4>1. [seq |-> q.seq, hash |-> SubSeq(account.head, 1, q.seq)] \in batches
                BY <2>2, <2>3, <3>2 DEF ChainIsWhole
            <4> QED BY <1>10, <4>1
        <3> HIDE DEF q, row, again, lost
        <3> QED BY <3>1, <3>2
    <2>6. row.head = account.head
        BY <2>2, <2>4, <2>5, SeqEqual DEF Begins
    <2>7. account # NoAccount /\ account.id = deletes /\ account.seq = Len(account.head)
        <3>1. NoAccount.id = -1  BY DEF NoAccount
        <3> QED BY <1>1, <1>4, <2>2, <3>1 DEF AccountTrue, ChainIsWhole
    <2>8. /\ LastTime(q.deals) \in Nat /\ Covers(q.hash, LastTime(q.deals)) /\ Len(account.head) \in Nat
          /\ Len(q.hash) = Len(account.head) + 1
          /\ \A k \in 1 .. Len(account.head) : q.hash[k] = account.head[k]
        BY <1>3, <2>2, <2>6, NextPosition
    <2>9. ChainIsWhole'  BY <1>3, <1>4, <2>1, <2>2, <2>3, <2>6, <2>7, ChainGrows
    <2>10. /\ q.seq \in Nat /\ q.hash \in Chains /\ q.deals \in SUBSET Deals
        BY <1>3 DEF SyncRequests
    <2>11. /\ account' \in Accounts /\ account'.id = account.id /\ account'.head = q.hash
           /\ account'.last = LastTime(q.deals)
        BY <1>4, <2>1, <2>8, <2>10 DEF Accounts
    <2>12. Kept' = Kept \cup q.deals  BY <1>2, <2>1 DEF Kept
    <2>13. ServerTyped'  BY <1>1, <1>2, <2>1, <2>10, <2>11 DEF ServerTyped
    <2>14. account' # NoAccount /\ Begins(account.head, account'.head)
        <3>1. NoAccount.id = -1  BY DEF NoAccount
        <3>2. account'.id # NoAccount.id  BY <1>4, <2>7, <2>11, <3>1
        <3> QED BY <2>8, <2>11, <3>2 DEF Begins
    <2>15. Develops(deletes, deletes', account, account')
        BY <1>2, <2>7, <2>11, <2>14 DEF Develops
    <2>16. Acked(Kept', LastTime(q.deals))  BY <1>3, <2>12 DEF RequestTrue
    <2>17. AccountTrue'  BY <1>2, <2>7, <2>8, <2>9, <2>11, <2>16 DEF AccountTrue
    <2>18. Kept \subseteq Kept' /\ q.deals \subseteq Kept'  BY <2>12
    <2>19. RequestTrue(Kept', q)  BY <1>3, <2>18, RequestGrows
    <2> HIDE DEF row, again, lost
    <2>20. 200 \in {0, 200, 409, 500} /\ 200 # 409  OBVIOUS
    <2>21. /\ CallsTyped'
           /\ lsPc'[c] = "answer" /\ request'[c] = request[c]
           /\ reply'[c].code = 200 /\ reply'[c].head = q.hash
           /\ \A d \in Calls : d # c => /\ lsPc'[d] = lsPc[d] /\ request'[d] = request[d]
                                        /\ accountRow'[d] = accountRow[d] /\ reply'[d] = reply[d]
        BY <1>1, <1>2, <2>1, <2>8, <2>10, <2>20, AnsweredTells
    <2>22. CallTrue(Kept', deletes', account', lsPc'[c], request'[c], accountRow'[c], reply'[c])
        BY <2>18, <2>19, <2>20, <2>21 DEF CallTrue, ReplyTrue
    <2> QED BY <1>6, <2>13, <2>15, <2>17, <2>18, <2>21, <2>22
<1> QED BY <1>8, <1>9, <1>10

LEMMA DeleteAccountKeeps ==
    ASSUME LiveSyncInv, DeleteAccount
    PROVE  LiveSyncInv'
<1>1. ServerTyped /\ CallsTyped /\ ClientTyped /\ clock \in Nat
    BY TypedInParts DEF LiveSyncInv
<1>2. /\ UNCHANGED <<clock, known, file, waiting>> /\ UNCHANGED lsCall
      /\ account' = NoAccount /\ stored' = {} /\ batches' = {} /\ erased' = erased \cup stored
      /\ deletes' = deletes + 1 /\ deletes < MaxDeletes
    BY DEF DeleteAccount, lsClient
<1>3. ServerTyped'  BY <1>1, <1>2, Nothing, LiveSyncConstants DEF ServerTyped
<1>4. Kept' = Kept  BY <1>2 DEF Kept
<1>5. Develops(deletes, deletes', account, account')  BY <1>2 DEF Develops
<1>6. AccountTrue'
    <2>1. ChainIsWhole'
        <3>1. account'.seq = 0 /\ account'.head = ZERO_HASH  BY <1>2 DEF NoAccount
        <3>2. Len(account'.head) = 0 /\ 1 .. Len(account'.head) = {}  BY <3>1, Nothing
        <3> QED BY <1>2, <3>1, <3>2 DEF ChainIsWhole
    <2>2. Covers(account'.head, account'.last) /\ Acked(Kept', account'.last)
        BY <1>2, Nothing DEF NoAccount, Covers
    <2> QED BY <1>2, <2>1, <2>2 DEF AccountTrue
<1>7. /\ StateInv'
      /\ \A d \in Calls : CallTrue(Kept', deletes', account', lsPc[d], request[d], accountRow[d], reply[d])
    BY <1>2, <1>3, <1>4, <1>5, OthersKeep
<1>8. CallInv'  BY <1>2, <1>7 DEF CallInv, lsCall
<1>9. CallsTyped' /\ ClientTyped' /\ (clock \in Nat)'
    BY <1>1, <1>2 DEF CallsTyped, ClientTyped, lsCall
<1> QED BY <1>3, <1>6, <1>7, <1>8, <1>9, TypedNext DEF LiveSyncInv

LEMMA StutterKeeps == ASSUME LiveSyncInv, UNCHANGED lsVars PROVE LiveSyncInv'
<1>1. UNCHANGED lsServer /\ UNCHANGED lsCall /\ UNCHANGED <<known, file, waiting, clock>>
    BY DEF lsVars, lsServer, lsCall
<1>2. ServerTyped' /\ CallsTyped' /\ CallInv' /\ AccountTrue' /\ Kept' = Kept
    BY <1>1, ServerStaysTyped, CallsRest, ServerRests DEF LiveSyncInv
<1>3. ClientTyped' /\ (clock \in Nat)' /\ StateInv'
    BY <1>1, <1>2, TypedInParts DEF LiveSyncInv, ClientTyped, StateInv
<1> QED BY <1>2, <1>3, TypedNext DEF LiveSyncInv

LEMMA LiveSyncInvNext == LiveSyncInv /\ [LiveSyncNext]_lsVars => LiveSyncInv'
<1> SUFFICES ASSUME LiveSyncInv, [LiveSyncNext]_lsVars PROVE LiveSyncInv'
    OBVIOUS
<1>1. ASSUME NEW t \in Terminals, NEW c \in Calls, Send(t, c) PROVE LiveSyncInv'
    BY <1>1, SendKeeps
<1>2. ASSUME NEW t \in Terminals, GiveUp(t) \/ Receive(t) \/ Restart(t) PROVE LiveSyncInv'
    BY <1>2, GiveUpKeeps, ReceiveKeeps, RestartKeeps
<1>3. ASSUME NEW c \in Calls, Dropped(c) \/ GetAccount(c) \/ CreateAccount(c) \/ Commit(c) PROVE LiveSyncInv'
    BY <1>3, DroppedKeeps, GetAccountKeeps, CreateAccountKeeps, CommitKeeps
<1>4. CASE DeleteAccount \/ Settle  BY <1>4, DeleteAccountKeeps, SettleKeeps
<1>5. CASE UNCHANGED lsVars  BY <1>5, StutterKeeps
<1> QED BY <1>1, <1>2, <1>3, <1>4, <1>5 DEF LiveSyncNext

THEOREM LiveSyncInvariant == LiveSyncSpec => []LiveSyncInv
BY LiveSyncInvInit, LiveSyncInvNext, PTL DEF LiveSyncSpec

(* The rows, terminals and calls keep their shape. *)
THEOREM LiveSyncTypeCorrect == LiveSyncSpec => []LiveSyncTypeOK
<1>1. LiveSyncInv => LiveSyncTypeOK  BY DEF LiveSyncInv
<1> QED BY <1>1, LiveSyncInvariant, PTL

(* However many terminals report, and whatever is lost, late or sent again,   *)
(* the batches stay one chain without gap or fork (ingest.ts:8-9).            *)
THEOREM ChainIsWholeHolds == LiveSyncSpec => []ChainIsWhole
<1>1. LiveSyncInv => ChainIsWhole  BY DEF LiveSyncInv, AccountTrue
<1> QED BY <1>1, LiveSyncInvariant, PTL

(* No terminal takes for acknowledged a time whose deals did not arrive       *)
(* (LIVE-SYNC-SPEC.md:124).                                                   *)
THEOREM AcknowledgedIsStoredHolds == LiveSyncSpec => []AcknowledgedIsStored
<1>1. LiveSyncInv => AcknowledgedIsStored
    BY DEF LiveSyncInv, StateInv, StateTrue, Acked, AcknowledgedIsStored, Kept
<1> QED BY <1>1, LiveSyncInvariant, PTL

-----------------------------------------------------------------------------
(***************************************************************************)
(* The inductive invariant of an alert rule: lastFiredAt is the time of    *)
(* the last announcement, so a check that finds it unchanged compares with *)
(* that announcement and no older one.                                     *)
(***************************************************************************)
LastKnown == announced # <<>> => lastFired > 0 /\ lastFired = announced[Len(announced)]

CheckKnowsTime(c) == alPc[c] # "idle" => startedAt[c] > 0

AlertInv ==
    /\ AlertTypeOK /\ LastKnown /\ AlertsAreSpaced
    /\ \A c \in Checks : CheckKnowsTime(c)

LEMMA AlertInvInit == AlertInit => AlertInv
<1> SUFFICES ASSUME AlertInit PROVE AlertInv
    OBVIOUS
<1>1. NoRule \in RuleCopies /\ 0 \in Times /\ 1 \in 1 .. MaxTime
    BY AlertConstants DEF NoRule, RuleCopies, Times
<1>2. announced = <<>> /\ announced \in Seq(Times)
    BY DEF AlertInit
<1>3. AlertTypeOK  BY <1>1, <1>2 DEF AlertInit, AlertTypeOK
<1>4. LastKnown /\ AlertsAreSpaced  BY <1>2 DEF LastKnown, AlertsAreSpaced
<1>5. \A c \in Checks : CheckKnowsTime(c)  BY DEF AlertInit, CheckKnowsTime
<1> QED BY <1>3, <1>4, <1>5 DEF AlertInv

(* A check that ends says nothing and changes no rule. *)
LEMMA CheckEndsKeeps ==
    ASSUME AlertInv, NEW c \in Checks, CheckEnds(c)
    PROVE  /\ alPc' \in [Checks -> {"idle", "read", "look", "tell"}]
           /\ startedAt' \in [Checks -> Times] /\ ruleRead' \in [Checks -> RuleCopies]
           /\ \A d \in Checks : CheckKnowsTime(d)'
BY AlertConstants DEF AlertInv, AlertTypeOK, CheckEnds, CheckKnowsTime, Times, NoRule, RuleCopies

(* An announcement is added a cooldown after the last one. *)
LEMMA FireKeeps ==
    ASSUME AlertInv, NEW c \in Checks, NEW found, alPc[c] = "look",
           NextTransition(ruleRead[c], found, startedAt[c]) = "fire", Unchanged(ruleRead[c]),
           lastFired' = startedAt[c], announced' = Append(announced, startedAt[c])
    PROVE  LastKnown' /\ AlertsAreSpaced' /\ announced' \in Seq(Times) /\ lastFired' \in Times
<1> USE DEF AlertInv, AlertTypeOK
<1>1. startedAt[c] \in Times /\ startedAt[c] > 0
    BY DEF CheckKnowsTime
<1>2. Cooled(ruleRead[c], startedAt[c]) /\ lastFired = ruleRead[c].lastFired
    BY DEF NextTransition, Unchanged
<1>3. /\ announced' \in Seq(Times) /\ Len(announced') = Len(announced) + 1
      /\ announced'[Len(announced) + 1] = startedAt[c]
      /\ \A k \in 1 .. Len(announced) : announced'[k] = announced[k]
    BY <1>1
<1>4. LastKnown'  BY <1>1, <1>3 DEF LastKnown
<1>5. ASSUME NEW k \in 2 .. Len(announced') PROVE announced'[k] - announced'[k - 1] >= Cooldown
    <2>1. CASE k = Len(announced')
        <3>1. announced # <<>> /\ announced'[k - 1] = lastFired /\ announced'[k] = startedAt[c]
            BY <1>3, <2>1 DEF LastKnown
        <3>2. lastFired > 0  BY <3>1 DEF LastKnown
        <3> QED BY <1>2, <3>1, <3>2 DEF Cooled, Times
    <2>2. CASE k # Len(announced')
        <3>1. k \in 2 .. Len(announced) /\ announced'[k] = announced[k] /\ announced'[k - 1] = announced[k - 1]
            BY <1>3, <2>2
        <3> QED BY <3>1 DEF AlertsAreSpaced
    <2> QED BY <2>1, <2>2
<1>6. AlertsAreSpaced'  BY <1>5 DEF AlertsAreSpaced
<1> QED BY <1>1, <1>3, <1>4, <1>6

LEMMA AlertInvNext == AlertInv /\ [AlertNext]_alertVars => AlertInv'
<1> SUFFICES ASSUME AlertInv, [AlertNext]_alertVars PROVE AlertInv'
    OBVIOUS
<1> USE AlertConstants DEF AlertInv, AlertTypeOK
<1>1. ASSUME NEW c \in Checks, StartCheck(c) PROVE AlertInv'
    BY <1>1 DEF StartCheck, alertRow, CheckKnowsTime, LastKnown, AlertsAreSpaced, Times
<1>2. ASSUME NEW c \in Checks, CheckEnds(c), UNCHANGED <<ruleTable, alertClock, alertRow>> PROVE AlertInv'
    <2>1. LastKnown' /\ AlertsAreSpaced'  BY <1>2 DEF LastKnown, AlertsAreSpaced, alertRow
    <2> QED BY <1>2, <2>1, CheckEndsKeeps DEF alertRow
<1>3. ASSUME NEW c \in Checks, ReadRule(c) PROVE AlertInv'
    <2>1. CASE CheckEnds(c)  BY <1>2, <1>3, <2>1 DEF ReadRule
    <2>2. CASE ~ CheckEnds(c)
        <3>1. /\ alPc[c] = "read" /\ alPc' = [alPc EXCEPT ![c] = "look"]
              /\ ruleRead' = [ruleRead EXCEPT ![c] = RuleNow]
              /\ UNCHANGED <<startedAt, ruleTable, alertClock, alertRow>>
            BY <1>3, <2>2 DEF ReadRule
        <3>2. RuleNow \in RuleCopies  BY DEF RuleNow, RuleCopies
        <3>3. AlertTypeOK'  BY <3>1, <3>2 DEF alertRow
        <3>4. LastKnown' /\ AlertsAreSpaced' /\ \A d \in Checks : CheckKnowsTime(d)'
            BY <3>1 DEF LastKnown, AlertsAreSpaced, alertRow, CheckKnowsTime
        <3> QED BY <3>3, <3>4
    <2> QED BY <2>1, <2>2
<1>4. ASSUME NEW c \in Checks, Evaluate(c) PROVE AlertInv'
    <2>1. CASE CheckEnds(c) /\ UNCHANGED alertRow  BY <1>2, <1>4, <2>1 DEF Evaluate
    <2>2. CASE /\ firing' = FALSE /\ CheckEnds(c) /\ UNCHANGED <<enabled, lastFired, announced, ruleTable, alertClock>>
        <3>1. LastKnown' /\ AlertsAreSpaced'  BY <2>2 DEF LastKnown, AlertsAreSpaced
        <3> QED BY <2>2, <3>1, CheckEndsKeeps
    <2>3. ASSUME NEW found \in {"breached", "clear", "no data"}, alPc[c] = "look",
                 NextTransition(ruleRead[c], found, startedAt[c]) = "fire", Unchanged(ruleRead[c]),
                 firing' = TRUE,
                 lastFired' = startedAt[c], announced' = Append(announced, startedAt[c]),
                 alPc' = [alPc EXCEPT ![c] = "tell"],
                 UNCHANGED <<enabled, startedAt, ruleRead, ruleTable, alertClock>>
          PROVE  AlertInv'
        <3>1. LastKnown' /\ AlertsAreSpaced' /\ announced' \in Seq(Times) /\ lastFired' \in Times
            BY <2>3, FireKeeps
        <3>2. \A d \in Checks : CheckKnowsTime(d)'  BY <2>3 DEF CheckKnowsTime
        <3> QED BY <2>3, <3>1, <3>2
    <2> QED BY <1>4, <2>1, <2>2, <2>3 DEF Evaluate
<1>5. ASSUME NEW c \in Checks, Tell(c) \/ AlertCrash(c) PROVE AlertInv'
    BY <1>2, <1>5 DEF Tell, AlertCrash
<1>6. ASSUME SaveRule PROVE AlertInv'
    <2>1. CASE lastFired' = 0 /\ announced' = <<>>
        <3>1. 0 \in Times /\ <<>> \in Seq(Times)  BY DEF Times
        <3>2. LastKnown'  BY <2>1 DEF LastKnown
        <3>3. AlertsAreSpaced'  BY <2>1 DEF AlertsAreSpaced
        <3>4. \A d \in Checks : CheckKnowsTime(d)'  BY <1>6 DEF SaveRule, CheckKnowsTime
        <3> QED BY <1>6, <2>1, <3>1, <3>2, <3>3, <3>4 DEF SaveRule
    <2>2. CASE UNCHANGED <<lastFired, announced>>
        BY <1>6, <2>2 DEF SaveRule, LastKnown, AlertsAreSpaced, CheckKnowsTime
    <2> QED BY <1>6, <2>1, <2>2 DEF SaveRule
<1>7. ASSUME TimePasses PROVE AlertInv'
    <2>1. alertClock' \in 1 .. MaxTime  BY <1>7 DEF TimePasses
    <2>2. LastKnown' /\ AlertsAreSpaced' /\ \A d \in Checks : CheckKnowsTime(d)'
        BY <1>7 DEF TimePasses, alertRow, LastKnown, AlertsAreSpaced, CheckKnowsTime
    <2> QED BY <1>7, <2>1, <2>2 DEF TimePasses, alertRow
<1>8. CASE UNCHANGED alertVars
    BY <1>8 DEF alertVars, LastKnown, AlertsAreSpaced, CheckKnowsTime
<1> QED BY <1>1, <1>3, <1>4, <1>5, <1>6, <1>7, <1>8 DEF AlertNext

(* Type correctness of the rule and its checks. *)
THEOREM AlertTypeCorrect == AlertSpec => []AlertTypeOK
<1>1. AlertInv => AlertTypeOK  BY DEF AlertInv
<1> QED BY AlertInvInit, AlertInvNext, <1>1, PTL DEF AlertSpec

(* Concurrent checks cannot announce the same breach twice                    *)
(* (alert-runner.ts:64): for any number of checks, however long they look and *)
(* whatever the owner saves meanwhile, what they announce is a cooldown apart. *)
THEOREM AlertsAreSpacedHolds == AlertSpec => []AlertsAreSpaced
<1>1. AlertInv => AlertsAreSpaced  BY DEF AlertInv
<1> QED BY AlertInvInit, AlertInvNext, <1>1, PTL DEF AlertSpec
=============================================================================
