--------------------------- MODULE CreditAccount ---------------------------
(***************************************************************************)
(* What the credit ledger promises its callers (credit-ledger.ts:9-14): an *)
(* account on which a keyed debit or credit happens at most once, at one   *)
(* instant, and on which a debit happens only if the allowance covers it.  *)
(***************************************************************************)
EXTENDS Integers

CONSTANTS ChargeKeys, RefundKeys, Amounts, Terms

VARIABLES
    entries,    \* [key, amount, period] entries, at most one for a key
    spent       \* spent[p]: net credits of the entries since period p

Periods == {t.period : t \in Terms}

Init ==
    /\ entries = {}
    /\ spent = [p \in Periods |-> 0]

Post(k, n, period) ==
    /\ \A e \in entries : e.key # k
    /\ entries' = entries \cup {[key |-> k, amount |-> n, period |-> period]}
    /\ spent' = [p \in Periods |-> IF p <= period THEN spent[p] + n ELSE spent[p]]

(* A debit fits, at the instant it is posted, terms the user has had. *)
Debit(k, n) ==
    \E t \in Terms :
        /\ n = 0 \/ spent[t.period] + n <= t.allowance
        /\ Post(k, n, t.period)

Credit(k, n) == \E t \in Terms : n > 0 /\ Post(k, 0 - n, t.period)

Next ==
    \/ \E k \in ChargeKeys, n \in Amounts : Debit(k, n)
    \/ \E k \in RefundKeys, n \in Amounts : Credit(k, n)

Spec == Init /\ [][Next]_<<entries, spent>>
=============================================================================
