--------------------------- MODULE LedgerContract ---------------------------
(***************************************************************************)
(* What every ledger backend promises (the Ledger interface and the errors *)
(* of internal/ledger/ledger.go): a posting happens in one step, at most   *)
(* once per client identifier and kind, between accounts that exist, and   *)
(* only when the account it debits holds the amount.  The backends are     *)
(* shown to implement this specification.                                  *)
(***************************************************************************)
EXTENDS LedgerCalls

VARIABLES
    accounts, \* codes of the accounts that exist
    balance,  \* balance of every account, 0 before it exists
    postings  \* the postings made so far

contractVars == <<accounts, balance, postings>>

Init ==
    /\ accounts = InitAccounts
    /\ balance = Opening
    /\ postings = {}

EnsureAccount(a) ==
    /\ accounts' = accounts \cup {a}
    /\ UNCHANGED <<balance, postings>>

(* A successful Transfer, CardIn or CardOut.  A refused one changes        *)
(* nothing: it is a stuttering step.                                       *)
Post(c) ==
    /\ c.amount > 0
    /\ c.first \in accounts
    /\ c.second \in accounts
    /\ \A p \in postings : Key(p) # Key(c)
    /\ Debits(c) => balance[c.first] >= c.amount
    /\ balance' = [a \in Accounts |-> balance[a] + Effect(c, a)]
    /\ postings' = postings \cup {c}
    /\ UNCHANGED accounts

Next ==
    \/ \E a \in Accounts : EnsureAccount(a)
    \/ \E c \in Calls : Post(c)

Spec == Init /\ [][Next]_contractVars

=============================================================================
