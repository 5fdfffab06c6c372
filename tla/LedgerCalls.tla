----------------------------- MODULE LedgerCalls -----------------------------
(***************************************************************************)
(* The postings a caller asks of a ledger (internal/ledger/ledger.go):     *)
(* Transfer between two wallets, CardIn and CardOut between a wallet and   *)
(* the card suspense account.  The three Go methods differ only in which   *)
(* account they name first, in the sign of the first entry and in whether  *)
(* the first account must hold the amount, so one record stands for all.   *)
(***************************************************************************)
EXTENDS Integers, FiniteSetsExt

CONSTANTS
    Wallets,      \* account codes "wallet:<uuid>"
    Suspense,     \* CardSuspenseAccountCode
    ClientTxIDs,  \* identifiers chosen by the callers
    Calls,        \* the postings callers ask for
    InitAccounts, \* accounts that exist at first
    Opening       \* their balances then

Accounts == Wallets \cup {Suspense}

Kinds == {"p2p", "card_in", "card_out"}

(* first is fromCode or walletCode, the account looked up and locked first; *)
(* second is toCode or the suspense account.                               *)
CallType == [kind: Kinds, id: ClientTxIDs, first: Accounts,
             second: Accounts, amount: Int]

ASSUME SuspenseAssumption == Suspense \notin Wallets

(* payments.Service and funding.Service name wallet accounts only; the     *)
(* suspense account is the counterpart of every card posting.              *)
ASSUME CallsAssumption ==
    /\ Calls \subseteq CallType
    /\ \A c \in Calls : /\ c.first \in Wallets
                        /\ IF c.kind = "p2p" THEN c.second \in Wallets
                                             ELSE c.second = Suspense

(* Wallets start with what earlier postings left them, never below zero;   *)
(* nothing has been posted to an account that does not exist.              *)
ASSUME OpeningAssumption ==
    /\ InitAccounts \subseteq Accounts
    /\ Opening \in [Accounts -> Int]
    /\ \A w \in Wallets : Opening[w] >= 0
    /\ \A a \in Accounts \ InitAccounts : Opening[a] = 0

(* UNIQUE(client_tx_id, kind)                                              *)
Key(c) == <<c.kind, c.id>>

(* Transfer and CardOut take money from the first account, CardIn gives.   *)
Debits(c) == c.kind # "card_in"

FirstEntry(c) == IF Debits(c) THEN -c.amount ELSE c.amount

SecondEntry(c) == -FirstEntry(c)

(* What the two entries of a posting add to account a.                     *)
Effect(c, a) == (IF a = c.first THEN FirstEntry(c) ELSE 0)
              + (IF a = c.second THEN SecondEntry(c) ELSE 0)

(* SUM(amount) over a set of rows: of f[x] for the x in S.                 *)
Total(f, S) == MapThenSumSet(LAMBDA x : f[x], S)

(* What the entries of the postings in S sum to for account a, args[r]     *)
(* being the call that r has posted.                                       *)
Entered(args, S, a) == Total([r \in S |-> Effect(args[r], a)], S)

Touches(c, a) == a = c.first \/ a = c.second

=============================================================================
