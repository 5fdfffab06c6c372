--------------------------- MODULE InMemoryLedger ---------------------------
(***************************************************************************)
(* internal/ledger/inmemory.go: the ledger of a development server and of  *)
(* the tests.  Every method runs under the mutex, so a call is one step;   *)
(* balances are int64 and wrap.  transactions and fundingTx are one map    *)
(* here: their keys "kind:id" are disjoint.                                *)
(***************************************************************************)
EXTENDS LedgerCalls, FiniteSets

CONSTANTS
    Requests, \* the calls made, each at most once
    NoCall,
    MaxInt64

ASSUME NoCallAssumption == NoCall \notin Calls

ASSUME WidthAssumption == MaxInt64 \in Nat

VARIABLES
    accounts, \* keys of balances
    balance,  \* values of balances, 0 where there is no key
    results,  \* transactions and fundingTx: what each posted key returned
    call,     \* the arguments of each request
    reply     \* what each request was returned

vars == <<accounts, balance, results, call, reply>>

-----------------------------------------------------------------------------

Int64 == (-(MaxInt64 + 1)) .. MaxInt64

(* map[string]int64                                                        *)
ASSUME OpeningWidthAssumption == \A a \in Accounts : Opening[a] \in Int64

WrapUnsigned(n) ==  \* mutant: uint64 balances
    n % (2 * (MaxInt64 + 1))

Wrap(n) == ((n + MaxInt64 + 1) % (2 * (MaxInt64 + 1))) - (MaxInt64 + 1)

Statuses == {"none", "ok", "duplicate", "insufficient"}

(* FromBalance or WalletBalance, and ToBalance.                            *)
Results == [first: Int64, second: Int64]

Replies == [status: Statuses, result: Results]

NoResult == [first |-> 0, second |-> 0]

Reply(status, result) == [status |-> status, result |-> result]

Init ==
    /\ accounts = InitAccounts
    /\ balance = Opening
    /\ results = [k \in {} |-> NoResult]
    /\ call = [r \in Requests |-> NoCall]
    /\ reply = [r \in Requests |-> Reply("none", NoResult)]

-----------------------------------------------------------------------------

EnsureAccount(a) ==
    /\ a \notin accounts
    /\ accounts' = accounts \cup {a}
    /\ UNCHANGED <<balance, results, call, reply>>

(* Transfer wants both accounts, the card calls only the wallet: the       *)
(* suspense account comes into being when it is first added to.            *)
Known(c) == {c.first} \cup (IF c.kind = "p2p" THEN {c.second} ELSE {})

CoversTransfersOnly(c) ==  \* mutant: CardOut does not look at the balance
    c.kind # "p2p" \/ balance[c.first] >= c.amount

Covers(c) == Debits(c) => balance[c.first] >= c.amount

(* The two values computed from the balances read at the start.            *)
NewFirst(c) == Wrap(balance[c.first] + FirstEntry(c))

NewSecond(c) == Wrap(balance[c.second] + SecondEntry(c))

Result(c) == [first |-> NewFirst(c),
              second |-> IF c.kind = "p2p" THEN NewSecond(c) ELSE 0]

(* The checks in the order of the code, duplicates before accounts.        *)
Refuse(r, c) ==
    /\ c.amount <= 0 \/ ( /\ Key(c) \notin DOMAIN results
                          /\ ~(Known(c) \subseteq accounts) \/ ~Covers(c) )
    /\ reply' = [reply EXCEPT ![r] = Reply("insufficient", NoResult)]
    /\ UNCHANGED <<accounts, balance, results>>

DuplicateRecomputed(r, c) ==  \* mutant: the balances of now, not those of then
    /\ c.amount > 0
    /\ Key(c) \in DOMAIN results
    /\ reply' = [reply EXCEPT ![r] =
                     Reply("duplicate", [first |-> balance[c.first], second |-> 0])]
    /\ UNCHANGED <<accounts, balance, results>>

Duplicate(r, c) ==
    /\ c.amount > 0
    /\ Key(c) \in DOMAIN results
    /\ reply' = [reply EXCEPT ![r] = Reply("duplicate", results[Key(c)])]
    /\ UNCHANGED <<accounts, balance, results>>

(* first is written before second: a transfer to oneself ends with second. *)
Post(r, c) ==
    /\ c.amount > 0
    /\ Key(c) \notin DOMAIN results
    /\ Known(c) \subseteq accounts
    /\ Covers(c)
    /\ balance' = [balance EXCEPT ![c.first] = NewFirst(c),
                                  ![c.second] = NewSecond(c)]
    /\ accounts' = accounts \cup {c.second}
    /\ results' = [k \in DOMAIN results \cup {Key(c)} |->
                       IF k = Key(c) THEN Result(c) ELSE results[k]]
    /\ reply' = [reply EXCEPT ![r] = Reply("ok", Result(c))]

Serve(r) ==
    /\ reply[r].status = "none"
    /\ \E c \in Calls :
        /\ call' = [call EXCEPT ![r] = c]
        /\ Refuse(r, c) \/ Duplicate(r, c) \/ Post(r, c)

AllServed ==
    /\ \A r \in Requests : reply[r].status # "none"
    /\ UNCHANGED vars

Next ==
    \/ \E a \in Accounts : EnsureAccount(a)
    \/ \E r \in Requests : Serve(r)
    \/ AllServed

Spec == Init /\ [][Next]_vars

-----------------------------------------------------------------------------
(* Properties.                                                             *)

(* The shape of every variable.                                            *)
TypeOK ==
    /\ accounts \in SUBSET Accounts
    /\ balance \in [Accounts -> Int64]
    /\ DOMAIN results \subseteq Kinds \X ClientTxIDs
    /\ \A k \in DOMAIN results : results[k] \in Results
    /\ call \in [Requests -> Calls \cup {NoCall}]
    /\ reply \in [Requests -> Replies]

Posted == {r \in Requests : reply[r].status = "ok"}

(* A retry is answered with what the first call with its identifier was    *)
(* answered, whatever has been posted in between.                          *)
DuplicateRepeatsAnswer ==
    \A r \in Requests :
        reply[r].status = "duplicate" =>
            \E p \in Posted : /\ Key(call[p]) = Key(call[r])
                              /\ reply[p].result = reply[r].result

(* The in-memory ledger keeps the ledger contract, as long as nobody       *)
(* transfers to himself, but for the one posting that takes a balance out  *)
(* of int64; what follows is again a step of the contract.                 *)
Contract == INSTANCE LedgerContract WITH postings <- {call[r] : r \in Posted}

Overflows(c) ==
    \/ NewFirst(c) # balance[c.first] + FirstEntry(c)
    \/ NewSecond(c) # balance[c.second] + SecondEntry(c)

OverflowingPost ==
    \E r \in Requests : r \in Posted' \ Posted /\ Overflows(call'[r])

ImplementsContract ==
    /\ Contract!Init
    /\ [][Contract!Next \/ OverflowingPost]_(Contract!contractVars)

(* What the posted calls make of the balance of an account, unbounded.     *)
Exact(a) == Opening[a] + Entered(call, Posted, a)

(* Nothing but the width of int64 stands between a balance and the sum of  *)
(* its postings, and a wallet shows less than nothing only because it has  *)
(* received more than an int64 holds: the check of funds is never outrun.  *)
NegativeOnlyByOverflow ==
    /\ \A a \in Accounts : balance[a] = Wrap(Exact(a))
    /\ \A w \in Wallets : balance[w] < 0 => Exact(w) > MaxInt64

(* What call c adds to wallet w takes it past the largest int64.           *)
Outgrows(c, w) ==
    \/ w = c.first /\ balance[w] + FirstEntry(c) > MaxInt64
    \/ w = c.second /\ balance[w] + SecondEntry(c) > MaxInt64

(* A wallet falls below zero only in the step that posts more to it than   *)
(* an int64 holds, and never because a debit outran the check of funds;    *)
(* transfers to oneself included.                                          *)
FallsByOutgrowing ==
    \A w \in Wallets :
        balance[w] >= 0 /\ balance'[w] < 0 =>
            \E r \in Posted' \ Posted : Outgrows(call'[r], w)

NegativeOnlyByStep == [][FallsByOutgrowing]_vars

-----------------------------------------------------------------------------
(* The inductive invariant behind InMemoryLedgerProofs.                    *)

(* Every posted call is remembered under its key...                        *)
PostedRemembered ==
    \A p \in Posted : call[p] \in Calls /\ Key(call[p]) \in DOMAIN results

(* ... and what is remembered is what a posted call was answered.          *)
ResultsAnswered ==
    \A k \in DOMAIN results :
        \E p \in Posted : Key(call[p]) = k /\ reply[p].result = results[k]

IInv ==
    /\ TypeOK
    /\ PostedRemembered
    /\ ResultsAnswered
    /\ DuplicateRepeatsAnswer

(* What the sums over all postings rely on besides: finitely many calls    *)
(* have come, and no wallet has spent more than it was ever given.         *)
ExactInv ==
    /\ IsFiniteSet(Posted)
    /\ \A a \in Accounts : balance[a] = Wrap(Exact(a))
    /\ \A w \in Wallets : Exact(w) >= 0

=============================================================================
