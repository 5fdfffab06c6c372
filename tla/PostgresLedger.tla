--------------------------- MODULE PostgresLedger ---------------------------
(***************************************************************************)
(* internal/ledger/postgres.go: each posting is one READ COMMITTED         *)
(* database transaction that locks two account rows (SELECT ... FOR        *)
(* UPDATE), looks for an earlier transaction with the same client          *)
(* identifier, checks the funds, inserts one transactions row and two      *)
(* entries rows, commits, and reads the balances again for the reply.      *)
(*                                                                         *)
(* One action is one statement.  Requests run concurrently; a statement    *)
(* may fail, the acknowledgement of a COMMIT may be lost, and the server   *)
(* aborts a transaction it finds in a cycle of waits.  A request is one    *)
(* call of Transfer, CardIn or CardOut; the uuid of its transactions row   *)
(* is the request itself.                                                  *)
(***************************************************************************)
EXTENDS LedgerCalls, FiniteSets

CONSTANTS
    Requests,     \* the calls made, each at most once
    NoRequest,
    NoCall,
    MaxInt64      \* largest value a balance is scanned into

ASSUME RequestAssumption == NoRequest \notin Requests /\ NoCall \notin Calls

ASSUME MaxInt64Assumption == MaxInt64 \in Nat

VARIABLES
    accounts, \* rows of table accounts, by code
    balance,  \* SUM of the committed entries of each account
    posted,   \* committed rows of table transactions, by request
    pc,       \* the statement each request runs next
    call,     \* the arguments of each request
    lock,     \* the request whose transaction holds each account row
    entries,  \* what the uncommitted entries of each request add up to
    reply     \* what each call returned

vars == <<accounts, balance, posted, pc, call, lock, entries, reply>>

-----------------------------------------------------------------------------

Int64 == (-(MaxInt64 + 1)) .. MaxInt64

(* Stages inside the database transaction, in the order of the code.       *)
InTransaction == {"lockFirst", "lockSecond", "check", "funds", "insertTx",
                  "insertFirst", "insertSecond", "commit"}

(* Both account rows are locked.                                           *)
HoldingBoth == InTransaction \ {"lockFirst", "lockSecond"}

(* The transactions row is inserted and not yet committed.                 *)
Inserted == {"insertFirst", "insertSecond", "commit"}

(* After the commit, the balances are read for the reply.                  *)
Reporting == {"readFirst", "readSecond"}

Stages == InTransaction \cup Reporting \cup {"idle", "done"}

Statuses == {"none", "ok", "duplicate", "insufficient", "conflict", "error"}

Replies == [status: Statuses, tx: Requests \cup {NoRequest},
            first: Int64, second: Int64]

Answer(status, tx, first, second) ==
    [status |-> status, tx |-> tx, first |-> first, second |-> second]

NoReply == Answer("none", NoRequest, 0, 0)

Refusal(status) == Answer(status, NoRequest, 0, 0)

NoEntries == [a \in Accounts |-> 0]

Init ==
    /\ accounts = InitAccounts
    /\ balance = Opening
    /\ posted = {}
    /\ pc = [r \in Requests |-> "idle"]
    /\ call = [r \in Requests |-> NoCall]
    /\ lock = [a \in Accounts |-> NoRequest]
    /\ entries = [r \in Requests |-> NoEntries]
    /\ reply = [r \in Requests |-> NoReply]

-----------------------------------------------------------------------------
(* Helpers of the statements.                                              *)

(* A committed SUM scans into an int64 only when it fits.                  *)
Readable(a) == balance[a] \in Int64

(* The rows in the order the code locks them.                              *)
LockOrderSuspenseFirst(c) ==  \* mutant: CardOut locks the suspense row first
    IF c.kind = "card_out" THEN <<c.second, c.first>> ELSE <<c.first, c.second>>

LockOrder(c) == <<c.first, c.second>>

Goto(r, stage) == pc' = [pc EXCEPT ![r] = stage]

LocksReleasedBy(r) ==
    [a \in Accounts |-> IF lock[a] = r THEN NoRequest ELSE lock[a]]

(* Every return inside the transaction runs the deferred tx.Rollback.      *)
RollbackKeepingLocks(r, answer) ==  \* mutant: no deferred Rollback
    /\ Goto(r, "done")
    /\ reply' = [reply EXCEPT ![r] = answer]
    /\ entries' = [entries EXCEPT ![r] = NoEntries]
    /\ UNCHANGED <<accounts, balance, posted, call, lock>>

Rollback(r, answer) ==
    /\ Goto(r, "done")
    /\ reply' = [reply EXCEPT ![r] = answer]
    /\ entries' = [entries EXCEPT ![r] = NoEntries]
    /\ lock' = LocksReleasedBy(r)
    /\ UNCHANGED <<accounts, balance, posted, call>>

(* SELECT id FROM accounts WHERE code = a FOR UPDATE.                      *)
LockRow(r, a, next) ==
    \/ /\ a \in accounts
       /\ lock[a] \in {NoRequest, r}
       /\ lock' = [lock EXCEPT ![a] = r]
       /\ Goto(r, next)
       /\ UNCHANGED <<accounts, balance, posted, call, entries, reply>>
    \/ /\ a \notin accounts
       /\ Rollback(r, Refusal("error"))

(* INSERT INTO entries (..., account_id, amount).                          *)
InsertEntry(r, a, amount, next) ==
    /\ entries' = [entries EXCEPT ![r][a] = @ + amount]
    /\ Goto(r, next)
    /\ UNCHANGED <<accounts, balance, posted, call, lock, reply>>

(* The commit makes the rows of r visible and releases its locks.          *)
Apply(r) ==
    /\ balance' = [a \in Accounts |-> balance[a] + entries[r][a]]
    /\ posted' = posted \cup {r}
    /\ entries' = [entries EXCEPT ![r] = NoEntries]
    /\ lock' = LocksReleasedBy(r)
    /\ UNCHANGED <<accounts, call>>

SameKey(r, s) == Key(call[r]) = Key(call[s])

SharesAccount(r, s) ==
    \E a \in Accounts : Touches(call[r], a) /\ Touches(call[s], a)

-----------------------------------------------------------------------------
(* The statements of a posting.                                            *)

EnsureAccount(a) ==
    /\ a \notin accounts
    /\ accounts' = accounts \cup {a}
    /\ UNCHANGED <<balance, posted, pc, call, lock, entries, reply>>

(* The call arrives; a non-positive amount is refused before BEGIN.        *)
Begin(r) ==
    /\ pc[r] = "idle"
    /\ \E c \in Calls :
        /\ call' = [call EXCEPT ![r] = c]
        /\ \/ /\ c.amount > 0
              /\ Goto(r, "lockFirst")
              /\ UNCHANGED reply
           \/ /\ c.amount <= 0
              /\ Goto(r, "done")
              /\ reply' = [reply EXCEPT ![r] = Refusal("error")]
    /\ UNCHANGED <<accounts, balance, posted, lock, entries>>

LockFirstUnlocked(r) ==  \* mutant: SELECT without FOR UPDATE
    /\ pc[r] = "lockFirst"
    /\ LockOrder(call[r])[1] \in accounts
    /\ Goto(r, "lockSecond")
    /\ UNCHANGED <<accounts, balance, posted, call, lock, entries, reply>>

LockFirst(r) ==
    /\ pc[r] = "lockFirst"
    /\ LockRow(r, LockOrder(call[r])[1], "lockSecond")

LockSecond(r) ==
    /\ pc[r] = "lockSecond"
    /\ LockRow(r, LockOrder(call[r])[2], "check")

(* CardIn has no balance to check before it inserts.                       *)
NextOfCheck(c) == IF Debits(c) THEN "funds" ELSE "insertTx"

CheckExistingSkipped(r) ==  \* mutant: no lookup of an earlier transaction
    /\ pc[r] = "check"
    /\ Goto(r, NextOfCheck(call[r]))
    /\ UNCHANGED <<accounts, balance, posted, call, lock, entries, reply>>

(* SELECT id FROM transactions WHERE client_tx_id AND kind.  When there is *)
(* one, the balances are read under the locks and the call ends with       *)
(* ErrDuplicateTransaction.                                                *)
CheckExisting(r) ==
    LET c == call[r]
    IN
    /\ pc[r] = "check"
    /\ \/ /\ \A p \in posted : ~SameKey(p, r)
          /\ Goto(r, NextOfCheck(c))
          /\ UNCHANGED <<accounts, balance, posted, call, lock, entries, reply>>
       \/ \E p \in posted :
            /\ SameKey(p, r)
            /\ \/ /\ Readable(c.first)
                  /\ c.kind = "p2p"
                  /\ Readable(c.second)
                  /\ Rollback(r, Answer("duplicate", p,
                                        balance[c.first], balance[c.second]))
               \/ /\ Readable(c.first)
                  /\ c.kind # "p2p"
                  /\ Rollback(r, Answer("duplicate", p, balance[c.first], 0))
               \/ /\ ~Readable(c.first) \/ (c.kind = "p2p" /\ ~Readable(c.second))
                  /\ Rollback(r, Refusal("error"))

CheckFundsOfCardsSkipped(r) ==  \* mutant: only Transfer checks the balance
    LET c == call[r]
    IN
    /\ pc[r] = "funds"
    /\ \/ /\ c.kind = "card_out" \/ balance[c.first] >= c.amount
          /\ Goto(r, "insertTx")
          /\ UNCHANGED <<accounts, balance, posted, call, lock, entries, reply>>
       \/ /\ c.kind = "p2p" /\ balance[c.first] < c.amount
          /\ Rollback(r, Refusal("insufficient"))

CheckFunds(r) ==
    LET c == call[r]
    IN
    /\ pc[r] = "funds"
    /\ \/ /\ Readable(c.first)
          /\ balance[c.first] >= c.amount
          /\ Goto(r, "insertTx")
          /\ UNCHANGED <<accounts, balance, posted, call, lock, entries, reply>>
       \/ /\ Readable(c.first)
          /\ balance[c.first] < c.amount
          /\ Rollback(r, Refusal("insufficient"))
       \/ /\ ~Readable(c.first)
          /\ Rollback(r, Refusal("error"))

InsertTxNoUniqueIndex(r) ==  \* mutant: no UNIQUE(client_tx_id, kind)
    /\ pc[r] = "insertTx"
    /\ Goto(r, "insertFirst")
    /\ UNCHANGED <<accounts, balance, posted, call, lock, entries, reply>>

(* INSERT INTO transactions.  The unique index makes it wait for an        *)
(* uncommitted row with the same key and fail on a committed one; that     *)
(* failure is returned as it is, not as ErrDuplicateTransaction.           *)
InsertTx(r) ==
    /\ pc[r] = "insertTx"
    /\ \A s \in Requests \ {r} : pc[s] \in Inserted => ~SameKey(s, r)
    /\ \/ /\ \A p \in posted : ~SameKey(p, r)
          /\ Goto(r, "insertFirst")
          /\ UNCHANGED <<accounts, balance, posted, call, lock, entries, reply>>
       \/ /\ \E p \in posted : SameKey(p, r)
          /\ Rollback(r, Refusal("conflict"))

InsertFirst(r) ==
    /\ pc[r] = "insertFirst"
    /\ InsertEntry(r, call[r].first, FirstEntry(call[r]), "insertSecond")

InsertSecondUnsigned(r) ==  \* mutant: CardIn credits the suspense account too
    /\ pc[r] = "insertSecond"
    /\ InsertEntry(r, call[r].second, call[r].amount, "commit")

InsertSecond(r) ==
    /\ pc[r] = "insertSecond"
    /\ InsertEntry(r, call[r].second, SecondEntry(call[r]), "commit")

Commit(r) ==
    /\ pc[r] = "commit"
    /\ Apply(r)
    /\ Goto(r, "readFirst")
    /\ UNCHANGED reply

(* l.Balance(fromCode), l.Balance(walletCode): outside the transaction.    *)
ReadFirstUnchecked(r) ==  \* mutant: the sum is truncated, not refused
    /\ pc[r] = "readFirst"
    /\ Goto(r, "done")
    /\ reply' = [reply EXCEPT ![r] = Answer("ok", r, balance[call[r].first], 0)]
    /\ UNCHANGED <<accounts, balance, posted, call, lock, entries>>

ReadFirst(r) ==
    LET c == call[r]
    IN
    /\ pc[r] = "readFirst"
    /\ \/ /\ Readable(c.first)
          /\ \/ /\ c.kind = "p2p"
                /\ Goto(r, "readSecond")
                /\ reply' = [reply EXCEPT ![r].first = balance[c.first]]
             \/ /\ c.kind # "p2p"
                /\ Goto(r, "done")
                /\ reply' = [reply EXCEPT ![r] =
                                 Answer("ok", r, balance[c.first], 0)]
       \/ /\ ~Readable(c.first)
          /\ Goto(r, "done")
          /\ reply' = [reply EXCEPT ![r] = Refusal("error")]
    /\ UNCHANGED <<accounts, balance, posted, call, lock, entries>>

ReadSecond(r) ==
    LET c == call[r]
    IN
    /\ pc[r] = "readSecond"
    /\ Goto(r, "done")
    /\ \/ /\ Readable(c.second)
          /\ reply' = [reply EXCEPT ![r] =
                           Answer("ok", r, reply[r].first, balance[c.second])]
       \/ /\ ~Readable(c.second)
          /\ reply' = [reply EXCEPT ![r] = Refusal("error")]
    /\ UNCHANGED <<accounts, balance, posted, call, lock, entries>>

-----------------------------------------------------------------------------
(* What can go wrong.                                                      *)

(* A statement, or the connection under it, fails: the call returns the    *)
(* error.  Before the commit the transaction is rolled back.               *)
Fail(r) ==
    \/ /\ pc[r] \in InTransaction
       /\ Rollback(r, Refusal("error"))
    \/ /\ pc[r] \in Reporting
       /\ Goto(r, "done")
       /\ reply' = [reply EXCEPT ![r] = Refusal("error")]
       /\ UNCHANGED <<accounts, balance, posted, call, lock, entries>>

CommitErrorIgnored(r) ==  \* mutant: the error of tx.Commit is not returned
    /\ pc[r] = "commit"
    /\ Rollback(r, Answer("ok", r, 0, 0))

(* The server commits and the acknowledgement is lost: tx.Commit returns   *)
(* an error for a transaction that is posted.                              *)
CommitAckLost(r) ==
    /\ pc[r] = "commit"
    /\ Apply(r)
    /\ Goto(r, "done")
    /\ reply' = [reply EXCEPT ![r] = Refusal("error")]

(* r waits for a row lock of s, or for the outcome of s's transactions row.*)
WaitsFor(r, s) ==
    /\ r # s
    /\ \/ pc[r] = "lockFirst" /\ lock[LockOrder(call[r])[1]] = s
       \/ pc[r] = "lockSecond" /\ lock[LockOrder(call[r])[2]] = s
       \/ pc[r] = "insertTx" /\ pc[s] \in Inserted /\ SameKey(s, r)

(* A request waits for at most one other, so a set that waits within       *)
(* itself and is waited for within itself is a union of cycles.            *)
InWaitCycle(r) ==
    \E S \in SUBSET Requests :
        /\ r \in S
        /\ \A s \in S : /\ \E t \in S : WaitsFor(s, t)
                        /\ \E t \in S : WaitsFor(t, s)

(* The deadlock detector of the server aborts one transaction of a cycle.  *)
DeadlockAbort(r) ==
    /\ InWaitCycle(r)
    /\ Rollback(r, Refusal("error"))

-----------------------------------------------------------------------------

Step(r) ==
    \/ LockFirst(r)   \/ LockSecond(r)
    \/ CheckExisting(r) \/ CheckFunds(r)
    \/ InsertTx(r)    \/ InsertFirst(r) \/ InsertSecond(r)
    \/ Commit(r)      \/ ReadFirst(r)   \/ ReadSecond(r)

(* Every call has returned.                                                *)
AllReturned ==
    /\ \A r \in Requests : pc[r] = "done"
    /\ UNCHANGED vars

Next ==
    \/ \E a \in Accounts : EnsureAccount(a)
    \/ \E r \in Requests :
        \/ Begin(r) \/ Step(r)
        \/ Fail(r)  \/ CommitAckLost(r) \/ DeadlockAbort(r)
    \/ AllReturned

Spec == Init /\ [][Next]_vars

(* A connection keeps sending the statements of its transaction and the    *)
(* server keeps answering them and looking for deadlocks; calls need not   *)
(* arrive and failures need not happen.                                    *)
Fairness == \A r \in Requests : WF_vars(Step(r)) /\ WF_vars(DeadlockAbort(r))

FairSpec == Spec /\ Fairness

-----------------------------------------------------------------------------
(* Properties.                                                             *)

(* The shape of every variable; the balances a reply carries have been     *)
(* scanned into an int64.                                                  *)
TypeOK ==
    /\ accounts \in SUBSET Accounts
    /\ balance \in [Accounts -> Int]
    /\ posted \in SUBSET Requests
    /\ pc \in [Requests -> Stages]
    /\ call \in [Requests -> Calls \cup {NoCall}]
    /\ lock \in [Accounts -> Requests \cup {NoRequest}]
    /\ entries \in [Requests -> [Accounts -> Int]]
    /\ reply \in [Requests -> Replies]

(* No wallet goes below zero, however postings interleave: the balance a   *)
(* request checked is still there when it commits.                         *)
NoOverdraft == \A w \in Wallets : balance[w] >= 0

(* The balances are what the posted calls explain, each of them once and   *)
(* both of its entries, and the accounts sum to zero as they did at first. *)
Explained ==
    \A a \in Accounts : balance[a] = Opening[a] + Entered(call, posted, a)

BooksBalance == Explained /\ Total(balance, Accounts) = 0

(* Double entry, step by step: what a step takes from one account it gives *)
(* to another, and it is the amount of a posting.                          *)
Moves(from, to, amount) ==
    \A a \in Accounts :
        balance'[a] = balance[a] - (IF a = from THEN amount ELSE 0)
                                 + (IF a = to THEN amount ELSE 0)

DoubleEntry ==
    [][\/ UNCHANGED balance
       \/ \E from, to \in Accounts : \E c \in Calls :
            c.amount > 0 /\ Moves(from, to, c.amount)]_vars

(* One client identifier posts at most once per kind, whoever retries it   *)
(* and whatever answer the first attempt got.                              *)
AtMostOncePerKey == \A p, q \in posted : SameKey(p, q) => p = q

(* What a caller is told is what happened: ok means this call is posted,   *)
(* duplicate names another posted call with the same identifier, and a     *)
(* refusal leaves nothing behind.  Only an error is inconclusive.          *)
AnswersMatchLedger ==
    \A r \in Requests :
        /\ reply[r].status = "ok" => r \in posted /\ reply[r].tx = r
        /\ reply[r].status = "duplicate" =>
             r \notin posted /\ reply[r].tx \in posted /\ SameKey(reply[r].tx, r)
        /\ reply[r].status \in {"insufficient", "conflict"} => r \notin posted

(* A card posting is never part of a deadlock: it locks its wallet before  *)
(* the suspense account, and whoever holds the suspense account waits for  *)
(* nobody.  Only transfers that cross can block each other.                *)
CardsNeverDeadlock ==
    \A r \in Requests : InWaitCycle(r) => call[r].kind = "p2p"

(* The unique index is reached only by postings that share no account: the *)
(* row locks order all others, so a retry of the same posting always finds *)
(* the earlier one and is answered as a duplicate.                         *)
ConflictOnlyAcrossAccounts ==
    \A r \in Requests :
        reply[r].status = "conflict" =>
            \E p \in posted : SameKey(p, r) /\ ~SharesAccount(p, r)

(* Whatever the locks and the unique index hold up, somebody's next        *)
(* statement is answered: of the open transactions there is one that waits *)
(* for nobody, or one that the deadlock detector will abort.               *)
CanMove(r) ==
    /\ pc[r] \in InTransaction
    /\ InWaitCycle(r) \/ \A s \in Requests : ~WaitsFor(r, s)

SomebodyCanMove ==
    (\E r \in Requests : pc[r] \in InTransaction) => \E r \in Requests : CanMove(r)

(* Every call that started returns, in spite of locks and deadlocks.       *)
EveryCallReturns == \A r \in Requests : pc[r] # "idle" ~> pc[r] = "done"

(* A client identifier that already exists is reported as                  *)
(* ErrDuplicateTransaction, as the comment on that error says.             *)
ExistingIdentifierIsDuplicate ==
    \A r \in Requests : reply[r].status # "conflict"

(* Every history of the tables is one of the ledger contract: the rows     *)
(* become visible in one step, at the commit, when the guard of the        *)
(* contract holds.                                                         *)
Contract == INSTANCE LedgerContract WITH postings <- {call[r] : r \in posted}

ImplementsContract == Contract!Spec

=============================================================================
