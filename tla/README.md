# Verification of congo_pay

TLA+ modules of the Go server in `src/`: a wallet and payment API (Fiber) over PostgreSQL and
Redis. The modules are translated from the code; TLC checks them on small instances, and TLAPS
proves their safety properties and the refinements between them for every number of requests,
wallets, keys and identifiers.

    tlc -config MCPostgresLedger.cfg MCPostgresLedger
    tlapm PostgresLedgerProofs.tla

`PROJECT.json` lists the runs, which definition models which lines of code (`map`), a mutation of
the code for every property (`mutants`), the hazards, the disagreements found, and the theorems.

## The system

A request passes `recover`, the request id, the access log and the idempotency middleware
(`routes.go:48-58`), then, on protected routes, the token check, then a handler, which calls a
service, which calls the ledger or a repository. Requests run concurrently in one process; several
processes may share the database and Redis. There are no background jobs: all state changes happen
inside a request, or at start-up and shutdown (`cmd/api/main.go`), which open and close the
connection pool, the Redis client and the listener that requests depend on.

| part | state | operations | what is hard | correct means |
|---|---|---|---|---|
| Ledger, Postgres (`ledger/postgres.go`) | tables accounts, transactions, entries; row locks | EnsureAccount, Balance, Transfer, CardIn, CardOut | statements of concurrent transactions interleave; two row locks per posting; failures at each statement; a commit whose acknowledgement is lost; reads after the commit | no overdraft, one posting per identifier, double entry, true answers, no lasting deadlock |
| Ledger, in memory (`ledger/inmemory.go`) | balances, results per identifier | the same | aliasing of accounts, int64 | the same contract |
| Idempotency (`middleware/idempotency.go`) | Redis entry per key: absent, marker or response | GET, SETNX, handler, SET or DEL | each command may be lost or applied unheard; entries expire; two requests per key; crash, panic | one handler run answers per key, responses only are replayed, no key blocked for good |
| Payments (`payments/`) | none of its own | Transfer | retries with either identifier, notification after the commit | success implies posted; one notification |
| Funding (`funding/`) | none of its own | CardIn, CardOut | an external authorisation before the posting | no posting without authorisation |
| Auth, identity (`auth/`, `identity/`, `middleware/jwt.go`) | users: device_id, token_version | Register, Login, Refresh, Logout, JWTAuth | reads and writes of one row in separate statements | logout is final, one device |
| Registration, wallets (`routes/identity.go`, `wallet/`) | users, accounts, wallets | register (three writes) | errors and crashes between the writes | a phone has one wallet, a wallet has its account |
| Login rate limit (`middleware/login_rate_limit.go`) | Redis counter with a TTL | INCR, EXPIRE | the two commands are not atomic | no window admits more than the limit, a refused phone is admitted again later |
| Process (`cmd/api`, `server/`, `infra/`, `routes.Setup`) | listener, connection pool, Redis client | start, signal, Shutdown, deferred closes, exit | a limited pool; requests that outlast the shutdown; a killed process whose transactions live on beside its successor | everybody is answered or cut off for a reason, nobody hangs, main ends, payments stay correct throughout |
| Notification, acquirer | external stubs | Send, Authorize | may fail | modelled as choices of PaymentRequests |
| Token encoding, configuration, logging, health, audit | none | | | not modelled: no state, or cryptography |

## Modules

    LedgerCalls ── LedgerContract          the calls, and what every backend promises
        │               │ implemented by
        ├── LedgerSums                     lemmas about sums of entries
        ├── PostgresLedger ── PostgresLedgerInvariant
        ├── InMemoryLedger
        ├── PaymentRequests   = Idempotency + handlers and services + LedgerContract
        └── Server            = the process + its pool + PaymentRequests over PostgresLedger
    Sessions        logins, refreshes and logouts of one user
    Onboarding      registrations and lookups of wallets
    LoginRateLimit  logins of one phone against the Redis counter
    MC*             instances for TLC
    *Proofs         the theorems about each of them (LoginProofs: Sessions and LoginRateLimit),
                    of which those about the two ledgers use LedgerSums, those about
                    PaymentRequests use those about Idempotency, and those about Server use
                    those about PaymentRequests and PostgresLedger

**LedgerCalls** One record for the three posting methods. `first` is the account the code looks up
and locks first; only the sign of the first entry (`FirstEntry`) and the check of funds (`Debits`)
depend on the kind. `Entered` is the code's `SUM(amount)` for one account, over the entries of a set
of postings. Callers pass wallet accounts and the suspense account only, and a positive or
refused amount; the assumptions say so.

**LedgerContract** The `Ledger` interface: a posting is one step, at most once per
`(client_tx_id, kind)`, between existing accounts, covered when it debits.

**PostgresLedger** One action per SQL statement: `LockFirst`, `LockSecond` (`FOR UPDATE`),
`CheckExisting`, `CheckFunds`, `InsertTx`, `InsertFirst`, `InsertSecond`, `Commit`, `ReadFirst`,
`ReadSecond`. `balance` is the sum of committed entries; `entries` holds what a transaction has
inserted and not committed, invisible to others (READ COMMITTED, pgx's and the server's default).
The unique index on `(client_tx_id, kind)` makes `InsertTx` wait for an uncommitted row with the
same key. `Rollback` is the deferred `tx.Rollback` of every early return. `Fail` is an error of any
statement (or of `BEGIN`), `CommitAckLost` a commit that is applied and reported as an error,
`DeadlockAbort` the server's deadlock detector. A balance outside int64 cannot be scanned
(`Readable`).

**InMemoryLedger** Each method runs under the mutex, so `Serve` is one step. The sums wrap (`Wrap`),
and `Post` writes the two balances in the order of the code. It refines the contract but for
`OverflowingPost`, the posting that takes a balance out of int64.

**Idempotency** One action per Redis command. A response is named by the request that produced it.
A command that returns an error may have been applied (`MaybeStore`), except GET. `raced` and
`expired` are history variables: keys that two requests worked on at once, and keys whose entry has
expired. The cleanup of `SaveFails` uses the context of the failed SET, so it may fail with it.

**PaymentRequests** The middleware by INSTANCE, the handlers and services around a ledger that keeps
its contract. A missing `client_tx_id` is replaced by a value of the request's own. A transfer's
duplicate is answered 409 (`payments/handler.go:48`), a card's 200 with the transaction found
(`funding/handler.go:40`). The ledger posts in one step (`Post`) and says so in the next (`Report`);
between the two the request may fail, because the ledger may return an error after it posted, and
the process may die; a COMMIT that is under way then still posts. A failed token check, body, wallet
lookup, owner check, authorisation or posting is `Fail`.

**Server** The composition. `phase` is where `main` is: down, up, draining (`Shutdown` waits for the
connections), cacheClosed and poolClosed (the deferred closes, in reverse order). PaymentRequests and
PostgresLedger are instantiated over the same tables, and a request's ledger call is a transaction
that holds a connection of the pool from BEGIN to COMMIT or ROLLBACK (`Connected`); wallet lookups and
the reads of balances after a commit take one for themselves (`HasRoom`), and need one to be free.
After `Signal` only connections that are kept alive bring requests. A closed Redis client fails every
command; a closed pool gives no connection, and `Exit` waits for those that are out. `Kill` ends the
process anywhere; `Die` is what becomes of its requests, `Abandoned` of its transactions: the database
rolls them back, or finishes a COMMIT that had been sent, when it gets to it, possibly after the next
`Boot`. A panic is not modelled inside a transaction: nothing in those lines can cause one, and the
deferred Rollback would run. `killed` and `cut` are history variables.

**Sessions** One user (rows of others are never touched). A request reads the row in its first step
and writes or signs in a later one with what it read. `token` is the version a request signed;
`Accepted` the comparison in JWTAuth and Refresh. A refresh takes any token, because REFRESH_SECRET
is JWT_SECRET unless it is set. `revoked` and `together` are history variables:
sessions over before a logout that succeeded, and requests that overlapped.

**Onboarding** The three writes of a registration; each may fail, before or after it is applied, and
the process may die between two. `FindWallet` and `ReadBalance` are the two reads by which GET /wallet
and the login look a wallet up, between the writes as well.

**LoginRateLimit** INCR, EXPIRE and the verdict are three steps of a login. An error of INCR lets the
login through (`IncrFails`), applied or not; the result of EXPIRE is never looked at (`SetTTLFails`).
`window` and `lost` are history variables: the logins the present counter has counted, and whether
its EXPIRE was never applied. Only the login that is answered 1 sends EXPIRE, so nobody repairs a
lost one.

**Abstracted everywhere** Formats, wording, logging, HTTP status beyond the class of the answer, PIN
hashes, card data, wallet currency and status, settlement status, timestamps. The other read-only
routes (wallet and balance by id, me, healthz) change no state.

## Runs

| run | instance | shows |
|---|---|---|
| postgres_ledger | 3 requests, 2 wallets, 2 identifiers, 7 calls, balances up to 3; 164,000 states | the safety properties, that all balances are explained by the postings and sum to zero, that no wait is endless, the refinement of LedgerContract, every begun call returns |
| inmemory_ledger | 4 requests, 6 calls, MaxInt64 = 3, so that two credits overflow; 1,000 states | the contract, repeated answers, what an overflow can do |
| inmemory_self_transfer | the same, transfers to oneself | **violation**: money is created |
| idempotency | 3 requests, 1 key; 25,000 states | what may be replayed, when two own answers are possible, settled keys, no key blocked for good |
| idempotency_overlap | the same | **violation**: two handler runs answer |
| payment_requests | 2 requests with one key and 3 payments, a retry with another key, an account opened meanwhile; 2.2 million states | success means posted, double posting needs a loss, one notification, authorisation first |
| server | 2 requests with one key, crossing transfers with one identifier or a card payment, pool of 1 or 2, any number of shutdowns, kills and restarts; 560,000 states | PaymentRequests is implemented, no request hangs, shutdown ends, who may be cut off, which transactions may be abandoned |
| sessions | 5 requests, 2 devices; 710,000 states | logout is final and the device unique unless two writers overlap |
| sessions_overlap | 4 requests | **violation**: a revoked session comes back |
| login_rate_limit | 4 logins of one phone, limit 2; 66,000 states | no window admits more than the limit; the counter ends unless its EXPIRE is lost |
| onboarding | 4 registrations or lookups, 2 phones; 1,300 states | no dangling and no second wallet, announced wallets work |
| onboarding_partial | the same | **violation**: registered without a wallet |

Every passing run also checks `IInv` (`LimitIInv` in LoginRateLimit), the inductive invariant of the
module, of which `TypeOK` is the first conjunct. `BooksInv` and `ExactInv`, which the proofs about sums
add, hold in every state of the runs of the two ledgers.

*Why the bounds are enough.* Postings interact through two account rows and one identifier; two
requests are needed for every conflict, a third for one that commits between two steps of another
while a second waits. The calls include crossing transfers, one identifier on disjoint accounts, one
identifier under two kinds, a wallet that runs dry after one posting, an account that does not
exist yet, a refused amount, and credits that leave the scannable range (`MaxInt64 = 3`). Keys of the
middleware are independent, so one key is enough; three requests allow one to store a response, one
to delete it and one to come after. In payment_requests the third request has a key of its own and
the same `client_tx_id`. In server, two requests suffice to fill a pool, to cross in their
locks, and for a retry to meet what a killed process left; a pool of one makes every second acquire wait, a pool of two
is never full for long. A session needs a login, a refresh and up to three logouts for the
interleaving that revives a token. Overflow needs two credits of 2 under
`MaxInt64 = 3`. Balances need no bound of their own: each request posts once.

*Deadlock* is checked in every run: a state in which nothing can move and not every request has
ended would be reported. (The process of Server never stops for good: it may always be started.)

*Fairness.* PostgresLedger assumes weak fairness of each connection's next statement and of the
deadlock detector: pgx sends the next statement as soon as the last is answered, and PostgreSQL
checks for deadlocks after `deadlock_timeout`. A waiting request needs no strong fairness in the run
because every lock holder ends and each request runs once. Idempotency assumes only that Redis
expires keys with a TTL (every entry is written with one). LoginRateLimit assumes that too, and that
the login that made the counter goes on to EXPIRE unless its process dies. Server assumes that a
request's next step is taken (statements and Redis commands are answered, a goroutine runs on), that
the database ends the sessions of a dead process, and that `main`, once signalled, goes on to its next
call (`Shutdown` has its ten seconds, `db.Close` only its connections). Arrivals, failures, signals,
kills and restarts are never assumed; nor is success, but a wait that only an error could end counts
as a hang. The other specifications state no liveness.

## What is proved

Each theorem holds for any sets of requests, keys, wallets, identifiers, devices and phones, finite
or not, under the assumptions in the modules:

- *LedgerCalls*: the suspense account is no wallet; callers name wallets and (for cards) the suspense
  account; opening balances of wallets are not negative, and accounts that do not exist hold nothing.
- *Null values* (`NoRequest`, `Absent`, `Marker`, `NoId`, ...) are distinct from what they stand beside.
- *InMemoryLedger*: opening balances are int64 values.
- *PaymentRequests*: a body is a posting with or without an identifier, and no client chooses one
  that the server draws for a request without (a fresh UUID).
- *LoginRateLimit*: the limit is positive (the code takes 5 for one that is not).

An invariant of the system is seldom inductive, so each module has an `IInv` that adds what its
steps rely on. Every proof has the same shape: `Init => IInv`, one lemma per action or group of
actions for `IInv /\ [Next]_vars => IInv'`, and the properties from `IInv`.

**PostgresLedgerProofs** `IInv` (in PostgresLedgerInvariant) adds:

- `RowsHeld`: a request holds the rows it has locked, and a held row belongs to a stage that locked
  it. Two requests past their locks therefore share no account.
- `Funded`: from the balance check to the insert of its entries a debit is still covered. It follows
  from `RowsHeld`: whoever commits in between touches other accounts.
- `EntriesSoFar`: what a commit will add is exactly `Effect`.
- `KeysUnique`: among committed *and* uncommitted transactions rows keys are unique; this is what the
  wait at the unique index adds to the committed rows.
- `KeyTakenElsewhere`: a key that appears after the lookup was committed between other accounts.
- `PostedLate`, `AnsweredAtEnd`, `CallsBound`: when a request is posted, answered and has a call.

Theorems: `NeverOverdrawn`, `PostedOncePerKey`, `AnswersTrue`, `ConflictsAcrossAccounts`, and

- `MoneyOnlyMoves` (`DoubleEntry`): a commit moves one amount from one account to another, every
  other step none.
- `BooksInvariance`: each balance is its opening plus what the postings so far have entered
  (`Explained`), a sum over as many postings as there have been. `BooksInv` adds that only finitely
  many calls have begun (`Begun`), which is what makes that a sum, although `Requests` may be infinite.
- `BooksAlwaysBalance`: so the accounts sum to zero at every moment, whatever fails between the two
  entries of a posting. It has two hypotheses: the accounts are finitely many, and the opening
  balances sum to zero (`FiniteAccounts`, `OpeningSumsToZero`): the codes in use are rows of a table,
  and a database that started empty had nothing in it but what postings left there.
- `NoWaitIsEndless` (`SomebodyCanMove`): while transactions are open, one of them waits for nobody or
  is in a cycle that the deadlock detector breaks. Were it otherwise, everybody who waits would
  wait for somebody who waits, and leaving out whom nobody waits for, again and again, ends with a
  cycle (`EndlessWaitIsCycle`). This is the safety half of `EveryCallReturns`.
- `CardsDeadlockFree`: in a cycle of waits nobody has inserted, so everybody waits for a row and
  holds its first one, a wallet; a card posting that waits for its second row waits for the suspense
  account, which nobody in the cycle holds.
- `Refinement`: every commit is a `Post` of LedgerContract whose guard follows from `RowsHeld`,
  `Funded` and `KeysUnique`; every other step is a stutter or `EnsureAccount`.

**InMemoryLedgerProofs** `IInv` says that posted calls and remembered results agree
(`PostedRemembered`, `ResultsAnswered`); `RetriesRepeatAnswer` follows. `ExactInv` says that each
balance is the exact sum of its postings modulo the width of int64, and that a wallet's exact sum is
never negative: the check of funds reads the wrapped balance, which is at most the exact one.
`BalancesExplained` follows (`NegativeOnlyByOverflow`). It rests on lemmas that wrapping is
compatible with addition (`ModAdd`, `WrapAdd`). `NegativeByOutgrowing` says of each step that a wallet
falls below zero only when more is posted to it than an int64 holds (`NegativeOnlyByStep`), and
needs no hypothesis. `BalancesExplained` and `Refinement` need that no call names one account twice
(with one that does both fail, see below), `Refinement` also that the suspense account is open (Setup
opens it first); the run satisfies both. A step whose sums do not wrap is then a `Post`.

**LedgerSums** The library defines a sum over a set by recursion on the set. Its lemmas say what the
ledgers need: a sum of integers is one (`TotalType`), taking one element out takes its value out
(`TotalRemove`), changing one value changes the sum by as much (`TotalChange`), one more posting adds
its effect to an account's entries (`OneMoreEntered`). They rest on induction over the finite subsets
of a set, proved from the well-foundedness of the strict subset order in the form "whatever holds of a
set when it holds of its proper subsets" (`SubsetInduction`); the hypothesis is a set of subsets
rather than a predicate, so that the provers can instantiate it.

**IdempotencyProofs** As long as nobody raced on a key and it has not expired (`Undisturbed`), at most
one request is past the lookup (`OneAtATime`), it finds its key taken (`KeyTaken`), and an own answer
is the entry that stands under the key (`OwnAnswersStand`); `StoredResponses` says whose responses
entries are. Theorems: `ResponsesReplayed`, `OneHandlerAnswers`, and the action property
`SettledResponsesStay`.

**PaymentRequestsProofs** takes `Middleware!IInv` from IdempotencyProofs: every step here is a step of
the middleware or leaves it alone (`ImplementsMiddleware`), so its theorems hold in the payment path
(`MiddlewareHolds`). It adds what has been posted, authorised
and named by each step of a handler (`BodiesBound`, `StepsInOrder`, `NamedPosted`, `PostedOnce`) and,
for payments that only the Idempotency-Key protects, `KeyHeld`: whoever has begun to handle an
undisturbed key still works on it, was answered with an error, or has left an entry that stops
everybody else; hence `HandledAgainAfterError`. Theorems: `SuccessIsPosted`, `PostedTwiceOnlyByLoss`,
`AnnouncedOnce`, `CardsAuthorised`, and `ImplementsLedger` (the tables change as LedgerContract says).

**ServerProofs** takes the invariants of PaymentRequests and PostgresLedger from their proofs and adds
`CallsServe` (the transaction of a request posts the payment of its body, and its handler stands at
the posting while it is open, alive or dead), `OrderlyIsEmpty` and `LeftBehind` (who is under way when
Shutdown has returned in time, and when the process has ended). The commit of PostgresLedger, also of
a transaction whose process is gone, is then the `Post` of PaymentRequests, and no other step changes
what PaymentRequests sees: `Refinement`. To the database the server is a client like any other:
`ImplementsLedger` (Server implements PostgresLedger) and with it `ContractKept`. So `PaymentsHold`,
`MiddlewareHolds`, `BooksHold` and `BooksBalanceHolds`: what is proved of the parts holds of the
running server, with any pool, shutdown, kill and restart. `ShutdownAnswersAll` and
`TransactionsAwaited` say whom an end of the process may cut off. `PoolNeverStuck`
(`PoolKeepsMoving`): no more connections are out than the pool has, and when none is left one of the
open transactions in the database can go on, so a request that needs a connection never waits for
requests that all wait for each other, or for those a dead process left. No run checks
`PoolKeepsMoving`; it holds in every state of the server run.

**LoginProofs** Sessions: unless two logouts overlap the version only grows and a logout under way has
read the version of now (`VersionGrows`); unless two bindings overlap everybody names one device
(`BoundOnce`). `RecordedTogether` ties the history variable to the requests under way. Theorems:
`LogoutIsFinal`, `OneDeviceBound`. The limiter, a specification of its own (`LimitSpec`): the logins of a
window hold different numbers up to the counter (`TicketsDiffer`), so those admitted map injectively
into `1..MaxPerMin`: `WindowsLimited`. `CountersEndUnlessLost` is the safety half of the liveness
property: a counter without a TTL has lost its EXPIRE or a login is about to send it.

**OnboardingProofs** What a request has written before its next write (`WritesInOrder`), and that a
wallet it learnt of is that of its phone (`AnnouncedIsOwn`). Theorems: `PhonesHaveOneWallet`,
`NoWalletIsHalfMade`, `LearntWalletsWork`.

*Only model-checked:* the liveness properties `EveryCallReturns`, `ReservationEnds`,
`CounterExpiresUnlessLost`, `EveryRequestEnds` and `ShutdownEnds`. The provers have no rules for
fairness and ENABLED. `NoWaitIsEndless`, `PoolNeverStuck` and `CountersEndUnlessLost` prove the states
that could block them impossible; that what can move does move is left to TLC.

## Disagreements with the documentation

1. In memory, a transfer from an account to itself adds the amount (`inmemory.go:71-72`);
   `congo_pay_go_roadmap.md:455` wants the ledger to balance to zero.
2. Two requests with one Idempotency-Key that overlap both run the handler
   (`idempotency.go:72` ignores whether SETNX set the key).
3. A slow logout sets `token_version` back and revives revoked tokens (`auth/service.go:96`).
   `LogoutRevokesUnlessOverlapped` shows overlapping logouts to be the only cause.
4. A registration whose wallet cannot be created is answered 201 without one
   (`routes/identity.go:31`), and nothing ever creates it.

Known and not contradicted by any text: the loser of two postings with one identifier between
disjoint accounts gets a plain error instead of `ErrDuplicateTransaction`
(`ConflictOnlyAcrossAccounts` says when); a retry without `client_tx_id` can post twice
(`DoublePostingNeedsLoss` says when); a transfer that posted and was answered with an error is
answered 409 on retry; a login counter whose EXPIRE is lost refuses the phone for good
(`CounterExpiresUnlessLost`).

## Plan

Done: the ledger contract, both backends and their refinement, the idempotency middleware, the
payment path, the process around it with PostgresLedger in the place of the contract, sessions,
onboarding with its readers, the login rate limit; proofs of every safety property that a passing run
checks, of every refinement, and of the states that would block the liveness properties. What could
come next: the development wiring with in-memory backends as a second composition, and several server
processes over one database and Redis.

## Not modelled

- Token encoding (cryptography), configuration, logging, request id, audit, health: no state of
  their own. `middleware/audit.go` and `identity/handler.go` are wired to no route.
- The development wiring with in-memory backends in `Server`: the in-memory ledger is modelled on its
  own, its repositories are the same operations under a mutex.
- Several server processes at once, except for the sessions a killed one leaves: PostgresLedger and
  Idempotency do not care in which process a request runs, only the pool and the shutdown are per
  process.
- A listener that cannot be opened (`main.go:67`): the process stays up without requests, which
  `Server` includes as an `up` in which nothing arrives.
- Card settlement and reconciliation: described by the roadmap, not implemented.
