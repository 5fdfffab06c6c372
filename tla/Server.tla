------------------------------- MODULE Server -------------------------------
(***************************************************************************)
(* The server as it runs: one process of cmd/api at a time, from start-up  *)
(* to the end of main, serving payments (PaymentRequests) whose postings   *)
(* are transactions of the Postgres ledger (PostgresLedger) on connections *)
(* of a bounded pool, with Redis reached through a client that main closes *)
(* before the pool.  The process may be killed at any moment; the sessions *)
(* it leaves in the database end on their own, also next to a new process. *)
(***************************************************************************)
EXTENDS LedgerCalls, FiniteSets

CONSTANTS
    Requests, Keys, KeyOf, NoRequest, Absent, Marker, \* see Idempotency
    Intents, NoId, NoIntent,                          \* see PaymentRequests
    MaxInt64,                                         \* see PostgresLedger
    PoolSizes  \* values of pool_max_conns

ASSUME PoolSizesAssumption == PoolSizes \subseteq Nat \ {0}

VARIABLES
    store, pc, answer, succeeded, raced, expired,  \* see Idempotency
    intent, step, authorised, notified, named,     \* see PaymentRequests
    accounts, balance, posted,                     \* the database
    stmt, call, lock, entries, reply,  \* pc, ... of PostgresLedger
    phase,     \* where main is
    poolSize,
    overdue,   \* the shutdown context ended before the last connection
    killed,    \* history: requests under way when their process was killed
    cut        \* history: requests that outlasted an overdue shutdown

requestVars == <<store, pc, answer, succeeded, raced, expired,
                 intent, step, authorised, notified, named>>

tableVars == <<accounts, balance, posted>>

sessionVars == <<stmt, call, lock, entries, reply>>

processVars == <<phase, poolSize, overdue, killed, cut>>

vars == <<requestVars, tableVars, sessionVars, processVars>>

Payments == INSTANCE PaymentRequests

DB == INSTANCE PostgresLedgerInvariant WITH pc <- stmt, NoCall <- NoIntent

Middleware == INSTANCE Idempotency

(* What the parts assume of their constants.                               *)
ASSUME PaymentsAssumption ==
    /\ Payments!IntentsAssumption
    /\ Payments!KeyOfAssumption
    /\ Payments!EntriesAssumption

ASSUME DBAssumption == DB!RequestAssumption /\ DB!MaxInt64Assumption

-----------------------------------------------------------------------------

(* main: not running; serving; Shutdown waits for the connections; the     *)
(* deferred cache.Close has run; db.Close has begun.                       *)
Phases == {"down", "up", "draining", "cacheClosed", "poolClosed"}

Alive == phase # "down"

Stopping == phase \in {"draining", "cacheClosed", "poolClosed"}

CacheOpen == phase \in {"up", "draining"}

(* The listener is closed first, but a connection that is kept alive may   *)
(* bring one more request, as long as Shutdown has not seen it end.        *)
AcceptingAnyTime ==  \* mutant: the listener outlives the connections
    Alive

Accepting == CacheOpen \/ (Alive /\ overdue)

UnderWay == {r \in Requests : pc[r] \notin Middleware!Ended \cup {"idle"}}

(* Sessions that have a connection of the pool: a transaction keeps its    *)
(* own from BEGIN to COMMIT or ROLLBACK.                                   *)
ConnectedUntilAnswer ==  \* mutant: the balances are read before the release
    {r \in UnderWay : stmt[r] \in DB!InTransaction \cup DB!Reporting}

Connected == {r \in UnderWay : stmt[r] \in DB!InTransaction}

(* pool.Acquire returns a connection; otherwise it waits, or fails when    *)
(* the pool is closed.                                                     *)
HasRoom == phase # "poolClosed" /\ Cardinality(Connected) < poolSize

Init ==
    /\ Payments!Init
    /\ DB!Init
    /\ phase = "down"
    /\ poolSize \in PoolSizes
    /\ overdue = FALSE
    /\ killed = {}
    /\ cut = {}

-----------------------------------------------------------------------------
(* The process.                                                            *)

(* Connections are opened and pinged, and routes.Setup makes the services; *)
(* funding.NewService makes sure of the suspense account.  log.Fatal may    *)
(* end the process after that.                                             *)
Boot ==
    /\ phase = "down"
    /\ UnderWay = {}
    /\ phase' \in {"up", "down"}
    /\ accounts' = accounts \cup {Suspense}
    /\ UNCHANGED <<requestVars, balance, posted, sessionVars,
                   poolSize, overdue, killed, cut>>

(* SIGINT or SIGTERM.                                                      *)
Signal ==
    /\ phase = "up"
    /\ phase' = "draining"
    /\ UNCHANGED <<requestVars, tableVars, sessionVars,
                   poolSize, overdue, killed, cut>>

(* Shutdown returns when the last connection has ended or when its context *)
(* has, after ten seconds; then cache.Close runs.                          *)
StopServing ==
    /\ phase = "draining"
    /\ phase' = "cacheClosed"
    /\ \/ UnderWay = {} /\ overdue' = FALSE
       \/ overdue' = TRUE
    /\ UNCHANGED <<requestVars, tableVars, sessionVars, poolSize, killed, cut>>

ClosePool ==
    /\ phase = "cacheClosed"
    /\ phase' = "poolClosed"
    /\ UNCHANGED <<requestVars, tableVars, sessionVars,
                   poolSize, overdue, killed, cut>>

ProcessEnds ==
    /\ phase' = "down"
    /\ overdue' = FALSE
    /\ UNCHANGED <<requestVars, tableVars, sessionVars, poolSize>>

CutOff == IF overdue THEN UnderWay ELSE {}

ExitAtOnce ==  \* mutant: main does not wait for db.Close
    /\ phase = "poolClosed"
    /\ cut' = cut \cup CutOff
    /\ ProcessEnds
    /\ UNCHANGED killed

(* db.Close returns when every connection is back in the pool.             *)
Exit ==
    /\ phase = "poolClosed"
    /\ Connected = {}
    /\ cut' = cut \cup CutOff
    /\ ProcessEnds
    /\ UNCHANGED killed

Kill ==
    /\ Alive
    /\ killed' = killed \cup UnderWay
    /\ ProcessEnds
    /\ UNCHANGED cut

(* The requests of a process that is gone.                                 *)
Die(r) ==
    /\ phase = "down"
    /\ Payments!Crash(r)
    /\ UNCHANGED <<sessionVars, processVars>>

-----------------------------------------------------------------------------
(* Requests up to the ledger.                                              *)

Arrive(r) ==
    /\ Accepting
    /\ Payments!Arrive(r)
    /\ UNCHANGED <<sessionVars, processVars>>

(* A closed client returns an error and sends nothing.                     *)
InMiddleware(r) ==
    /\ Alive
    /\ Payments!InMiddleware(r)
    /\ CacheOpen \/ (Middleware!Unanswered(r) /\ UNCHANGED store)
    /\ UNCHANGED <<sessionVars, processVars>>

(* The steps of a handler outside the ledger; the wallets are looked up    *)
(* on connections of the pool.                                             *)
InHandler(r) ==
    /\ Alive
    /\ \/ HasRoom /\ Payments!Prepare(r)
       \/ Payments!Authorise(r)
       \/ Payments!Notify(r)
       \/ Payments!Respond(r)
    /\ UNCHANGED <<sessionVars, processVars>>

FailAnyTime(r) ==  \* mutant: the request is given up, its transaction is not
    /\ Alive
    /\ Payments!Fail(r)
    /\ UNCHANGED <<sessionVars, processVars>>

(* Before BEGIN: an error of the handler, or no connection to be had.      *)
Fail(r) ==
    /\ Alive
    /\ stmt[r] = "idle"
    /\ Payments!Fail(r)
    /\ UNCHANGED <<sessionVars, processVars>>

Panic(r) ==
    /\ Alive
    /\ stmt[r] \in {"idle", "done"}
    /\ Payments!Panic(r)
    /\ UNCHANGED <<sessionVars, processVars>>

-----------------------------------------------------------------------------
(* The call of the ledger.                                                 *)

(* What the statements of r leave alone.                                   *)
AtLedger(r) ==
    /\ step' = IF r \in posted' \ posted THEN [step EXCEPT ![r] = "report"] ELSE step
    /\ UNCHANGED <<store, pc, answer, succeeded, raced, expired,
                   intent, authorised, notified, named, processVars>>

Begin(r) ==
    /\ Alive
    /\ HasRoom
    /\ Payments!Running(r, "post")
    /\ DB!Begin(r)
    /\ call'[r] = Payments!Posting(r)
    /\ AtLedger(r)

(* A statement succeeds, or the server breaks a cycle of waits.            *)
Statement(r) ==
    /\ r \in UnderWay
    /\ Alive
    /\ stmt[r] \in DB!Reporting => HasRoom
    /\ DB!Step(r) \/ DB!DeadlockAbort(r)
    /\ AtLedger(r)

StatementFails(r) ==
    /\ r \in UnderWay
    /\ Alive
    /\ DB!Fail(r) \/ DB!CommitAckLost(r)
    /\ AtLedger(r)

(* The call returns to the service.                                        *)
Return(r) ==
    /\ Alive
    /\ stmt[r] = "done"
    /\ \/ reply[r].status = "ok" /\ Payments!Report(r)
       \/ /\ reply[r].status = "duplicate"
          /\ Payments!Duplicate(r)
          /\ named'[r] \in {named[r], reply[r].tx}
       \/ reply[r].status \notin {"ok", "duplicate"} /\ Payments!Fail(r)
    /\ UNCHANGED <<sessionVars, processVars>>

(* The server finds the connection of a dead process broken and rolls its  *)
(* transaction back, unless the COMMIT had been sent.                      *)
Abandoned(r) ==
    /\ pc[r] = "crashed"
    /\ stmt[r] \in DB!InTransaction
    /\ DB!Fail(r) \/ DB!CommitAckLost(r)
    /\ AtLedger(r)

-----------------------------------------------------------------------------

Expire(k) ==
    /\ Payments!Expire(k)
    /\ UNCHANGED <<sessionVars, processVars>>

Process == Boot \/ Signal \/ StopServing \/ ClosePool \/ Exit \/ Kill

Progress(r) ==
    \/ InMiddleware(r) \/ InHandler(r)
    \/ Begin(r) \/ Statement(r) \/ Return(r)

Next ==
    \/ Process
    \/ \E r \in Requests :
        \/ Arrive(r) \/ Progress(r)
        \/ Fail(r)   \/ StatementFails(r) \/ Panic(r)
        \/ Die(r)    \/ Abandoned(r)
    \/ \E k \in Keys : Expire(k)

Spec == Init /\ [][Next]_vars

(* Goroutines run, commands and statements are answered, main goes on, the *)
(* operating system ends a process and the database its broken sessions.   *)
(* Nothing need arrive, fail, be killed or started again.                  *)
Fairness ==
    /\ \A r \in Requests :
        WF_vars(Progress(r)) /\ WF_vars(Die(r)) /\ WF_vars(Abandoned(r))
    /\ WF_vars(StopServing \/ ClosePool \/ Exit)

FairSpec == Spec /\ Fairness

-----------------------------------------------------------------------------
(* Properties.                                                             *)

(* The shape of every variable.                                            *)
TypeOK ==
    /\ Payments!TypeOK
    /\ DB!TypeOK
    /\ phase \in Phases
    /\ poolSize \in PoolSizes
    /\ overdue \in BOOLEAN
    /\ killed \in SUBSET Requests
    /\ cut \in SUBSET Requests

(* With the statements of Postgres, a bounded pool, shutdowns, kills and   *)
(* transactions that outlive their process in the place of a ledger that   *)
(* posts in one step, payments behave as in PaymentRequests: everything    *)
(* shown there holds of the running server.                                *)
ImplementsPayments == Payments!Spec

(* No request hangs: neither on a row lock, its own or one a dead process  *)
(* left behind, nor on a connection of the pool, however small, nor on a   *)
(* client that main has closed.                                            *)
EveryRequestEnds == \A r \in Requests : []<>(r \notin UnderWay)

(* main comes to its end: db.Close waits for transactions only, and these  *)
(* end although nobody gets a connection any more.                         *)
ShutdownEnds == []<>~Stopping

(* A request is cut off only by a kill of the process or by a shutdown     *)
(* that ran out of its ten seconds: an orderly shutdown answers everybody. *)
OrderlyShutdownAnswers ==
    \A r \in Requests : pc[r] = "crashed" => r \in killed \cup cut

(* Only a kill leaves a transaction open in the database; even an overdue  *)
(* shutdown lets the postings it cuts off commit or roll back first.       *)
OnlyKillsAbandon ==
    \A r \in Requests :
        (pc[r] = "crashed" /\ stmt[r] \in DB!InTransaction) => r \in killed

(* Transactions have no more connections than the pool, and when they have *)
(* them all, so that everybody else waits for one, some transaction of     *)
(* this process or a dead one can go on without another connection.        *)
PoolKeepsMoving ==
    /\ Cardinality(Connected) <= poolSize
    /\ (phase # "poolClosed" /\ ~HasRoom) => \E r \in Requests : DB!CanMove(r)

-----------------------------------------------------------------------------
(* The inductive invariant behind ServerProofs.                            *)

(* A request's call of the ledger asks for its own payment, and while its  *)
(* transaction is open its handler stands at the posting.                  *)
CallsServe ==
    \A r \in Requests :
        /\ stmt[r] # "idle" => pc[r] # "idle" /\ call[r] = Payments!Posting(r)
        /\ stmt[r] \in DB!InTransaction =>
             step[r] = "post" /\ pc[r] \in {"handler", "crashed"}

(* Once Shutdown has seen the last connection end, nobody comes any more.  *)
OrderlyIsEmpty ==
    (phase \in {"cacheClosed", "poolClosed"} /\ ~overdue) => UnderWay = {}

(* Whom a process leaves behind when it ends: those it was killed under,   *)
(* with their transactions, or those an overdue shutdown did not wait for, *)
(* without.                                                                *)
LeftBehind ==
    phase = "down" =>
        \A r \in UnderWay :
            r \in killed \/ (r \in cut /\ stmt[r] \notin DB!InTransaction)

IInv ==
    /\ TypeOK
    /\ Payments!IInv
    /\ DB!IInv
    /\ CallsServe
    /\ OrderlyIsEmpty
    /\ LeftBehind
    /\ OrderlyShutdownAnswers
    /\ OnlyKillsAbandon

=============================================================================
