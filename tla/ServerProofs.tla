---------------------------- MODULE ServerProofs ----------------------------
(***************************************************************************)
(* Proofs about the running server, for any number of requests, accounts   *)
(* and postings and for pools of any size.  What the parts guarantee is    *)
(* taken from their proofs: PaymentRequestsProofs for the requests,        *)
(* PostgresLedgerProofs for the database.  The invariant here adds how the *)
(* two hang together, and whom a process leaves behind when it ends.       *)
(***************************************************************************)
EXTENDS Server, FiniteSetTheorems, TLAPS

RP == INSTANCE PaymentRequestsProofs

LP == INSTANCE PostgresLedgerProofs WITH pc <- stmt, NoCall <- NoIntent

-----------------------------------------------------------------------------
(* The requests, as proved about in PaymentRequestsProofs.                 *)

(* Its assumptions are those of Server.                                    *)
LEMMA RequestsAssumed ==
    /\ RP!SuspenseAssumption /\ RP!CallsAssumption /\ RP!OpeningAssumption
    /\ RP!IntentsAssumption /\ RP!KeyOfAssumption /\ RP!EntriesAssumption
BY SuspenseAssumption, CallsAssumption, OpeningAssumption, PaymentsAssumption
DEF RP!SuspenseAssumption, RP!CallsAssumption, RP!OpeningAssumption,
    RP!IntentsAssumption, RP!KeyOfAssumption, RP!EntriesAssumption,
    RP!CallType, RP!Kinds, RP!Accounts, RP!Bodies, RP!Identified,
    Payments!IntentsAssumption, Payments!KeyOfAssumption, Payments!EntriesAssumption,
    Payments!Bodies, Payments!Identified, Payments!Kinds, Payments!Accounts,
    CallType, Kinds, Accounts

(* Both instances of a definition mean the same.                           *)
LEMMA SameMiddlewareInvariant == Payments!Middleware!IInv <=> RP!Middleware!IInv
BY DEF Payments!Middleware!IInv, Payments!Middleware!TypeOK, Payments!Middleware!Entries,
       Payments!Middleware!Stages, Payments!Middleware!Working, Payments!Middleware!Ended,
       Payments!Middleware!Answers, Payments!Middleware!Statuses,
       Payments!Middleware!StoredResponses, Payments!Middleware!OneAtATime,
       Payments!Middleware!KeyTaken, Payments!Middleware!OwnAnswersStand,
       Payments!Middleware!AnsweredAtEnd, Payments!Middleware!ReplaysAreResponses,
       Payments!Middleware!Undisturbed,
       RP!Middleware!IInv, RP!Middleware!TypeOK, RP!Middleware!Entries,
       RP!Middleware!Stages, RP!Middleware!Working, RP!Middleware!Ended,
       RP!Middleware!Answers, RP!Middleware!Statuses,
       RP!Middleware!StoredResponses, RP!Middleware!OneAtATime,
       RP!Middleware!KeyTaken, RP!Middleware!OwnAnswersStand,
       RP!Middleware!AnsweredAtEnd, RP!Middleware!ReplaysAreResponses,
       RP!Middleware!Undisturbed

LEMMA SameRequestsInvariant == Payments!IInv <=> RP!IInv
<1>1. Payments!TypeOK <=> RP!TypeOK
    BY DEF Payments!TypeOK, Payments!Middleware!TypeOK, Payments!Middleware!Entries,
           Payments!Middleware!Stages, Payments!Middleware!Working,
           Payments!Middleware!Ended, Payments!Middleware!Answers,
           Payments!Middleware!Statuses, Payments!Bodies, Payments!Kinds,
           Payments!Accounts, Payments!Steps,
           RP!TypeOK, RP!Middleware!TypeOK, RP!Middleware!Entries,
           RP!Middleware!Stages, RP!Middleware!Working, RP!Middleware!Ended,
           RP!Middleware!Answers, RP!Middleware!Statuses, RP!Bodies, RP!Kinds,
           RP!Accounts, RP!Steps
<1>2. Payments!BodiesBound <=> RP!BodiesBound
    BY DEF Payments!BodiesBound, RP!BodiesBound
<1>3. Payments!StepsInOrder <=> RP!StepsInOrder
    BY DEF Payments!StepsInOrder, Payments!IsCard, RP!StepsInOrder, RP!IsCard
<1>4. Payments!NamedPosted <=> RP!NamedPosted
    BY DEF Payments!NamedPosted, Payments!Key, Payments!Posting, Payments!Identified,
           RP!NamedPosted, RP!Key, RP!Posting, RP!Identified
<1>5. Payments!PostedOnce <=> RP!PostedOnce
    BY DEF Payments!PostedOnce, Payments!Key, Payments!Posting, Payments!Identified,
           RP!PostedOnce, RP!Key, RP!Posting, RP!Identified
<1>6. Payments!KeyHeld <=> RP!KeyHeld
    BY DEF Payments!KeyHeld, Payments!Erred, Payments!Middleware!Working,
           Payments!Middleware!Undisturbed,
           RP!KeyHeld, RP!Erred, RP!Middleware!Working, RP!Middleware!Undisturbed
<1>7. Payments!HandledAgainAfterError <=> RP!HandledAgainAfterError
    BY DEF Payments!HandledAgainAfterError, Payments!Erred, Payments!Middleware!Undisturbed,
           RP!HandledAgainAfterError, RP!Erred, RP!Middleware!Undisturbed
<1> QED
    BY <1>1, <1>2, <1>3, <1>4, <1>5, <1>6, <1>7, SameMiddlewareInvariant
    DEF Payments!IInv, RP!IInv

LEMMA SameRequestsInit == Payments!Init <=> RP!Init
BY DEF Payments!Init, Payments!Middleware!Init, Payments!Middleware!Plain,
           RP!Init, RP!Middleware!Init, RP!Middleware!Plain

(* A step of the middleware.                                               *)
LEMMA SameInMiddleware ==
    ASSUME NEW r \in Requests
    PROVE  Payments!InMiddleware(r) <=> RP!InMiddleware(r)
BY DEF Payments!InMiddleware, Payments!ledgerVars, Payments!handlerVars,
           Payments!Middleware!MiddlewareStep, Payments!Middleware!Unanswered,
           Payments!Middleware!Lookup, Payments!Middleware!LookupFails,
           Payments!Middleware!Reserve, Payments!Middleware!ReserveFails,
           Payments!Middleware!Reserved, Payments!Middleware!Save,
           Payments!Middleware!SaveFails, Payments!Middleware!Cleanup,
           Payments!Middleware!Discard, Payments!Middleware!MaybeStore,
           Payments!Middleware!OthersWorking, Payments!Middleware!Working,
           Payments!Middleware!Goto, Payments!Middleware!End,
           Payments!Middleware!Plain, Payments!Middleware!Response, RP!InMiddleware,
           RP!ledgerVars, RP!handlerVars, RP!Middleware!MiddlewareStep,
           RP!Middleware!Unanswered, RP!Middleware!Lookup, RP!Middleware!LookupFails,
           RP!Middleware!Reserve, RP!Middleware!ReserveFails, RP!Middleware!Reserved,
           RP!Middleware!Save, RP!Middleware!SaveFails, RP!Middleware!Cleanup,
           RP!Middleware!Discard, RP!Middleware!MaybeStore,
           RP!Middleware!OthersWorking, RP!Middleware!Working, RP!Middleware!Goto,
           RP!Middleware!End, RP!Middleware!Plain, RP!Middleware!Response

(* A step of the handler.                                                  *)
LEMMA SameHandler ==
    ASSUME NEW r \in Requests
    PROVE  Payments!Handler(r) <=> RP!Handler(r)
BY DEF Payments!Handler, Payments!Prepare, Payments!Authorise, Payments!Fail,
           Payments!Post, Payments!Report, Payments!Duplicate, Payments!Notify,
           Payments!Respond, Payments!Panic, Payments!Running, Payments!Advance,
           Payments!IsCard, Payments!Posting, Payments!Identified, Payments!Key,
           Payments!ledgerVars, Payments!middlewareVars, Payments!handlerVars,
           Payments!Middleware!HandlerReturns, Payments!Middleware!HandlerFails,
           Payments!Middleware!HandlerPanics, Payments!Middleware!Goto,
           Payments!Middleware!End, Payments!Middleware!Plain, Payments!Ledger!Post,
           Payments!Ledger!Key, Payments!Ledger!Debits, Payments!Ledger!Effect,
           Payments!Ledger!FirstEntry, Payments!Ledger!SecondEntry,
           Payments!Ledger!Accounts, RP!Handler, RP!Prepare, RP!Authorise, RP!Fail,
           RP!Post, RP!Report, RP!Duplicate, RP!Notify, RP!Respond, RP!Panic,
           RP!Running, RP!Advance, RP!IsCard, RP!Posting, RP!Identified, RP!Key,
           RP!ledgerVars, RP!middlewareVars, RP!handlerVars,
           RP!Middleware!HandlerReturns, RP!Middleware!HandlerFails,
           RP!Middleware!HandlerPanics, RP!Middleware!Goto, RP!Middleware!End,
           RP!Middleware!Plain, RP!Ledger!Post, RP!Ledger!Key, RP!Ledger!Debits,
           RP!Ledger!Effect, RP!Ledger!FirstEntry, RP!Ledger!SecondEntry,
           RP!Ledger!Accounts

LEMMA SameRequestsNext == [Payments!Next]_(Payments!vars) => [RP!Next]_(RP!vars)
<1>1. \A r \in Requests : Payments!Arrive(r) => RP!Arrive(r)
    BY DEF Payments!Arrive, Payments!ledgerVars, Payments!Middleware!Arrive,
           Payments!Middleware!Goto, RP!Arrive, RP!ledgerVars, RP!Middleware!Arrive,
           RP!Middleware!Goto
<1>2. \A r \in Requests : Payments!Crash(r) => RP!Crash(r)
    BY DEF Payments!Crash, Payments!ledgerVars, Payments!handlerVars,
           Payments!Middleware!Crash, Payments!Middleware!Goto,
           Payments!Middleware!Ended, RP!Crash, RP!ledgerVars, RP!handlerVars,
           RP!Middleware!Crash, RP!Middleware!Goto, RP!Middleware!Ended
<1>3. \A k \in Keys : Payments!Expire(k) => RP!Expire(k)
    BY DEF Payments!Expire, Payments!ledgerVars, Payments!handlerVars,
           Payments!Middleware!Expire, RP!Expire, RP!ledgerVars, RP!handlerVars,
           RP!Middleware!Expire
<1>4. \A a \in Payments!Accounts : Payments!OpenAccount(a) => RP!OpenAccount(a)
    BY DEF Payments!OpenAccount, Payments!middlewareVars, Payments!handlerVars,
           Payments!Ledger!EnsureAccount, Payments!Posting, Payments!Identified,
           RP!OpenAccount, RP!middlewareVars, RP!handlerVars,
           RP!Ledger!EnsureAccount, RP!Posting, RP!Identified
<1>5. Payments!AllEnded => RP!AllEnded
    BY DEF Payments!AllEnded, Payments!vars, Payments!ledgerVars,
           Payments!middlewareVars, Payments!handlerVars, Payments!Middleware!Ended,
           RP!AllEnded, RP!vars, RP!ledgerVars, RP!middlewareVars, RP!handlerVars,
           RP!Middleware!Ended
<1>6. UNCHANGED Payments!vars => UNCHANGED RP!vars
    BY DEF Payments!vars, Payments!ledgerVars, Payments!middlewareVars,
           Payments!handlerVars, RP!vars, RP!ledgerVars, RP!middlewareVars,
           RP!handlerVars
<1> QED
    BY <1>1, <1>2, <1>3, <1>4, <1>5, <1>6, SameInMiddleware, SameHandler
    DEF Payments!Next, RP!Next, Payments!Accounts, RP!Accounts

(* PaymentRequestsProofs: the steps of the requests preserve their         *)
(* invariant.                                                              *)
LEMMA RequestsPreserve ==
    ASSUME Payments!IInv, [Payments!Next]_(Payments!vars)
    PROVE  Payments!IInv'
<1>1. RP!IInv /\ [RP!Next]_(RP!vars) => RP!IInv'
    BY RP!NextPreservesIInv, RequestsAssumed
<1>2. RP!IInv' => Payments!IInv'
    BY SameRequestsInvariant, PTL
<1> QED
    BY <1>1, <1>2, SameRequestsInvariant, SameRequestsNext

-----------------------------------------------------------------------------
(* The database, as proved about in PostgresLedgerProofs.                  *)

(* Its assumptions are those of Server.                                    *)
LEMMA LedgerAssumed ==
    /\ LP!SuspenseAssumption /\ LP!CallsAssumption /\ LP!OpeningAssumption
    /\ LP!RequestAssumption /\ LP!MaxInt64Assumption
BY SuspenseAssumption, CallsAssumption, OpeningAssumption, DBAssumption
DEF LP!SuspenseAssumption, LP!CallsAssumption, LP!OpeningAssumption,
    LP!RequestAssumption, LP!MaxInt64Assumption, LP!CallType, LP!Kinds, LP!Accounts,
    DB!RequestAssumption, DB!MaxInt64Assumption, CallType, Kinds, Accounts

LEMMA SameLedgerInvariant == DB!IInv <=> LP!IInv
<1>1. DB!TypeOK <=> LP!TypeOK
    BY DEF DB!TypeOK, DB!Accounts, DB!Stages, DB!InTransaction, DB!Reporting,
           DB!Replies, DB!Statuses, DB!Int64, LP!TypeOK, LP!Accounts, LP!Stages,
           LP!InTransaction, LP!Reporting, LP!Replies, LP!Statuses, LP!Int64
<1>2. DB!CallsBound /\ DB!RowsHeld <=> LP!CallsBound /\ LP!RowsHeld
    BY DEF DB!CallsBound, DB!RowsHeld, DB!Accounts, DB!InTransaction, DB!HoldingBoth,
           DB!Inserted, DB!Reporting, LP!CallsBound, LP!RowsHeld, LP!Accounts,
           LP!InTransaction, LP!HoldingBoth, LP!Inserted, LP!Reporting
<1>3. DB!Funded /\ DB!EntriesSoFar <=> LP!Funded /\ LP!EntriesSoFar
    BY DEF DB!Funded, DB!EntriesSoFar, DB!Accounts, DB!Inserted, DB!Effect,
           DB!Debits, DB!FirstEntry, DB!SecondEntry, LP!Funded, LP!EntriesSoFar,
           LP!Accounts, LP!Inserted, LP!Effect, LP!Debits, LP!FirstEntry,
           LP!SecondEntry
<1>4. DB!PostedLate /\ DB!AnsweredAtEnd <=> LP!PostedLate /\ LP!AnsweredAtEnd
    BY DEF DB!PostedLate, DB!AnsweredAtEnd, DB!Reporting, LP!PostedLate,
           LP!AnsweredAtEnd, LP!Reporting
<1>5. DB!KeysUnique /\ DB!KeyTakenElsewhere <=> LP!KeysUnique /\ LP!KeyTakenElsewhere
    BY DEF DB!KeysUnique, DB!AtMostOncePerKey, DB!KeyTakenElsewhere, DB!Inserted,
           DB!SharesAccount, DB!Touches, DB!Accounts, DB!Key, DB!SameKey,
           LP!KeysUnique, LP!AtMostOncePerKey, LP!KeyTakenElsewhere, LP!Inserted,
           LP!SharesAccount, LP!Touches, LP!Accounts, LP!Key, LP!SameKey
<1>6. DB!NoOverdraft /\ DB!AnswersMatchLedger <=> LP!NoOverdraft /\ LP!AnswersMatchLedger
    BY DEF DB!NoOverdraft, DB!AnswersMatchLedger, DB!Key, DB!SameKey, LP!NoOverdraft,
           LP!AnswersMatchLedger, LP!Key, LP!SameKey
<1>7. DB!ConflictOnlyAcrossAccounts <=> LP!ConflictOnlyAcrossAccounts
    BY DEF DB!ConflictOnlyAcrossAccounts, DB!SharesAccount, DB!Touches, DB!Accounts,
           DB!Key, DB!SameKey, LP!ConflictOnlyAcrossAccounts, LP!SharesAccount,
           LP!Touches, LP!Accounts, LP!Key, LP!SameKey
<1> QED
    BY <1>1, <1>2, <1>3, <1>4, <1>5, <1>6, <1>7 DEF DB!IInv, LP!IInv

LEMMA SameLedgerInit == DB!Init <=> LP!Init
BY DEF DB!Init, DB!NoEntries, DB!NoReply, DB!Answer, DB!Accounts, LP!Init,
           LP!NoEntries, LP!NoReply, LP!Answer, LP!Accounts

(* A step of the database on behalf of one request.                        *)
LedgerStep(r) == DB!Step(r) \/ DB!DeadlockAbort(r) \/ DB!Fail(r) \/ DB!CommitAckLost(r)

LEMMA SameStep ==
    ASSUME NEW r \in Requests
    PROVE  DB!Step(r) <=> LP!Step(r)
<1>1. DB!LockFirst(r) \/ DB!LockSecond(r) <=> LP!LockFirst(r) \/ LP!LockSecond(r)
    BY DEF DB!LockFirst, DB!LockSecond, DB!LockRow, DB!LockOrder, DB!Goto,
           DB!Rollback, DB!LocksReleasedBy, DB!Refusal, DB!Answer, DB!NoEntries,
           DB!Accounts, LP!LockFirst, LP!LockSecond, LP!LockRow, LP!LockOrder,
           LP!Goto, LP!Rollback, LP!LocksReleasedBy, LP!Refusal, LP!Answer,
           LP!NoEntries, LP!Accounts
<1>2. DB!CheckExisting(r) <=> LP!CheckExisting(r)
    BY DEF DB!CheckExisting, DB!NextOfCheck, DB!Debits, DB!SameKey, DB!Key,
           DB!Readable, DB!Int64, DB!Goto, DB!Rollback, DB!LocksReleasedBy,
           DB!Refusal, DB!Answer, DB!NoEntries, DB!Accounts, LP!CheckExisting,
           LP!NextOfCheck, LP!Debits, LP!SameKey, LP!Key, LP!Readable, LP!Int64,
           LP!Goto, LP!Rollback, LP!LocksReleasedBy, LP!Refusal, LP!Answer,
           LP!NoEntries, LP!Accounts
<1>3. DB!CheckFunds(r) <=> LP!CheckFunds(r)
    BY DEF DB!CheckFunds, DB!Readable, DB!Int64, DB!Goto, DB!Rollback,
           DB!LocksReleasedBy, DB!Refusal, DB!Answer, DB!NoEntries, DB!Accounts,
           LP!CheckFunds, LP!Readable, LP!Int64, LP!Goto, LP!Rollback,
           LP!LocksReleasedBy, LP!Refusal, LP!Answer, LP!NoEntries, LP!Accounts
<1>4. DB!InsertTx(r) <=> LP!InsertTx(r)
    BY DEF DB!InsertTx, DB!Inserted, DB!SameKey, DB!Key, DB!Goto, DB!Rollback,
           DB!LocksReleasedBy, DB!Refusal, DB!Answer, DB!NoEntries, DB!Accounts,
           LP!InsertTx, LP!Inserted, LP!SameKey, LP!Key, LP!Goto, LP!Rollback,
           LP!LocksReleasedBy, LP!Refusal, LP!Answer, LP!NoEntries, LP!Accounts
<1>5. DB!InsertFirst(r) \/ DB!InsertSecond(r) <=> LP!InsertFirst(r) \/ LP!InsertSecond(r)
    BY DEF DB!InsertFirst, DB!InsertSecond, DB!InsertEntry, DB!FirstEntry,
           DB!SecondEntry, DB!Debits, DB!Goto, LP!InsertFirst, LP!InsertSecond,
           LP!InsertEntry, LP!FirstEntry, LP!SecondEntry, LP!Debits, LP!Goto
<1>6. DB!Commit(r) <=> LP!Commit(r)
    BY DEF DB!Commit, DB!Apply, DB!LocksReleasedBy, DB!NoEntries, DB!Accounts,
           DB!Goto, LP!Commit, LP!Apply, LP!LocksReleasedBy, LP!NoEntries,
           LP!Accounts, LP!Goto
<1>7. DB!ReadFirst(r) \/ DB!ReadSecond(r) <=> LP!ReadFirst(r) \/ LP!ReadSecond(r)
    BY DEF DB!ReadFirst, DB!ReadSecond, DB!Readable, DB!Int64, DB!Refusal, DB!Answer,
           DB!Goto, LP!ReadFirst, LP!ReadSecond, LP!Readable, LP!Int64, LP!Refusal,
           LP!Answer, LP!Goto
<1> QED
    BY <1>1, <1>2, <1>3, <1>4, <1>5, <1>6, <1>7 DEF DB!Step, LP!Step

LEMMA SameLedgerStep ==
    ASSUME NEW r \in Requests, LedgerStep(r)
    PROVE  LP!Step(r) \/ LP!DeadlockAbort(r) \/ LP!Fail(r) \/ LP!CommitAckLost(r)
<1>1. DB!DeadlockAbort(r) => LP!DeadlockAbort(r)
    BY DEF DB!DeadlockAbort, DB!InWaitCycle, DB!WaitsFor, DB!LockOrder, DB!Inserted,
           DB!SameKey, DB!Key, DB!Rollback, DB!LocksReleasedBy, DB!Refusal,
           DB!Answer, DB!NoEntries, DB!Accounts, DB!Goto, LP!DeadlockAbort,
           LP!InWaitCycle, LP!WaitsFor, LP!LockOrder, LP!Inserted, LP!SameKey,
           LP!Key, LP!Rollback, LP!LocksReleasedBy, LP!Refusal, LP!Answer,
           LP!NoEntries, LP!Accounts, LP!Goto
<1>2. DB!Fail(r) => LP!Fail(r)
    BY DEF DB!Fail, DB!InTransaction, DB!Reporting, DB!Rollback, DB!LocksReleasedBy,
           DB!Refusal, DB!Answer, DB!NoEntries, DB!Accounts, DB!Goto, LP!Fail,
           LP!InTransaction, LP!Reporting, LP!Rollback, LP!LocksReleasedBy,
           LP!Refusal, LP!Answer, LP!NoEntries, LP!Accounts, LP!Goto
<1>3. DB!CommitAckLost(r) => LP!CommitAckLost(r)
    BY DEF DB!CommitAckLost, DB!Apply, DB!LocksReleasedBy, DB!Refusal, DB!Answer,
           DB!NoEntries, DB!Accounts, DB!Goto, LP!CommitAckLost, LP!Apply,
           LP!LocksReleasedBy, LP!Refusal, LP!Answer, LP!NoEntries, LP!Accounts,
           LP!Goto
<1> QED
    BY <1>1, <1>2, <1>3, SameStep DEF LedgerStep

LEMMA SameBegin ==
    ASSUME NEW r \in Requests
    PROVE  DB!Begin(r) <=> LP!Begin(r)
BY DEF DB!Begin, DB!Refusal, DB!Answer, DB!Goto, LP!Begin, LP!Refusal, LP!Answer,
           LP!Goto

(* What the server does to the database is a step of PostgresLedger.       *)
LEMMA SameLedgerNext ==
    ASSUME \/ \E r \in Requests : DB!Begin(r) \/ LedgerStep(r)
           \/ DB!EnsureAccount(Suspense)
           \/ UNCHANGED <<tableVars, sessionVars>>
    PROVE  [LP!Next]_(LP!vars)
<1>1. ASSUME NEW r \in Requests, DB!Begin(r) \/ LedgerStep(r)
      PROVE  LP!Next
    BY <1>1, SameBegin, SameLedgerStep DEF LP!Next
<1>2. DB!EnsureAccount(Suspense) => LP!Next
  <2>1. DB!EnsureAccount(Suspense) => LP!EnsureAccount(Suspense)
      BY DEF DB!EnsureAccount, LP!EnsureAccount
  <2> QED
      BY <2>1 DEF LP!Next, LP!Accounts
<1>3. UNCHANGED <<tableVars, sessionVars>> => UNCHANGED LP!vars
    BY DEF tableVars, sessionVars, LP!vars
<1> QED
    BY <1>1, <1>2, <1>3

(* PostgresLedgerProofs: such a step preserves the invariant of the ledger.*)
LEMMA LedgerPreserves ==
    ASSUME DB!IInv, [LP!Next]_(LP!vars)
    PROVE  DB!IInv'
<1>1. LP!IInv /\ [LP!Next]_(LP!vars) => LP!IInv'
    BY LP!NextPreservesIInv, LedgerAssumed
<1>2. LP!IInv' => DB!IInv'
    BY SameLedgerInvariant, PTL
<1> QED
    BY <1>1, <1>2, SameLedgerInvariant

-----------------------------------------------------------------------------
(* What a step does to requests and transactions.                          *)

(* Whoever waits in a cycle has a transaction open.                        *)
LEMMA InTransactionIsWaiting ==
    ASSUME NEW r \in Requests, DB!DeadlockAbort(r)
    PROVE  stmt[r] \in DB!InTransaction
BY DEF DB!DeadlockAbort, DB!InWaitCycle, DB!WaitsFor, DB!InTransaction

(* A statement belongs to one session, which it may end; only a COMMIT     *)
(* writes to the tables.                                                   *)
LEMMA LedgerStepShape ==
    ASSUME DB!TypeOK, NEW r \in Requests, LedgerStep(r)
    PROVE  /\ stmt[r] \in DB!InTransaction \cup DB!Reporting
           /\ stmt'[r] # "idle"
           /\ call' = call /\ accounts' = accounts
           /\ \A s \in Requests \ {r} : stmt'[s] = stmt[s]
           /\ \/ /\ UNCHANGED <<balance, posted>>
                 /\ stmt'[r] \in DB!InTransaction => stmt[r] \in DB!InTransaction
              \/ /\ stmt[r] = "commit" /\ stmt'[r] \notin DB!InTransaction
                 /\ DB!Apply(r)
<1> USE DEF DB!TypeOK, DB!Goto, DB!InTransaction, DB!Reporting
<1>1. ASSUME NEW outcome, stmt[r] \in DB!InTransaction, DB!Rollback(r, outcome)
      PROVE  /\ stmt' = [stmt EXCEPT ![r] = "done"]
             /\ UNCHANGED <<call, accounts, balance, posted>>
    BY <1>1 DEF DB!Rollback
<1>2. CASE DB!DeadlockAbort(r)
    BY <1>1, <1>2, InTransactionIsWaiting DEF DB!DeadlockAbort
<1>3. CASE DB!Fail(r)
    BY <1>1, <1>3 DEF DB!Fail
<1>4. CASE DB!CommitAckLost(r) \/ DB!Commit(r)
    BY <1>4 DEF DB!CommitAckLost, DB!Commit, DB!Apply
<1>5. CASE DB!LockFirst(r) \/ DB!LockSecond(r)
    BY <1>1, <1>5 DEF DB!LockFirst, DB!LockSecond, DB!LockRow
<1>6. CASE DB!CheckExisting(r) \/ DB!CheckFunds(r) \/ DB!InsertTx(r)
  <2>1. \/ \E outcome : DB!Rollback(r, outcome)
        \/ /\ \E stage \in {"funds", "insertTx", "insertFirst"} : DB!Goto(r, stage)
           /\ UNCHANGED <<call, accounts, balance, posted>>
      BY <1>6 DEF DB!CheckExisting, DB!NextOfCheck, DB!CheckFunds, DB!InsertTx
  <2>2. stmt[r] \in DB!InTransaction
      BY <1>6 DEF DB!CheckExisting, DB!CheckFunds, DB!InsertTx
  <2> QED
      BY <1>1, <2>1, <2>2
<1>7. CASE DB!InsertFirst(r) \/ DB!InsertSecond(r)
    BY <1>7 DEF DB!InsertFirst, DB!InsertSecond, DB!InsertEntry
<1>8. CASE DB!ReadFirst(r) \/ DB!ReadSecond(r)
    BY <1>8 DEF DB!ReadFirst, DB!ReadSecond
<1> QED
    BY <1>2, <1>3, <1>4, <1>5, <1>6, <1>7, <1>8 DEF LedgerStep, DB!Step

(* What a request does by itself, without its transaction.                 *)
RequestStep(r) ==
    \/ Payments!InMiddleware(r) \/ Payments!Prepare(r) \/ Payments!Authorise(r)
    \/ Payments!Notify(r) \/ Payments!Respond(r) \/ Payments!Fail(r)
    \/ Payments!Panic(r) \/ Payments!Report(r) \/ Payments!Duplicate(r)
    \/ Payments!Crash(r)

(* It moves one request that is under way, and leaves the database alone.  *)
LEMMA RequestStepShape ==
    ASSUME Payments!TypeOK, NEW r \in Requests, RequestStep(r)
    PROVE  /\ UNCHANGED <<tableVars, intent>>
           /\ r \in UnderWay /\ pc'[r] # "idle"
           /\ \A s \in Requests \ {r} : pc'[s] = pc[s] /\ step'[s] = step[s]
<1> USE DEF Payments!ledgerVars, Payments!handlerVars, tableVars
<1> USE DEF Payments!TypeOK, Payments!Middleware!TypeOK, Payments!Middleware!Goto,
            UnderWay, Middleware!Ended
<1>1. CASE Payments!InMiddleware(r)
  <2>1. Payments!Middleware!MiddlewareStep(r)
      BY <1>1 DEF Payments!InMiddleware
  <2>2. pc[r] \in {"lookup", "reserve", "save", "discard", "cleanup"}
      BY <2>1
      DEF Payments!Middleware!MiddlewareStep, Payments!Middleware!Unanswered,
          Payments!Middleware!Lookup, Payments!Middleware!LookupFails,
          Payments!Middleware!Reserve, Payments!Middleware!ReserveFails,
          Payments!Middleware!Save, Payments!Middleware!SaveFails,
          Payments!Middleware!Cleanup, Payments!Middleware!Discard
  <2>3. \E stage \in {"reserve", "handler", "discard", "done"} :
          pc' = [pc EXCEPT ![r] = stage]
      BY <2>1
      DEF Payments!Middleware!MiddlewareStep, Payments!Middleware!Unanswered,
          Payments!Middleware!Lookup, Payments!Middleware!LookupFails,
          Payments!Middleware!Reserve, Payments!Middleware!ReserveFails,
          Payments!Middleware!Save, Payments!Middleware!SaveFails,
          Payments!Middleware!Cleanup, Payments!Middleware!Discard,
          Payments!Middleware!End
  <2> QED
      BY <1>1, <2>2, <2>3 DEF Payments!InMiddleware
<1>2. CASE \/ Payments!Prepare(r) \/ Payments!Authorise(r) \/ Payments!Notify(r)
           \/ Payments!Report(r)
    BY <1>2
    DEF Payments!Prepare, Payments!Authorise, Payments!Notify, Payments!Report,
        Payments!Running, Payments!Advance, Payments!middlewareVars
<1>3. CASE \/ Payments!Respond(r) \/ Payments!Fail(r) \/ Payments!Panic(r)
           \/ Payments!Crash(r)
    BY <1>3
    DEF Payments!Respond, Payments!Fail, Payments!Panic, Payments!Crash,
        Payments!Middleware!HandlerReturns, Payments!Middleware!HandlerFails,
        Payments!Middleware!HandlerPanics, Payments!Middleware!Crash,
        Payments!Middleware!End, Payments!Middleware!Ended
<1>4. CASE Payments!Duplicate(r)
    BY <1>4
    DEF Payments!Duplicate, Payments!Running, Payments!Advance,
        Payments!middlewareVars, Payments!Middleware!HandlerFails
<1> QED
    BY <1>1, <1>2, <1>3, <1>4 DEF RequestStep

-----------------------------------------------------------------------------
(* Every step of the server is one of PaymentRequests, or none.            *)

(* Whoever is posted is posted with its own payment.                       *)
LEMMA PostedCalls ==
    ASSUME IInv
    PROVE  \A p \in posted : p \in Requests /\ call[p] = Payments!Posting(p)
BY DEF IInv, TypeOK, Payments!TypeOK, CallsServe, DB!IInv, DB!PostedLate, DB!Reporting

(* The commit is the Post of PaymentRequests, also that of a session whose *)
(* process is gone: the guards of the contract follow from what            *)
(* PostgresLedgerProofs shows of a transaction that has come so far.       *)
LEMMA CommitPosts ==
    ASSUME IInv, NEW r \in Requests, stmt[r] = "commit", DB!Apply(r), AtLedger(r)
    PROVE  Payments!Post(r)
<1> DEFINE c == Payments!Posting(r)
<1>1. /\ step[r] = "post" /\ pc[r] \in {"handler", "crashed"}
      /\ call[r] = c
    BY DEF IInv, CallsServe, DB!InTransaction
<1>2. r \notin posted /\ call[r] \in Calls
    BY DEF IInv, DB!IInv, DB!PostedLate, DB!Reporting, DB!CallsBound
<1>3. posted' = posted \cup {r} /\ accounts' = accounts
    BY DEF DB!Apply
<1>4. step' = [step EXCEPT ![r] = "report"] /\ intent' = intent
    BY <1>2, <1>3 DEF AtLedger
<1>5. PICK d \in Calls : d = c
    BY <1>1, <1>2
<1>6. LP!Contract!Post(d)
  <2>1. LP!Apply(r)
      BY DEF DB!Apply, DB!NoEntries, DB!LocksReleasedBy, DB!Accounts,
             LP!Apply, LP!NoEntries, LP!LocksReleasedBy, LP!Accounts
  <2>2. LP!IInv
      BY SameLedgerInvariant DEF IInv
  <2> QED
      BY <1>1, <1>5, <2>1, <2>2, LedgerAssumed, LP!ApplyPosts
<1>7. Payments!Ledger!Post(c)
  <2> DEFINE before == {Payments!Posting(p) : p \in posted}
  <2>1. before = {call[p] : p \in posted}
      BY PostedCalls
  <2>2. before' = before \cup {c}
      BY <1>3, <1>4 DEF Payments!Posting, Payments!Identified
  <2>3. /\ c.amount > 0 /\ c.first \in accounts /\ c.second \in accounts
        /\ \A p \in before : Payments!Ledger!Key(p) # Payments!Ledger!Key(c)
        /\ Payments!Ledger!Debits(c) => balance[c.first] >= c.amount
        /\ balance' = [a \in Payments!Ledger!Accounts |->
                         balance[a] + Payments!Ledger!Effect(c, a)]
      BY <1>5, <1>6, <2>1
      DEF LP!Contract!Post, LP!Contract!Key, LP!Contract!Debits, LP!Contract!Effect,
          LP!Contract!FirstEntry, LP!Contract!SecondEntry, LP!Contract!Accounts,
          Payments!Ledger!Key, Payments!Ledger!Debits, Payments!Ledger!Effect,
          Payments!Ledger!FirstEntry, Payments!Ledger!SecondEntry,
          Payments!Ledger!Accounts
  <2> QED
      BY <1>3, <2>2, <2>3 DEF Payments!Ledger!Post
<1> QED
    BY <1>1, <1>3, <1>4, <1>7
    DEF AtLedger, Payments!Post, Payments!Advance, Payments!middlewareVars

(* While no transaction commits, PaymentRequests sees nothing.             *)
LEMMA QuietAtLedger ==
    ASSUME NEW r \in Requests, AtLedger(r), UNCHANGED tableVars
    PROVE  UNCHANGED Payments!vars
BY DEF AtLedger, tableVars, Payments!vars, Payments!middlewareVars, Payments!ledgerVars,
       Payments!handlerVars

LEMMA AtLedgerImplements ==
    ASSUME IInv, NEW r \in Requests, AtLedger(r), DB!Begin(r) \/ LedgerStep(r)
    PROVE  Payments!Next \/ UNCHANGED Payments!vars
<1>1. CASE DB!Begin(r)
    BY <1>1, QuietAtLedger DEF DB!Begin, tableVars
<1>2. CASE LedgerStep(r) /\ UNCHANGED <<balance, posted>>
    BY <1>2, QuietAtLedger, LedgerStepShape DEF tableVars, IInv, TypeOK
<1>3. CASE stmt[r] = "commit" /\ DB!Apply(r)
    BY <1>3, CommitPosts DEF Payments!Next, Payments!Handler
<1> QED
    BY <1>1, <1>2, <1>3, LedgerStepShape DEF IInv, TypeOK

(* The steps of the process: the first start opens the suspense account,   *)
(* all others leave requests and database alone.                           *)
LEMMA ProcessShape ==
    ASSUME Process
    PROVE  /\ UNCHANGED <<requestVars, sessionVars, balance, posted>>
           /\ accounts' \in {accounts, accounts \cup {Suspense}}
BY DEF Process, Boot, Signal, StopServing, ClosePool, Exit, Kill, ProcessEnds, tableVars

(* So the process is seen only where it opens that account.                *)
LEMMA ProcessImplements ==
    ASSUME Process
    PROVE  Payments!Next \/ UNCHANGED Payments!vars
<1>1. CASE accounts' = accounts
    BY <1>1, ProcessShape
    DEF requestVars, Payments!vars, Payments!middlewareVars, Payments!ledgerVars,
        Payments!handlerVars
<1>2. CASE Suspense \notin accounts /\ accounts' = accounts \cup {Suspense}
  <2>1. Payments!OpenAccount(Suspense)
      BY <1>2, ProcessShape
      DEF requestVars, Payments!OpenAccount, Payments!middlewareVars,
          Payments!handlerVars, Payments!Ledger!EnsureAccount, Payments!Posting
  <2>2. Suspense \in Payments!Accounts
      BY DEF Payments!Accounts
  <2> QED
      BY <2>1, <2>2 DEF Payments!Next
<1> QED
    BY <1>1, <1>2, ProcessShape

(* The steps of a request that its process takes outside its transaction.  *)
Served(r) == InMiddleware(r) \/ InHandler(r) \/ Fail(r) \/ Panic(r) \/ Return(r)

(* The steps of the server, sorted by what they touch.                     *)
LEMMA NextCases ==
    ASSUME [Next]_vars
    PROVE  \/ Process
           \/ \E r \in Requests : Arrive(r) \/ Served(r) \/ Die(r) \/ Begin(r)
           \/ \E r \in Requests : LedgerStep(r) /\ AtLedger(r)
           \/ \E k \in Keys : Expire(k)
           \/ UNCHANGED vars
BY DEF Next, Progress, Served, Statement, StatementFails, Abandoned, LedgerStep

LEMMA ServedIsRequestStep ==
    ASSUME NEW r \in Requests, Served(r) \/ Die(r)
    PROVE  RequestStep(r) /\ UNCHANGED <<sessionVars, processVars>>
BY DEF Served, Die, InMiddleware, InHandler, Fail, Panic, Return, RequestStep

(* Each is a step of PaymentRequests or leaves its variables alone.        *)
LEMMA StepIsPaymentsStep ==
    ASSUME IInv, [Next]_vars
    PROVE  [Payments!Next]_(Payments!vars)
<1>1. ASSUME NEW r \in Requests, Arrive(r)
      PROVE  Payments!Next
    BY <1>1 DEF Arrive, Payments!Next
<1>2. ASSUME NEW r \in Requests, RequestStep(r)
      PROVE  Payments!Next
    BY <1>2 DEF RequestStep, Payments!Handler, Payments!Next
<1>3. ASSUME NEW k \in Keys, Expire(k)
      PROVE  Payments!Next
    BY <1>3 DEF Expire, Payments!Next
<1>4. UNCHANGED vars => UNCHANGED Payments!vars
    BY DEF vars, requestVars, tableVars, Payments!vars, Payments!middlewareVars,
           Payments!ledgerVars, Payments!handlerVars
<1>5. ASSUME NEW r \in Requests, Begin(r)
      PROVE  DB!Begin(r) /\ AtLedger(r)
    BY <1>5 DEF Begin
<1> QED
    BY <1>1, <1>2, <1>3, <1>4, <1>5, NextCases, ServedIsRequestStep, ProcessImplements,
       AtLedgerImplements

-----------------------------------------------------------------------------
(* The invariant.                                                          *)

(* Before the first start nothing is under way.                            *)
LEMMA InitIInv == Init => IInv
<1> SUFFICES ASSUME Init
             PROVE  IInv
    OBVIOUS
<1>1. Payments!IInv
    BY RP!InitIInv, RequestsAssumed, SameRequestsInit, SameRequestsInvariant DEF Init
<1>2. DB!IInv
    BY LP!InitIInv, LedgerAssumed, SameLedgerInit, SameLedgerInvariant DEF Init
<1>3. TypeOK
    BY <1>1, <1>2 DEF Init, TypeOK, Payments!IInv, DB!IInv, Phases
<1>4. \A r \in Requests : pc[r] = "idle" /\ stmt[r] = "idle"
    BY DEF Init, Payments!Init, Payments!Middleware!Init, DB!Init
<1>5. UnderWay = {}
    BY <1>4 DEF UnderWay
<1>6. CallsServe /\ OnlyKillsAbandon /\ OrderlyShutdownAnswers
    BY <1>4 DEF CallsServe, OnlyKillsAbandon, OrderlyShutdownAnswers, DB!InTransaction
<1>7. OrderlyIsEmpty /\ LeftBehind
    BY <1>5 DEF OrderlyIsEmpty, LeftBehind
<1> QED
    BY <1>1, <1>2, <1>3, <1>6, <1>7 DEF IInv

(* An open transaction is let be by everything else its process does.      *)
LEMMA ServedShape ==
    ASSUME IInv, NEW r \in Requests, Served(r)
    PROVE  Alive /\ stmt[r] \notin DB!InTransaction /\ pc'[r] # "crashed"
<1> USE DEF IInv, TypeOK, Payments!TypeOK, Payments!Middleware!TypeOK,
            Payments!Middleware!Goto, Payments!Running
<1>1. CASE InMiddleware(r)
  <2>1. Payments!Middleware!MiddlewareStep(r) /\ Alive
      BY <1>1 DEF InMiddleware, Payments!InMiddleware
  <2>2. /\ pc[r] \in {"lookup", "reserve", "save", "discard", "cleanup"}
        /\ \E stage \in {"reserve", "handler", "discard", "done"} :
             pc' = [pc EXCEPT ![r] = stage]
      BY <2>1
      DEF Payments!Middleware!MiddlewareStep, Payments!Middleware!Unanswered,
          Payments!Middleware!Lookup, Payments!Middleware!LookupFails,
          Payments!Middleware!Reserve, Payments!Middleware!ReserveFails,
          Payments!Middleware!Save, Payments!Middleware!SaveFails,
          Payments!Middleware!Cleanup, Payments!Middleware!Discard,
          Payments!Middleware!End
  <2> QED
      BY <2>1, <2>2 DEF CallsServe
<1>2. CASE InHandler(r)
  <2>1. step[r] # "post" /\ Alive
      BY <1>2 DEF InHandler, Payments!Prepare, Payments!Authorise, Payments!Notify,
                  Payments!Respond
  <2>2. pc'[r] \in {"handler", "save"}
      BY <1>2 DEF InHandler, Payments!Prepare, Payments!Authorise, Payments!Notify,
                  Payments!Respond, Payments!Advance, Payments!middlewareVars,
                  Payments!Middleware!HandlerReturns
  <2> QED
      BY <2>1, <2>2 DEF CallsServe
<1>3. CASE Fail(r) \/ Panic(r)
  <2>1. Alive /\ stmt[r] \in {"idle", "done"}
      BY <1>3 DEF Fail, Panic
  <2>2. pc'[r] \in {"cleanup", "done"}
      BY <1>3 DEF Fail, Panic, Payments!Fail, Payments!Panic,
                  Payments!Middleware!HandlerFails, Payments!Middleware!HandlerPanics,
                  Payments!Middleware!End
  <2> QED
      BY <2>1, <2>2 DEF DB!InTransaction
<1>4. CASE Return(r)
  <2>1. Alive /\ stmt[r] = "done"
      BY <1>4 DEF Return
  <2>2. pc'[r] \in {"cleanup", "handler"}
      BY <1>4 DEF Return, Payments!Report, Payments!Duplicate, Payments!Fail,
                  Payments!Advance, Payments!middlewareVars,
                  Payments!Middleware!HandlerFails
  <2> QED
      BY <2>1, <2>2 DEF DB!InTransaction
<1> QED
    BY <1>1, <1>2, <1>3, <1>4 DEF Served

(* A request dies after its process, where it stands.                      *)
LEMMA DieShape ==
    ASSUME IInv, NEW r \in Requests, Die(r)
    PROVE  phase = "down" /\ pc'[r] = "crashed" /\ step' = step
BY DEF Die, Payments!Crash, Payments!handlerVars, Payments!Middleware!Crash,
       Payments!Middleware!Goto, IInv, TypeOK, Payments!TypeOK, Payments!Middleware!TypeOK

(* Each step is one of PostgresLedger or leaves its variables alone: that  *)
(* of a process is the opening of an account, that of a dead one a failed  *)
(* statement.                                                              *)
LEMMA StepIsLedgerStep ==
    ASSUME IInv, [Next]_vars
    PROVE  [LP!Next]_(LP!vars)
<1>1. CASE Process
  <2>1. \/ UNCHANGED <<tableVars, sessionVars>>
        \/ DB!EnsureAccount(Suspense)
      BY <1>1, ProcessShape DEF tableVars, sessionVars, DB!EnsureAccount
  <2> QED
      BY <2>1, SameLedgerNext
<1>2. ASSUME NEW r \in Requests, Arrive(r) \/ Served(r) \/ Die(r)
      PROVE  UNCHANGED <<tableVars, sessionVars>>
  <2>1. CASE Arrive(r)
      BY <2>1 DEF Arrive, Payments!Arrive, Payments!ledgerVars, tableVars
  <2>2. CASE RequestStep(r) /\ UNCHANGED sessionVars
      BY <2>2, RequestStepShape DEF IInv, TypeOK
  <2> QED
      BY <1>2, <2>1, <2>2, ServedIsRequestStep
<1>3. ASSUME NEW r \in Requests, Begin(r) \/ LedgerStep(r)
      PROVE  [LP!Next]_(LP!vars)
    BY <1>3, SameLedgerNext DEF Begin
<1>4. ASSUME (\E k \in Keys : Expire(k)) \/ UNCHANGED vars
      PROVE  UNCHANGED <<tableVars, sessionVars>>
    BY <1>4 DEF Expire, Payments!Expire, Payments!ledgerVars, tableVars, vars
<1> QED
    BY <1>1, <1>2, <1>3, <1>4, NextCases, SameLedgerNext

(* The invariants of the parts, from the proofs about the parts.           *)
LEMMA PartsPreserve ==
    ASSUME IInv, [Next]_vars
    PROVE  Payments!IInv' /\ DB!IInv' /\ TypeOK'
<1>1. Payments!IInv'
    BY StepIsPaymentsStep, RequestsPreserve DEF IInv
<1>2. DB!IInv'
    BY StepIsLedgerStep, LedgerPreserves DEF IInv
<1>3. /\ phase' \in Phases /\ poolSize' \in PoolSizes /\ overdue' \in BOOLEAN
      /\ killed' \in SUBSET Requests /\ cut' \in SUBSET Requests
  <2>1. CASE Process
      BY <2>1
      DEF IInv, TypeOK, Process, Boot, Signal, StopServing, ClosePool, Exit, Kill,
          ProcessEnds, CutOff, UnderWay, Phases
  <2>2. CASE UNCHANGED processVars
      BY <2>2 DEF IInv, TypeOK, processVars
  <2>3. ASSUME NEW r \in Requests, Arrive(r) \/ Begin(r)
        PROVE  UNCHANGED processVars
      BY <2>3 DEF Arrive, Begin, AtLedger
  <2>4. ASSUME (\E k \in Keys : Expire(k)) \/ UNCHANGED vars
        PROVE  UNCHANGED processVars
      BY <2>4 DEF Expire, vars
  <2>5. ASSUME NEW r \in Requests, AtLedger(r)
        PROVE  UNCHANGED processVars
      BY <2>5 DEF AtLedger
  <2> QED
      BY <2>1, <2>2, <2>3, <2>4, <2>5, NextCases, ServedIsRequestStep
<1> QED
    BY <1>1, <1>2, <1>3 DEF TypeOK, Payments!IInv, DB!IInv

(* What holds between the parts: the invariant without theirs.             *)
Between ==
    /\ CallsServe
    /\ OrderlyIsEmpty
    /\ LeftBehind
    /\ OrderlyShutdownAnswers
    /\ OnlyKillsAbandon

(* As long as the bodies stay, a request asks for the same payment.        *)
LEMMA PostingStays ==
    ASSUME NEW r \in Requests, intent' = intent
    PROVE  Payments!Posting(r)' = Payments!Posting(r)
BY DEF Payments!Posting, Payments!Identified

(* Each step of main adds those to killed or cut whom it leaves behind.    *)
LEMMA ProcessKeepsBetween ==
    ASSUME IInv, Process
    PROVE  Between'
<1> USE DEF IInv
<1>1. UNCHANGED <<pc, stmt, step, call, intent>> /\ UnderWay' = UnderWay
    BY ProcessShape DEF requestVars, sessionVars, UnderWay
<1>2. CallsServe'
    BY <1>1, PostingStays DEF CallsServe
<1>3. killed \subseteq killed' /\ cut \subseteq cut'
    BY DEF Process, Boot, Signal, StopServing, ClosePool, Exit, Kill
<1>4. OrderlyShutdownAnswers' /\ OnlyKillsAbandon'
    BY <1>1, <1>3 DEF OrderlyShutdownAnswers, OnlyKillsAbandon
<1>5. OrderlyIsEmpty'
  <2>1. CASE StopServing
      BY <1>1, <2>1 DEF StopServing, OrderlyIsEmpty
  <2>2. CASE ClosePool
      BY <1>1, <2>2 DEF ClosePool, OrderlyIsEmpty
  <2>3. CASE Boot \/ Signal \/ Exit \/ Kill
      BY <2>3 DEF Boot, Signal, Exit, Kill, ProcessEnds, OrderlyIsEmpty
  <2> QED
      BY <2>1, <2>2, <2>3 DEF Process
<1>6. LeftBehind'
  <2>1. CASE Boot
      BY <1>1, <2>1 DEF Boot, LeftBehind
  <2>2. CASE Exit
    <3>1. overdue \/ UnderWay = {}
        BY <2>2 DEF Exit, OrderlyIsEmpty, TypeOK
    <3>2. \A r \in UnderWay : r \in cut' /\ stmt[r] \notin DB!InTransaction
        BY <2>2, <3>1 DEF Exit, CutOff, Connected
    <3> QED
        BY <1>1, <3>2 DEF LeftBehind
  <2>3. CASE Kill
      BY <1>1, <2>3 DEF Kill, LeftBehind
  <2>4. CASE Signal \/ StopServing \/ ClosePool
      BY <2>4 DEF Signal, StopServing, ClosePool, LeftBehind
  <2> QED
      BY <2>1, <2>2, <2>3, <2>4 DEF Process
<1> QED
    BY <1>2, <1>4, <1>5, <1>6 DEF Between

(* Nobody comes to a process that is gone, or after an orderly Shutdown.   *)
LEMMA ArriveKeepsBetween ==
    ASSUME IInv, NEW r \in Requests, Arrive(r)
    PROVE  Between'
<1> USE DEF IInv
<1>1. /\ Accepting /\ UNCHANGED <<sessionVars, processVars, step>>
      /\ pc[r] = "idle" /\ pc' = [pc EXCEPT ![r] = "lookup"]
      /\ \E c \in Intents[r] : intent' = [intent EXCEPT ![r] = c]
    BY DEF Arrive, Payments!Arrive, Payments!Middleware!Arrive, Payments!Middleware!Goto
<1>2. \A s \in Requests \ {r} : pc'[s] = pc[s] /\ intent'[s] = intent[s]
    BY <1>1
<1>3. stmt[r] = "idle" /\ pc'[r] = "lookup"
    BY <1>1 DEF CallsServe, TypeOK, Payments!TypeOK, Payments!Middleware!TypeOK
<1>4. CallsServe'
    BY <1>1, <1>2, <1>3
    DEF CallsServe, sessionVars, Payments!Posting, Payments!Identified, DB!InTransaction
<1>5. phase \in {"up", "draining"} \/ (phase # "down" /\ overdue)
    BY <1>1 DEF Accepting, CacheOpen, Alive
<1>6. OrderlyIsEmpty' /\ LeftBehind'
    BY <1>1, <1>5 DEF OrderlyIsEmpty, LeftBehind, processVars
<1>7. OrderlyShutdownAnswers' /\ OnlyKillsAbandon'
    BY <1>1, <1>2, <1>3
    DEF OrderlyShutdownAnswers, OnlyKillsAbandon, processVars, sessionVars
<1> QED
    BY <1>4, <1>6, <1>7 DEF Between

(* A step of a request outside its transaction.                            *)
LEMMA RequestStepKeepsBetween ==
    ASSUME IInv, NEW r \in Requests, Served(r) \/ Die(r)
    PROVE  Between'
<1> USE DEF IInv
<1>1. /\ UNCHANGED <<sessionVars, processVars, intent>>
      /\ r \in UnderWay /\ pc'[r] # "idle"
      /\ \A s \in Requests \ {r} : pc'[s] = pc[s] /\ step'[s] = step[s]
    BY ServedIsRequestStep, RequestStepShape DEF TypeOK
<1>2. UnderWay' \subseteq UnderWay
    BY <1>1 DEF UnderWay
<1>3. stmt[r] \in DB!InTransaction => pc'[r] = "crashed" /\ step' = step
    BY ServedShape, DieShape
<1>4. CallsServe'
    BY <1>1, <1>3, PostingStays DEF CallsServe, sessionVars
<1>5. OrderlyIsEmpty' /\ LeftBehind'
    BY <1>1, <1>2 DEF OrderlyIsEmpty, LeftBehind, processVars, sessionVars
<1>6. pc'[r] = "crashed" => phase = "down"
    BY ServedShape, DieShape
<1>7. OrderlyShutdownAnswers' /\ OnlyKillsAbandon'
    BY <1>1, <1>6
    DEF OrderlyShutdownAnswers, OnlyKillsAbandon, LeftBehind, processVars, sessionVars
<1> QED
    BY <1>4, <1>5, <1>7 DEF Between

(* BEGIN: the transaction is of the request whose handler stands there.    *)
LEMMA BeginKeepsBetween ==
    ASSUME IInv, NEW r \in Requests, Begin(r)
    PROVE  Between'
<1> USE DEF IInv
<1>1. /\ phase # "down" /\ pc[r] = "handler" /\ step[r] = "post"
      /\ UNCHANGED <<pc, intent, processVars>>
      /\ call'[r] = Payments!Posting(r)
    BY DEF Begin, Alive, Payments!Running, AtLedger
<1>2. posted' = posted /\ step' = step
    BY DEF Begin, DB!Begin, AtLedger
<1>3. \A s \in Requests \ {r} : stmt'[s] = stmt[s] /\ call'[s] = call[s]
    BY DEF Begin, DB!Begin, DB!Goto, TypeOK, DB!TypeOK
<1>4. CallsServe'
    BY <1>1, <1>2, <1>3, PostingStays DEF CallsServe
<1>5. UnderWay' = UnderWay
    BY <1>1 DEF UnderWay
<1>6. OrderlyIsEmpty' /\ LeftBehind'
    BY <1>1, <1>5 DEF OrderlyIsEmpty, LeftBehind, processVars
<1>7. OrderlyShutdownAnswers' /\ OnlyKillsAbandon'
    BY <1>1, <1>3 DEF OrderlyShutdownAnswers, OnlyKillsAbandon, processVars
<1> QED
    BY <1>4, <1>6, <1>7 DEF Between

(* A statement, also of a session that a dead process has left.            *)
LEMMA LedgerStepKeepsBetween ==
    ASSUME IInv, NEW r \in Requests, LedgerStep(r), AtLedger(r)
    PROVE  Between'
<1> USE DEF IInv
<1>1. UNCHANGED <<pc, intent, processVars>>
    BY DEF AtLedger
<1>2. /\ stmt[r] # "idle" /\ stmt'[r] # "idle" /\ call' = call
      /\ \A s \in Requests \ {r} : stmt'[s] = stmt[s]
      /\ stmt'[r] \in DB!InTransaction =>
           stmt[r] \in DB!InTransaction /\ posted' = posted
    BY LedgerStepShape DEF TypeOK, DB!InTransaction, DB!Reporting
<1>3. /\ \A s \in Requests \ {r} : step'[s] = step[s]
      /\ stmt'[r] \in DB!InTransaction => step' = step
    BY <1>2 DEF AtLedger, TypeOK, Payments!TypeOK
<1>4. CallsServe'
    BY <1>1, <1>2, <1>3, PostingStays DEF CallsServe
<1>5. UnderWay' = UnderWay
    BY <1>1 DEF UnderWay
<1>6. \A s \in UnderWay : s \in Requests /\
          (stmt'[s] \in DB!InTransaction => stmt[s] \in DB!InTransaction)
    BY <1>2 DEF UnderWay
<1>7. OrderlyIsEmpty' /\ LeftBehind'
    BY <1>1, <1>5, <1>6 DEF OrderlyIsEmpty, LeftBehind, processVars
<1>8. OrderlyShutdownAnswers' /\ OnlyKillsAbandon'
    BY <1>1, <1>2 DEF OrderlyShutdownAnswers, OnlyKillsAbandon, processVars
<1> QED
    BY <1>4, <1>7, <1>8 DEF Between

(* The TTL of an entry runs out, or nothing happens.                       *)
LEMMA QuietKeepsBetween ==
    ASSUME IInv, (\E k \in Keys : Expire(k)) \/ UNCHANGED vars
    PROVE  Between'
<1> USE DEF IInv
<1>1. UNCHANGED <<pc, step, intent, sessionVars, processVars>>
    BY DEF Expire, Payments!Expire, Payments!Middleware!Expire, Payments!handlerVars,
           vars, requestVars
<1>2. UnderWay' = UnderWay
    BY <1>1 DEF UnderWay
<1>3. CallsServe'
    BY <1>1, PostingStays DEF CallsServe, sessionVars
<1>4. OrderlyIsEmpty' /\ LeftBehind'
    BY <1>1, <1>2 DEF OrderlyIsEmpty, LeftBehind, processVars, sessionVars
<1>5. OrderlyShutdownAnswers' /\ OnlyKillsAbandon'
    BY <1>1 DEF OrderlyShutdownAnswers, OnlyKillsAbandon, processVars, sessionVars
<1> QED
    BY <1>3, <1>4, <1>5 DEF Between

(* Every step preserves the invariant.                                     *)
LEMMA NextPreservesIInv == IInv /\ [Next]_vars => IInv'
<1> SUFFICES ASSUME IInv, [Next]_vars
             PROVE  IInv'
    OBVIOUS
<1>1. Between'
    BY NextCases, ProcessKeepsBetween, ArriveKeepsBetween, RequestStepKeepsBetween,
       BeginKeepsBetween, LedgerStepKeepsBetween, QuietKeepsBetween
<1> QED
    BY <1>1, PartsPreserve DEF Between, IInv

-----------------------------------------------------------------------------
(* The pool.                                                               *)

(* A connection is taken by BEGIN only, and only where there is room.      *)
LEMMA OnlyBeginConnects ==
    ASSUME IInv, [Next]_vars
    PROVE  /\ poolSize' = poolSize
           /\ \/ Connected' \subseteq Connected
              \/ /\ Cardinality(Connected) < poolSize
                 /\ \E r \in Requests : Connected' \subseteq Connected \cup {r}
<1> USE DEF IInv
<1>1. CASE Process
  <2>1. pc' = pc /\ stmt' = stmt
      BY <1>1, ProcessShape DEF requestVars, sessionVars
  <2>2. poolSize' = poolSize
      BY <1>1 DEF Process, Boot, Signal, StopServing, ClosePool, Exit, Kill, ProcessEnds
  <2> QED
      BY <2>1, <2>2 DEF Connected, UnderWay
<1>2. ASSUME NEW r \in Requests, Arrive(r)
      PROVE  poolSize' = poolSize /\ Connected' \subseteq Connected
  <2>1. /\ pc[r] = "idle" /\ stmt' = stmt /\ poolSize' = poolSize
        /\ pc' = [pc EXCEPT ![r] = "lookup"]
      BY <1>2 DEF Arrive, Payments!Arrive, Payments!Middleware!Arrive,
                  Payments!Middleware!Goto, sessionVars, processVars
  <2>2. stmt[r] \notin DB!InTransaction
      BY <2>1 DEF CallsServe, DB!InTransaction
  <2>3. \A t \in Requests \ {r} : pc'[t] = pc[t]
      BY <2>1 DEF TypeOK, Payments!TypeOK, Payments!Middleware!TypeOK
  <2> QED
      BY <2>1, <2>2, <2>3 DEF Connected, UnderWay
<1>3. ASSUME NEW r \in Requests, Served(r) \/ Die(r)
      PROVE  poolSize' = poolSize /\ Connected' \subseteq Connected
  <2>1. /\ UNCHANGED <<sessionVars, processVars>>
        /\ r \in UnderWay
        /\ \A t \in Requests \ {r} : pc'[t] = pc[t]
      BY <1>3, ServedIsRequestStep, RequestStepShape DEF TypeOK
  <2> QED
      BY <2>1 DEF Connected, UnderWay, sessionVars, processVars
<1>4. ASSUME NEW r \in Requests, Begin(r)
      PROVE  /\ poolSize' = poolSize /\ Cardinality(Connected) < poolSize
             /\ Connected' \subseteq Connected \cup {r}
  <2>1. pc' = pc /\ poolSize' = poolSize /\ HasRoom
      BY <1>4 DEF Begin, AtLedger, processVars
  <2>2. \A t \in Requests \ {r} : stmt'[t] = stmt[t]
      BY <1>4 DEF Begin, DB!Begin, DB!Goto, TypeOK, DB!TypeOK
  <2> QED
      BY <2>1, <2>2 DEF Connected, UnderWay, HasRoom
<1>5. ASSUME NEW r \in Requests, LedgerStep(r), AtLedger(r)
      PROVE  poolSize' = poolSize /\ Connected' \subseteq Connected
  <2>1. pc' = pc /\ poolSize' = poolSize
      BY <1>5 DEF AtLedger, processVars
  <2>2. /\ \A t \in Requests \ {r} : stmt'[t] = stmt[t]
        /\ stmt'[r] \in DB!InTransaction => stmt[r] \in DB!InTransaction
      BY <1>5, LedgerStepShape DEF TypeOK, DB!InTransaction, DB!Reporting
  <2> QED
      BY <2>1, <2>2 DEF Connected, UnderWay
<1>6. ASSUME (\E k \in Keys : Expire(k)) \/ UNCHANGED vars
      PROVE  poolSize' = poolSize /\ Connected' \subseteq Connected
  <2>1. pc' = pc /\ stmt' = stmt /\ poolSize' = poolSize
      BY <1>6 DEF Expire, Payments!Expire, Payments!Middleware!Expire, vars, requestVars,
                  sessionVars, processVars
  <2> QED
      BY <2>1 DEF Connected, UnderWay
<1> QED
    BY <1>1, <1>2, <1>3, <1>4, <1>5, <1>6, NextCases

(* So the pool is never overdrawn.                                         *)
PoolBounded == IsFiniteSet(Connected) /\ Cardinality(Connected) <= poolSize

LEMMA InitPoolBounded == Init => PoolBounded
<1> SUFFICES ASSUME Init
             PROVE  PoolBounded
    OBVIOUS
<1>1. \A r \in Requests : pc[r] = "idle"
    BY DEF Init, Payments!Init, Payments!Middleware!Init
<1>2. Connected = {}
    BY <1>1 DEF Connected, UnderWay
<1>3. poolSize \in Nat
    BY PoolSizesAssumption DEF Init
<1> QED
    BY <1>2, <1>3, FS_EmptySet DEF PoolBounded

LEMMA NextKeepsPoolBounded == IInv /\ PoolBounded /\ [Next]_vars => PoolBounded'
<1> SUFFICES ASSUME IInv, PoolBounded, [Next]_vars
             PROVE  PoolBounded'
    OBVIOUS
<1>1. poolSize \in Nat /\ Cardinality(Connected) \in Nat
    BY PoolSizesAssumption, FS_CardinalityType DEF IInv, TypeOK, PoolBounded
<1>2. CASE Connected' \subseteq Connected
  <2>1. IsFiniteSet(Connected') /\ Cardinality(Connected') <= Cardinality(Connected)
      BY <1>2, FS_Subset DEF PoolBounded
  <2>2. Cardinality(Connected') \in Nat
      BY <2>1, FS_CardinalityType
  <2> QED
      BY <1>1, <2>1, <2>2, OnlyBeginConnects DEF PoolBounded
<1>3. ASSUME Cardinality(Connected) < poolSize, NEW r \in Requests,
             Connected' \subseteq Connected \cup {r}
      PROVE  PoolBounded'
  <2>1. /\ IsFiniteSet(Connected \cup {r})
        /\ Cardinality(Connected \cup {r}) \in
             {Cardinality(Connected), Cardinality(Connected) + 1}
      BY FS_AddElement DEF PoolBounded
  <2>2. /\ IsFiniteSet(Connected')
        /\ Cardinality(Connected') <= Cardinality(Connected \cup {r})
      BY <1>3, <2>1, FS_Subset
  <2>3. Cardinality(Connected') \in Nat
      BY <2>2, FS_CardinalityType
  <2> QED
      BY <1>1, <1>3, <2>1, <2>2, <2>3, OnlyBeginConnects DEF PoolBounded
<1> QED
    BY <1>2, <1>3, OnlyBeginConnects

-----------------------------------------------------------------------------
(* What the server promises.                                               *)

(* The parts, and what holds between them, in every reachable state.       *)
THEOREM Invariance == Spec => []IInv
BY InitIInv, NextPreservesIInv, PTL DEF Spec

(* Every variable keeps its shape.                                         *)
THEOREM TypeCorrect == Spec => []TypeOK
<1>1. IInv => TypeOK
    BY DEF IInv
<1> QED
    BY <1>1, Invariance, PTL

(* A request that the server accepted is answered, unless its process is   *)
(* killed or the ten seconds of the shutdown run out.                      *)
THEOREM ShutdownAnswersAll == Spec => []OrderlyShutdownAnswers
<1>1. IInv => OrderlyShutdownAnswers
    BY DEF IInv
<1> QED
    BY <1>1, Invariance, PTL

(* A transaction is left behind in the database by a kill only.            *)
THEOREM TransactionsAwaited == Spec => []OnlyKillsAbandon
<1>1. IInv => OnlyKillsAbandon
    BY DEF IInv
<1> QED
    BY <1>1, Invariance, PTL

(* The running server implements PaymentRequests: statements, connections, *)
(* shutdowns, kills and restarts together look like a ledger that posts in *)
(* one step.                                                               *)
THEOREM Refinement == Spec => ImplementsPayments
<1>1. Init => Payments!Init
    BY DEF Init
<1>2. IInv /\ [Next]_vars => [Payments!Next]_(Payments!vars)
    BY StepIsPaymentsStep
<1> QED
    BY <1>1, <1>2, Invariance, PTL DEF Spec, ImplementsPayments, Payments!Spec

(* What PaymentRequestsProofs shows holds of the running server: whoever   *)
(* is told of success has its payment in the tables, a payment is posted   *)
(* twice only after a loss and announced once, and no card is charged      *)
(* without authorisation, whatever the process goes through.               *)
THEOREM PaymentsHold ==
    Spec => [](/\ Payments!SuccessMeansPosted
               /\ Payments!DoublePostingNeedsLoss
               /\ Payments!NotifiedOncePosted
               /\ Payments!CardsAuthorisedFirst)
<1>1. Spec => RP!Spec
    BY Refinement, SameRequestsInit, SameRequestsNext, PTL
    DEF ImplementsPayments, Payments!Spec, RP!Spec
<1>2. RP!Spec => [](/\ RP!SuccessMeansPosted
                    /\ RP!DoublePostingNeedsLoss
                    /\ RP!NotifiedOncePosted
                    /\ RP!CardsAuthorisedFirst)
  <2>1. RP!Spec => []RP!SuccessMeansPosted
      BY RP!SuccessIsPosted, RequestsAssumed
  <2>2. RP!Spec => []RP!DoublePostingNeedsLoss
      BY RP!PostedTwiceOnlyByLoss, RequestsAssumed
  <2>3. RP!Spec => []RP!NotifiedOncePosted
      BY RP!AnnouncedOnce, RequestsAssumed
  <2>4. RP!Spec => []RP!CardsAuthorisedFirst
      BY RP!CardsAuthorised, RequestsAssumed
  <2> QED
      BY <2>1, <2>2, <2>3, <2>4, PTL
<1>3. RP!SuccessMeansPosted => Payments!SuccessMeansPosted
    BY DEF Payments!SuccessMeansPosted, Payments!Disciplined, Payments!Key,
           RP!SuccessMeansPosted, RP!Disciplined, RP!Key
<1>4. RP!DoublePostingNeedsLoss => Payments!DoublePostingNeedsLoss
    BY DEF Payments!DoublePostingNeedsLoss, RP!DoublePostingNeedsLoss
<1>5. RP!NotifiedOncePosted => Payments!NotifiedOncePosted
    BY DEF Payments!NotifiedOncePosted, Payments!Key, Payments!Posting,
           Payments!Identified, RP!NotifiedOncePosted, RP!Key, RP!Posting,
           RP!Identified
<1>6. RP!CardsAuthorisedFirst => Payments!CardsAuthorisedFirst
    BY DEF Payments!CardsAuthorisedFirst, Payments!IsCard, RP!CardsAuthorisedFirst,
           RP!IsCard
<1> QED
    BY <1>1, <1>2, <1>3, <1>4, <1>5, <1>6, PTL

(* And so does what IdempotencyProofs shows of the middleware: process ends *)
(* and starts included, only responses of the handler are replayed, two    *)
(* requests with one key are both answered by the handler only after a     *)
(* race or an expiry, and a response that nobody works against stays until *)
(* its TTL.                                                                *)
THEOREM MiddlewareHolds ==
    Spec => /\ [](/\ Middleware!ReplaysAreResponses
                  /\ Middleware!OwnAnswersNeedRaceOrExpiry)
            /\ Middleware!SettledUntilExpiry
<1>1. Spec => RP!Spec
    BY Refinement, SameRequestsInit, SameRequestsNext, PTL
    DEF ImplementsPayments, Payments!Spec, RP!Spec
<1>2. RP!Spec => /\ [](/\ RP!Middleware!ReplaysAreResponses
                       /\ RP!Middleware!OwnAnswersNeedRaceOrExpiry)
                 /\ RP!Middleware!SettledUntilExpiry
    BY RP!MiddlewareHolds, RequestsAssumed
<1>3. RP!Middleware!ReplaysAreResponses => Middleware!ReplaysAreResponses
    BY DEF RP!Middleware!ReplaysAreResponses, Middleware!ReplaysAreResponses
<1>4. RP!Middleware!OwnAnswersNeedRaceOrExpiry
        => Middleware!OwnAnswersNeedRaceOrExpiry
    BY DEF RP!Middleware!OwnAnswersNeedRaceOrExpiry, RP!Middleware!OneOwnAnswer,
           Middleware!OwnAnswersNeedRaceOrExpiry, Middleware!OneOwnAnswer
<1>5. [\A k \in Keys :
        (RP!Middleware!Settled(k) /\ k \notin expired') =>
            (RP!Middleware!Settled(k)' /\ store'[k] = store[k])]_(RP!Middleware!vars)
    => [\A k \in Keys :
        (Middleware!Settled(k) /\ k \notin expired') =>
            (Middleware!Settled(k)' /\ store'[k] = store[k])]_(Middleware!vars)
  <2>1. \A k \in Keys : /\ RP!Middleware!Settled(k) <=> Middleware!Settled(k)
                        /\ RP!Middleware!Settled(k)' <=> Middleware!Settled(k)'
      BY DEF RP!Middleware!Settled, RP!Middleware!Working, Middleware!Settled,
             Middleware!Working
  <2>2. UNCHANGED RP!Middleware!vars => UNCHANGED Middleware!vars
      BY DEF RP!Middleware!vars, Middleware!vars
  <2> QED
      BY <2>1, <2>2
<1> QED
    BY <1>1, <1>2, <1>3, <1>4, <1>5, PTL
    DEF RP!Middleware!SettledUntilExpiry, Middleware!SettledUntilExpiry

(* To the database the server is a client like any other: what it does to  *)
(* tables and sessions, across its own ends and starts, is a behaviour of  *)
(* PostgresLedger, and so one of the ledger contract.                      *)
THEOREM ImplementsLedger == Spec => LP!Spec
<1>1. Init => LP!Init
    BY SameLedgerInit DEF Init
<1>2. IInv /\ [Next]_vars => [LP!Next]_(LP!vars)
    BY StepIsLedgerStep
<1> QED
    BY <1>1, <1>2, Invariance, PTL DEF Spec, LP!Spec

THEOREM ContractKept == Spec => LP!ImplementsContract
<1>1. LP!Spec => LP!ImplementsContract
    BY LP!Refinement, LedgerAssumed
<1> QED
    BY <1>1, ImplementsLedger, PTL

(* And so does what PostgresLedgerProofs shows: pools, kills and restarts  *)
(* included, no wallet is overdrawn, no identifier posted twice, the       *)
(* ledger's answers are true of its tables, no card posting deadlocks,     *)
(* every balance is what the postings explain, and of the transactions     *)
(* that are open, those of dead processes among them, one can go on.       *)
THEOREM BooksHold ==
    Spec => [](/\ DB!NoOverdraft
               /\ DB!AtMostOncePerKey
               /\ DB!AnswersMatchLedger
               /\ DB!CardsNeverDeadlock
               /\ DB!Explained
               /\ DB!SomebodyCanMove)
<1>1. IInv => DB!NoOverdraft /\ DB!AtMostOncePerKey /\ DB!AnswersMatchLedger
    BY DEF IInv, DB!IInv, DB!KeysUnique
<1>2. IInv => DB!CardsNeverDeadlock
  <2>1. LP!IInv => LP!CardsNeverDeadlock
      BY LP!CyclesSpareCards, LedgerAssumed
  <2>2. LP!CardsNeverDeadlock <=> DB!CardsNeverDeadlock
      BY DEF LP!CardsNeverDeadlock, LP!InWaitCycle, LP!WaitsFor, LP!LockOrder,
             LP!Inserted, LP!SameKey, LP!Key,
             DB!CardsNeverDeadlock, DB!InWaitCycle, DB!WaitsFor, DB!LockOrder,
             DB!Inserted, DB!SameKey, DB!Key
  <2> QED
      BY <2>1, <2>2, SameLedgerInvariant DEF IInv
<1>3. Spec => []DB!Explained
  <2>1. LP!Spec => []LP!BooksInv
      BY LP!BooksInvariance, LedgerAssumed
  <2>2. LP!BooksInv => DB!Explained
      BY DEF LP!BooksInv, LP!Explained, LP!Accounts, LP!Entered, LP!Total,
             LP!Effect, LP!Debits, LP!FirstEntry, LP!SecondEntry, DB!Explained,
             DB!Accounts, DB!Entered, DB!Total, DB!Effect, DB!Debits,
             DB!FirstEntry, DB!SecondEntry, LP!MapThenSumSet,
             LP!MapThenFoldSet, DB!MapThenSumSet, DB!MapThenFoldSet
  <2> QED
      BY <2>1, <2>2, ImplementsLedger, PTL
<1>4. Spec => []DB!SomebodyCanMove
  <2>1. LP!Spec => []LP!SomebodyCanMove
      BY LP!NoWaitIsEndless, LedgerAssumed
  <2>2. LP!SomebodyCanMove => DB!SomebodyCanMove
      BY DEF LP!SomebodyCanMove, LP!CanMove, LP!InTransaction, LP!InWaitCycle,
             LP!WaitsFor, LP!LockOrder, LP!Inserted, LP!SameKey, LP!Key, DB!SomebodyCanMove,
             DB!CanMove, DB!InTransaction, DB!InWaitCycle, DB!WaitsFor, DB!LockOrder,
             DB!Inserted, DB!SameKey, DB!Key
  <2> QED
      BY <2>1, <2>2, ImplementsLedger, PTL
<1> QED
    BY <1>1, <1>2, <1>3, <1>4, Invariance, PTL

(* With finitely many accounts that summed to zero when the model begins,  *)
(* they do at every moment, also while a process is killed between the two *)
(* entries of a posting.                                                   *)
THEOREM BooksBalanceHolds ==
    ASSUME LP!FiniteAccounts, LP!OpeningSumsToZero
    PROVE  Spec => []DB!BooksBalance
<1>1. LP!Spec => []LP!BooksBalance
    BY LP!BooksAlwaysBalance, LedgerAssumed
<1>2. LP!BooksBalance <=> DB!BooksBalance
    BY DEF LP!BooksBalance, LP!Explained, LP!Accounts, LP!Entered, LP!Total,
           LP!Effect, LP!Debits, LP!FirstEntry, LP!SecondEntry, DB!BooksBalance,
           DB!Explained, DB!Accounts, DB!Entered, DB!Total, DB!Effect, DB!Debits,
           DB!FirstEntry, DB!SecondEntry, LP!MapThenSumSet, LP!MapThenFoldSet,
           DB!MapThenSumSet, DB!MapThenFoldSet
<1> QED
    BY <1>1, <1>2, ImplementsLedger, PTL

(* Nobody waits for a connection in vain: when the transactions have them  *)
(* all, one of those that are open in the database can go on.              *)
THEOREM PoolNeverStuck == Spec => []PoolKeepsMoving
<1>1. Spec => []PoolBounded
    BY InitPoolBounded, NextKeepsPoolBounded, Invariance, PTL DEF Spec
<1>2. TypeOK /\ PoolBounded /\ DB!SomebodyCanMove => PoolKeepsMoving
  <2> SUFFICES ASSUME TypeOK, PoolBounded, DB!SomebodyCanMove,
                      phase # "poolClosed", ~HasRoom
               PROVE  \E r \in Requests : DB!CanMove(r)
      BY DEF PoolBounded, PoolKeepsMoving
  <2>1. poolSize \in Nat \ {0}
      BY PoolSizesAssumption DEF TypeOK
  <2>2. ~(Cardinality(Connected) < poolSize)
      BY DEF HasRoom
  <2>3. Connected # {}
      BY <2>1, <2>2, FS_EmptySet
  <2>4. \E r \in Requests : stmt[r] \in DB!InTransaction
      BY <2>3 DEF Connected, UnderWay
  <2> QED
      BY <2>4 DEF DB!SomebodyCanMove
<1> QED
    BY <1>1, <1>2, TypeCorrect, BooksHold, PTL

=============================================================================
