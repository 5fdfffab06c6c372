-------------------------- MODULE PaymentRequests --------------------------
(***************************************************************************)
(* A payment from the HTTP request to the ledger: the idempotency          *)
(* middleware (Idempotency) around the handlers and services of            *)
(* internal/payments and internal/funding, over a ledger that keeps its    *)
(* contract (LedgerContract).  A client retries by sending a new request   *)
(* with the same Idempotency-Key, the same client_tx_id, or both.          *)
(***************************************************************************)
EXTENDS LedgerCalls, FiniteSets

CONSTANTS
    Requests, Keys, KeyOf, NoRequest, Absent, Marker, \* see Idempotency
    Intents,  \* what each request may ask for: calls whose id may be NoId
    NoId,     \* no client_tx_id in the body
    NoIntent

VARIABLES
    store, pc, answer, succeeded, raced, expired, \* see Idempotency
    accounts, balance,                            \* see LedgerContract
    intent,     \* the body of each request
    step,       \* where the handler of each request is
    posted,     \* requests whose ledger call posted
    authorised, \* requests the acquirer authorised
    notified,   \* requests whose transfer was notified
    named       \* the request whose transaction the response names

middlewareVars == <<store, pc, answer, succeeded, raced, expired>>

ledgerVars == <<accounts, balance, posted>>

handlerVars == <<intent, step, authorised, notified, named>>

vars == <<middlewareVars, ledgerVars, handlerVars>>

(* uuid.New() for a missing client_tx_id: a value of its own per request,  *)
(* here the request itself.                                                *)
Identified(c, r) == IF c.id = NoId THEN [c EXCEPT !.id = r] ELSE c

Posting(r) == Identified(intent[r], r)

(* What a body may say; no client chooses an identifier that the server    *)
(* draws for a request.                                                    *)
Bodies == [kind: Kinds, id: (ClientTxIDs \ Requests) \cup {NoId},
           first: Accounts, second: Accounts, amount: Int]

ASSUME IntentsAssumption ==
    /\ NoId \notin Requests
    /\ NoIntent \notin Bodies
    /\ \A r \in Requests : /\ Intents[r] \subseteq Bodies
                           /\ \A c \in Intents[r] : Identified(c, r) \in Calls

ASSUME KeyOfAssumption == KeyOf \in [Requests -> Keys]

ASSUME EntriesAssumption ==
    /\ NoRequest \notin Requests
    /\ Absent \notin Requests
    /\ Marker \notin Requests
    /\ Absent # Marker

Middleware == INSTANCE Idempotency

Ledger == INSTANCE LedgerContract WITH postings <- {Posting(r) : r \in posted}

Steps == {"start", "authorise", "post", "report", "notify", "respond"}

Init ==
    /\ Middleware!Init
    /\ accounts = InitAccounts
    /\ balance = Opening
    /\ intent = [r \in Requests |-> NoIntent]
    /\ step = [r \in Requests |-> "start"]
    /\ posted = {}
    /\ authorised = {}
    /\ notified = {}
    /\ named = [r \in Requests |-> NoRequest]

-----------------------------------------------------------------------------
(* The handlers.                                                           *)

Running(r, s) == pc[r] = "handler" /\ step[r] = s

Advance(r, s) ==
    /\ step' = [step EXCEPT ![r] = s]
    /\ UNCHANGED middlewareVars

IsCard(r) == intent[r].kind # "p2p"

(* The body is checked and the wallets are found; owners are compared.     *)
PrepareSkippingAcquirer(r) ==  \* mutant: withdrawals are not authorised
    /\ Running(r, "start")
    /\ intent[r].amount > 0
    /\ Advance(r, IF intent[r].kind = "card_in" THEN "authorise" ELSE "post")
    /\ UNCHANGED <<ledgerVars, intent, authorised, notified, named>>

Prepare(r) ==
    /\ Running(r, "start")
    /\ intent[r].amount > 0
    /\ Advance(r, IF IsCard(r) THEN "authorise" ELSE "post")
    /\ UNCHANGED <<ledgerVars, intent, authorised, notified, named>>

(* AuthorizeCardIn, AuthorizeCardOut: the card network has agreed.         *)
Authorise(r) ==
    /\ Running(r, "authorise")
    /\ authorised' = authorised \cup {r}
    /\ Advance(r, "post")
    /\ UNCHANGED <<ledgerVars, intent, notified, named>>

(* An invalid body, an unknown wallet, a stranger's wallet, an error of    *)
(* the database, of the acquirer or of the ledger: the handler returns an  *)
(* error.  The ledger may have posted all the same (see PostgresLedger: a  *)
(* lost acknowledgement of the commit, a failed read of the new balances). *)
FailIgnored(r) ==  \* mutant: an error of the ledger is answered as success
    /\ Running(r, "post")
    /\ named' = [named EXCEPT ![r] = r]
    /\ Advance(r, "respond")
    /\ UNCHANGED <<ledgerVars, intent, authorised, notified>>

Fail(r) ==
    /\ step[r] \in {"start", "authorise", "post", "report"}
    /\ Middleware!HandlerFails(r)
    /\ UNCHANGED <<ledgerVars, handlerVars>>

(* The ledger posts.  The COMMIT may be under way when the process dies.   *)
Post(r) ==
    /\ step[r] = "post"
    /\ pc[r] \in {"handler", "crashed"}
    /\ posted' = posted \cup {r}
    /\ Advance(r, "report")
    /\ UNCHANGED <<intent, authorised, notified, named>>
    /\ Ledger!Post(Posting(r))

(* The ledger has posted and says so.                                      *)
Report(r) ==
    /\ Running(r, "report")
    /\ named' = [named EXCEPT ![r] = r]
    /\ Advance(r, IF IsCard(r) THEN "respond" ELSE "notify")
    /\ UNCHANGED <<ledgerVars, intent, authorised, notified>>

DuplicateNotified(r) ==  \* mutant: a duplicate transfer goes on as a new one
    /\ Running(r, "post")
    /\ \E p \in posted :
        /\ Key(Posting(p)) = Key(Posting(r))
        /\ named' = [named EXCEPT ![r] = p]
    /\ Advance(r, IF IsCard(r) THEN "respond" ELSE "notify")
    /\ UNCHANGED <<ledgerVars, intent, authorised, notified>>

(* ErrDuplicateTransaction: 409 for a transfer, 200 with the transaction   *)
(* found for a card.                                                       *)
Duplicate(r) ==
    /\ Running(r, "post")
    /\ \E p \in posted :
        /\ Key(Posting(p)) = Key(Posting(r))
        /\ \/ /\ ~IsCard(r)
              /\ Middleware!HandlerFails(r)
              /\ UNCHANGED handlerVars
           \/ /\ IsCard(r)
              /\ named' = [named EXCEPT ![r] = p]
              /\ Advance(r, "respond")
              /\ UNCHANGED <<intent, authorised, notified>>
    /\ UNCHANGED ledgerVars

(* notifier.Send, whose error is ignored.                                  *)
Notify(r) ==
    /\ Running(r, "notify")
    /\ notified' \in {notified, notified \cup {r}}
    /\ Advance(r, "respond")
    /\ UNCHANGED <<ledgerVars, intent, authorised, named>>

Respond(r) ==
    /\ Running(r, "respond")
    /\ Middleware!HandlerReturns(r)
    /\ UNCHANGED <<ledgerVars, handlerVars>>

Panic(r) ==
    /\ Middleware!HandlerPanics(r)
    /\ UNCHANGED <<ledgerVars, handlerVars>>

Handler(r) ==
    \/ Prepare(r) \/ Authorise(r) \/ Fail(r)
    \/ Post(r) \/ Report(r) \/ Duplicate(r)
    \/ Notify(r) \/ Respond(r) \/ Panic(r)

-----------------------------------------------------------------------------

Arrive(r) ==
    /\ Middleware!Arrive(r)
    /\ \E c \in Intents[r] : intent' = [intent EXCEPT ![r] = c]
    /\ UNCHANGED <<ledgerVars, step, authorised, notified, named>>

InMiddleware(r) ==
    /\ Middleware!MiddlewareStep(r)
    /\ UNCHANGED <<ledgerVars, handlerVars>>

Crash(r) ==
    /\ Middleware!Crash(r)
    /\ UNCHANGED <<ledgerVars, handlerVars>>

Expire(k) ==
    /\ Middleware!Expire(k)
    /\ UNCHANGED <<ledgerVars, handlerVars>>

(* A registration or the start of a process makes an account.              *)
OpenAccount(a) ==
    /\ a \notin accounts
    /\ UNCHANGED <<middlewareVars, posted, handlerVars>>
    /\ Ledger!EnsureAccount(a)

AllEnded ==
    /\ \A r \in Requests : pc[r] \in Middleware!Ended
    /\ UNCHANGED vars

Next ==
    \/ \E r \in Requests :
        Arrive(r) \/ InMiddleware(r) \/ Handler(r) \/ Crash(r)
    \/ \E k \in Keys : Expire(k)
    \/ \E a \in Accounts : OpenAccount(a)
    \/ AllEnded

Spec == Init /\ [][Next]_vars

-----------------------------------------------------------------------------
(* Properties.                                                             *)

(* The shape of every variable.                                            *)
TypeOK ==
    /\ Middleware!TypeOK
    /\ accounts \in SUBSET Accounts
    /\ balance \in [Accounts -> Int]
    /\ intent \in [Requests -> Bodies \cup {NoIntent}]
    /\ step \in [Requests -> Steps]
    /\ posted \in SUBSET Requests
    /\ authorised \in SUBSET Requests
    /\ notified \in SUBSET Requests
    /\ named \in [Requests -> Requests \cup {NoRequest}]

(* The client of r uses its Idempotency-Key and its client_tx_id for one   *)
(* payment only, and nobody else uses them.                                *)
Disciplined(r) ==
    \A s \in Requests :
        (/\ intent[s] # NoIntent
         /\ \/ KeyOf[s] = KeyOf[r]
            \/ intent[r].id # NoId /\ Key(intent[s]) = Key(intent[r])) =>
            intent[s] = intent[r]

(* A client that is told of success, by the handler or by a replay, has    *)
(* its own payment in the ledger, under the transaction it was told.       *)
SuccessMeansPosted ==
    \A r \in Requests :
        (answer[r].status \in {"own", "replay"} /\ Disciplined(r)) =>
            LET p == named[answer[r].from]
            IN  p \in posted /\ intent[p] = intent[r]

(* A payment without client_tx_id has only the Idempotency-Key to protect  *)
(* it: it is posted twice only if two requests raced, the entry expired,   *)
(* or one request that had posted was answered with an error.              *)
DoublePostingNeedsLoss ==
    \A p, r \in posted :
        (KeyOf[p] = KeyOf[r] /\ p # r) =>
            \/ KeyOf[p] \in raced \cup expired
            \/ \E s \in {p, r} : answer[s].status \in {"handlerError", "persistError"}

(* A transfer is announced to its receiver at most once, after it is in    *)
(* the ledger, however often it is retried.                                *)
NotifiedOncePosted ==
    /\ notified \subseteq posted
    /\ \A r, s \in notified : Key(Posting(r)) = Key(Posting(s)) => r = s

(* No card money moves that the acquirer has not authorised.               *)
CardsAuthorisedFirst == \A r \in posted : IsCard(r) => r \in authorised

-----------------------------------------------------------------------------
(* The inductive invariant behind PaymentRequestsProofs.                   *)

(* A request carries its body from its arrival on, and its handler runs    *)
(* after the reservation.                                                  *)
BodiesBound ==
    \A r \in Requests :
        /\ IF pc[r] = "idle" THEN intent[r] = NoIntent ELSE intent[r] \in Intents[r]
        /\ pc[r] \in {"idle", "lookup", "reserve"} => step[r] = "start"

(* What has happened by the time a handler reaches a step, in the ledger   *)
(* and at the acquirer.                                                    *)
StepsInOrder ==
    \A r \in Requests :
        /\ r \in posted => step[r] \in {"report", "notify", "respond"}
        /\ step[r] \in {"report", "notify"} => r \in posted
        /\ step[r] \notin {"start", "authorise"} /\ IsCard(r) => r \in authorised
        /\ r \in succeeded => step[r] = "respond"

(* The transaction a response names is in the ledger, under the identifier *)
(* of the request.                                                         *)
NamedPosted ==
    \A r \in Requests :
        step[r] \in {"notify", "respond"} =>
            named[r] \in posted /\ Key(Posting(named[r])) = Key(Posting(r))

(* The ledger takes an identifier once, and only what it took is announced. *)
PostedOnce ==
    /\ \A p, r \in posted : Key(Posting(p)) = Key(Posting(r)) => p = r
    /\ notified \subseteq posted

Erred(r) == answer[r].status \in {"handlerError", "persistError"}

(* Whose handler has begun holds the key, has given it up with an error,   *)
(* or has left an entry that lets nobody past the lookup.                  *)
KeyHeld ==
    \A r \in Requests :
        (step[r] # "start" /\ Middleware!Undisturbed(KeyOf[r])) =>
            \/ pc[r] \in Middleware!Working
            \/ Erred(r)
            \/ /\ store[KeyOf[r]] # Absent
               /\ \A s \in Requests : KeyOf[s] = KeyOf[r] => pc[s] \notin Middleware!Working

(* So a second handler begins under a key only after an error of the first. *)
HandledAgainAfterError ==
    \A p, r \in Requests :
        (/\ KeyOf[p] = KeyOf[r] /\ p # r
         /\ step[p] # "start" /\ step[r] # "start"
         /\ Middleware!Undisturbed(KeyOf[r])) => Erred(p) \/ Erred(r)

IInv ==
    /\ TypeOK
    /\ Middleware!IInv
    /\ BodiesBound
    /\ StepsInOrder
    /\ NamedPosted
    /\ PostedOnce
    /\ KeyHeld
    /\ HandledAgainAfterError

=============================================================================
