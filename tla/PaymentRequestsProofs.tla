----------------------- MODULE PaymentRequestsProofs -----------------------
(***************************************************************************)
(* Proofs about payments from the HTTP request to the ledger, for any      *)
(* number of requests, keys, accounts and postings.  What the middleware   *)
(* guarantees is taken from IdempotencyProofs; the invariant here adds     *)
(* what the handlers and the ledger have done by each step, and who holds  *)
(* the key of a request whose handler has begun.                           *)
(***************************************************************************)
EXTENDS PaymentRequests, TLAPS

MP == INSTANCE IdempotencyProofs

-----------------------------------------------------------------------------
(* The middleware, as proved about in IdempotencyProofs.                   *)

LEMMA MiddlewareAssumed == MP!KeyOfAssumption /\ MP!EntriesAssumption
BY KeyOfAssumption, EntriesAssumption DEF MP!KeyOfAssumption, MP!EntriesAssumption

LEMMA SameInvariant == Middleware!IInv <=> MP!IInv
<1>1. Middleware!TypeOK <=> MP!TypeOK
    BY DEF Middleware!TypeOK, Middleware!Entries, Middleware!Stages, Middleware!Working,
           Middleware!Ended, Middleware!Answers, Middleware!Statuses,
           MP!TypeOK, MP!Entries, MP!Stages, MP!Working, MP!Ended, MP!Answers, MP!Statuses
<1>2. Middleware!StoredResponses <=> MP!StoredResponses
    BY DEF Middleware!StoredResponses, MP!StoredResponses
<1>3. Middleware!OneAtATime <=> MP!OneAtATime
    BY DEF Middleware!OneAtATime, MP!OneAtATime, Middleware!Working, MP!Working
<1>4. Middleware!KeyTaken <=> MP!KeyTaken
    BY DEF Middleware!KeyTaken, MP!KeyTaken, Middleware!Undisturbed, MP!Undisturbed,
           Middleware!Working, MP!Working
<1>5. Middleware!OwnAnswersStand <=> MP!OwnAnswersStand
    BY DEF Middleware!OwnAnswersStand, MP!OwnAnswersStand, Middleware!Undisturbed,
           MP!Undisturbed, Middleware!Working, MP!Working
<1>6. Middleware!AnsweredAtEnd <=> MP!AnsweredAtEnd
    BY DEF Middleware!AnsweredAtEnd, MP!AnsweredAtEnd
<1>7. Middleware!ReplaysAreResponses <=> MP!ReplaysAreResponses
    BY DEF Middleware!ReplaysAreResponses, MP!ReplaysAreResponses
<1> QED
    BY <1>1, <1>2, <1>3, <1>4, <1>5, <1>6, <1>7 DEF Middleware!IInv, MP!IInv

LEMMA SameInit == Middleware!Init <=> MP!Init
BY DEF Middleware!Init, MP!Init, Middleware!Plain, MP!Plain

(* A step of the middleware on behalf of one request.                      *)
RequestStep(r) ==
    \/ Middleware!Arrive(r) \/ Middleware!MiddlewareStep(r)
    \/ Middleware!Handler(r) \/ Middleware!Crash(r)

LEMMA SameRequestStep ==
    ASSUME NEW r \in Requests, RequestStep(r)
    PROVE  MP!Arrive(r) \/ MP!MiddlewareStep(r) \/ MP!Handler(r) \/ MP!Crash(r)
<1>1. CASE Middleware!Arrive(r) \/ Middleware!Crash(r)
    BY <1>1 DEF Middleware!Arrive, Middleware!Crash, MP!Arrive, MP!Crash, Middleware!Goto,
                MP!Goto, Middleware!Ended, MP!Ended
<1>2. CASE Middleware!Handler(r)
    BY <1>2
    DEF Middleware!Handler, Middleware!HandlerReturns, Middleware!HandlerFails,
        Middleware!HandlerPanics, Middleware!Goto, Middleware!End, Middleware!Plain,
        MP!Handler, MP!HandlerReturns, MP!HandlerFails, MP!HandlerPanics, MP!Goto, MP!End,
        MP!Plain
<1>3. CASE Middleware!Lookup(r) \/ Middleware!LookupFails(r)
  <2>1. MP!Lookup(r) \/ MP!LookupFails(r)
      BY <1>3
      DEF Middleware!Lookup, Middleware!LookupFails, Middleware!Goto, Middleware!End,
          Middleware!Plain, Middleware!Response, Middleware!OthersWorking, Middleware!Working,
          MP!Lookup, MP!LookupFails, MP!Goto, MP!End, MP!Plain, MP!Response,
          MP!OthersWorking, MP!Working
  <2> QED
      BY <2>1 DEF MP!MiddlewareStep, MP!Unanswered
<1>4. CASE Middleware!Reserve(r) \/ Middleware!ReserveFails(r)
  <2>1. MP!Reserve(r) \/ MP!ReserveFails(r)
      BY <1>4
      DEF Middleware!Reserve, Middleware!ReserveFails, Middleware!Reserved,
          Middleware!MaybeStore, Middleware!Goto, Middleware!End, Middleware!Plain,
          MP!Reserve, MP!ReserveFails, MP!Reserved, MP!MaybeStore, MP!Goto, MP!End, MP!Plain
  <2> QED
      BY <2>1 DEF MP!MiddlewareStep, MP!Unanswered
<1>5. CASE \/ Middleware!Save(r) \/ Middleware!SaveFails(r)
           \/ Middleware!Cleanup(r) \/ Middleware!Discard(r)
  <2>1. MP!Save(r) \/ MP!SaveFails(r) \/ MP!Cleanup(r) \/ MP!Discard(r)
      BY <1>5
      DEF Middleware!Save, Middleware!SaveFails, Middleware!Cleanup, Middleware!Discard,
          Middleware!MaybeStore, Middleware!Goto, Middleware!End, Middleware!Plain,
          Middleware!Response,
          MP!Save, MP!SaveFails, MP!Cleanup, MP!Discard, MP!MaybeStore, MP!Goto, MP!End,
          MP!Plain, MP!Response
  <2> QED
      BY <2>1 DEF MP!MiddlewareStep, MP!Unanswered
<1> QED
    BY <1>1, <1>2, <1>3, <1>4, <1>5
    DEF RequestStep, Middleware!MiddlewareStep, Middleware!Unanswered

(* IdempotencyProofs: the steps of the middleware preserve its invariant.  *)
LEMMA MiddlewarePreserves ==
    ASSUME Middleware!IInv,
           \/ \E r \in Requests : RequestStep(r)
           \/ \E k \in Keys : Middleware!Expire(k)
           \/ UNCHANGED middlewareVars
    PROVE  Middleware!IInv'
<1>1. MP!IInv /\ [MP!Next]_(MP!vars) => MP!IInv'
    BY MP!NextPreservesIInv, MiddlewareAssumed
<1>2. MP!IInv
    BY SameInvariant
<1>3. MP!IInv' => Middleware!IInv'
    BY SameInvariant, PTL
<1>4. ASSUME NEW r \in Requests, RequestStep(r)
      PROVE  MP!Next
    BY <1>4, SameRequestStep DEF MP!Next
<1>5. ASSUME NEW k \in Keys, Middleware!Expire(k)
      PROVE  MP!Next
  <2>1. MP!Expire(k)
      BY <1>5 DEF Middleware!Expire, MP!Expire
  <2> QED
      BY <2>1 DEF MP!Next
<1>6. UNCHANGED middlewareVars => UNCHANGED MP!vars
    BY DEF MP!vars, middlewareVars
<1> QED
    BY <1>1, <1>2, <1>3, <1>4, <1>5, <1>6

-----------------------------------------------------------------------------
(* What a step of the middleware does to the key of a request.             *)

LEMMA InitIInv == Init => IInv
<1> SUFFICES ASSUME Init
             PROVE  IInv
    OBVIOUS
<1>1. Middleware!IInv
    BY MP!InitIInv, MiddlewareAssumed, SameInit, SameInvariant DEF Init
<1>2. TypeOK
    BY <1>1, OpeningAssumption DEF Init, TypeOK, Steps, Middleware!IInv
<1>3. \A r \in Requests : pc[r] = "idle" /\ r \notin succeeded
    BY DEF Init, Middleware!Init
<1>4. BodiesBound /\ StepsInOrder /\ NamedPosted /\ PostedOnce
    BY <1>3 DEF Init, BodiesBound, StepsInOrder, NamedPosted, PostedOnce
<1>5. KeyHeld /\ HandledAgainAfterError
    BY DEF Init, KeyHeld, HandledAgainAfterError
<1> QED
    BY <1>1, <1>2, <1>4, <1>5 DEF IInv

(* It concerns one request and its key.                                    *)
LEMMA RequestStepIsLocal ==
    ASSUME Middleware!TypeOK, NEW r \in Requests, RequestStep(r)
    PROVE  /\ \A s \in Requests \ {r} : pc'[s] = pc[s] /\ answer'[s] = answer[s]
           /\ \A k \in Keys \ {KeyOf[r]} : store'[k] = store[k]
           /\ raced \subseteq raced' /\ expired' = expired
           /\ pc[r] \notin Middleware!Ended /\ pc'[r] # "idle"
           /\ pc'[r] = "lookup" => pc[r] = "idle"
           /\ pc'[r] = "reserve" => pc[r] = "lookup"
<1> USE DEF Middleware!TypeOK, Middleware!Goto, Middleware!Ended
<1>1. CASE Middleware!Arrive(r) \/ Middleware!Crash(r) \/ Middleware!Handler(r)
    BY <1>1
    DEF Middleware!Arrive, Middleware!Crash, Middleware!Handler, Middleware!HandlerReturns,
        Middleware!HandlerFails, Middleware!HandlerPanics, Middleware!End
<1>2. CASE Middleware!MiddlewareStep(r)
    BY <1>2, KeyOfAssumption
    DEF Middleware!MiddlewareStep, Middleware!Unanswered, Middleware!Lookup,
        Middleware!LookupFails, Middleware!Reserve, Middleware!ReserveFails,
        Middleware!Save, Middleware!SaveFails, Middleware!Cleanup, Middleware!Discard,
        Middleware!MaybeStore, Middleware!End
<1> QED
    BY <1>1, <1>2 DEF RequestStep

(* Before the lookup, or at it when there is an entry, a request does not  *)
(* touch the entry.                                                        *)
LEMMA EntryStopsLookup ==
    ASSUME Middleware!TypeOK, NEW r \in Requests, RequestStep(r),
           pc[r] \notin Middleware!Working, store[KeyOf[r]] # Absent
    PROVE  store' = store /\ pc'[r] \notin Middleware!Working
<1>1. \/ Middleware!Arrive(r) \/ Middleware!Lookup(r)
      \/ Middleware!LookupFails(r) \/ Middleware!Crash(r)
    BY DEF RequestStep, Middleware!MiddlewareStep, Middleware!Unanswered,
           Middleware!Handler, Middleware!Reserve, Middleware!ReserveFails,
           Middleware!HandlerReturns, Middleware!HandlerFails, Middleware!HandlerPanics,
           Middleware!Cleanup, Middleware!Save, Middleware!SaveFails, Middleware!Discard,
           Middleware!Working
<1>2. /\ store' = store
      /\ pc' \in {[pc EXCEPT ![r] = s] : s \in {"lookup", "done", "crashed"}}
    BY <1>1
    DEF Middleware!Arrive, Middleware!Lookup, Middleware!LookupFails, Middleware!Crash,
        Middleware!Goto, Middleware!End
<1> QED
    BY <1>2 DEF Middleware!TypeOK, Middleware!Working

(* A request leaves its key with an error or with an entry.                *)
LEMMA LeavesErrorOrEntry ==
    ASSUME Middleware!IInv, NEW r \in Requests, RequestStep(r),
           pc[r] \in Middleware!Working \ {"reserve"}, pc'[r] \notin Middleware!Working,
           Middleware!Undisturbed(KeyOf[r])
    PROVE  Erred(r)' \/ store'[KeyOf[r]] # Absent
<1>1. store[KeyOf[r]] # Absent /\ KeyOf[r] \in Keys
    BY KeyOfAssumption DEF Middleware!IInv, Middleware!KeyTaken
<1>2. \/ Middleware!Save(r) \/ Middleware!Cleanup(r) \/ Middleware!Discard(r)
      \/ Middleware!HandlerPanics(r) \/ Middleware!Crash(r)
    BY DEF RequestStep, Middleware!MiddlewareStep, Middleware!Unanswered,
           Middleware!Handler, Middleware!Arrive, Middleware!Lookup,
           Middleware!LookupFails, Middleware!Reserve, Middleware!ReserveFails,
           Middleware!HandlerReturns, Middleware!HandlerFails, Middleware!SaveFails,
           Middleware!Goto, Middleware!Working, Middleware!IInv, Middleware!TypeOK
<1>3. CASE Middleware!Cleanup(r) \/ Middleware!Discard(r)
    BY <1>3 DEF Middleware!Cleanup, Middleware!Discard, Middleware!End, Middleware!Plain,
                Erred, Middleware!IInv, Middleware!TypeOK
<1>4. CASE Middleware!Save(r)
    BY <1>1, <1>4, EntriesAssumption DEF Middleware!Save, Middleware!IInv, Middleware!TypeOK
<1>5. CASE Middleware!HandlerPanics(r) \/ Middleware!Crash(r)
    BY <1>1, <1>5 DEF Middleware!HandlerPanics, Middleware!Crash
<1> QED
    BY <1>2, <1>3, <1>4, <1>5

(* So while the handlers stand still, whoever holds a key goes on holding  *)
(* it, and a second handler has begun only after an error.                 *)
LEMMA RequestStepKeepsKeyHeld ==
    ASSUME IInv, NEW r \in Requests, RequestStep(r), step' = step
    PROVE  KeyHeld' /\ HandledAgainAfterError'
<1> USE DEF IInv, Middleware!IInv
<1>1. \A s \in Requests : Erred(s) => s # r /\ Erred(s)'
  <2>1. \A s \in Requests : Erred(s) => pc[s] = "done"
      BY DEF Erred, Middleware!AnsweredAtEnd
  <2> QED
      BY <2>1, RequestStepIsLocal DEF Erred, Middleware!Ended
<1>2. \A k \in Keys : Middleware!Undisturbed(k)' => Middleware!Undisturbed(k)
    BY RequestStepIsLocal DEF Middleware!Undisturbed
<1>3. HandledAgainAfterError'
    BY <1>1, <1>2, KeyOfAssumption DEF HandledAgainAfterError
<1>4. KeyHeld'
  <2> SUFFICES ASSUME NEW q \in Requests, step[q] # "start",
                      Middleware!Undisturbed(KeyOf[q])
               PROVE  \/ pc'[q] \in Middleware!Working
                      \/ Erred(q)'
                      \/ /\ store'[KeyOf[q]] # Absent
                         /\ \A s \in Requests :
                              KeyOf[s] = KeyOf[q] => pc'[s] \notin Middleware!Working
      BY <1>2, KeyOfAssumption DEF KeyHeld
  <2>0. KeyOf[q] \in Keys
      BY KeyOfAssumption
  <2>1. CASE pc[q] \in Middleware!Working
    <3>1. CASE q # r
        BY <2>1, <3>1, RequestStepIsLocal
    <3>2. CASE q = r /\ pc'[q] \notin Middleware!Working
      <4>1. \A s \in Requests \ {r} : KeyOf[s] = KeyOf[r] => pc'[s] \notin Middleware!Working
          BY <2>1, <3>2, RequestStepIsLocal
          DEF Middleware!OneAtATime, Middleware!Undisturbed
      <4>2. pc[r] # "reserve"
          BY <3>2 DEF BodiesBound
      <4> QED
          BY <2>1, <3>2, <4>1, <4>2, LeavesErrorOrEntry
    <3> QED
        BY <3>1, <3>2
  <2>2. CASE Erred(q)
      BY <1>1, <2>2
  <2>3. CASE /\ store[KeyOf[q]] # Absent
             /\ \A s \in Requests : KeyOf[s] = KeyOf[q] => pc[s] \notin Middleware!Working
    <3>1. CASE KeyOf[r] = KeyOf[q]
        BY <2>3, <3>1, EntryStopsLookup, RequestStepIsLocal
    <3>2. CASE KeyOf[r] # KeyOf[q]
        BY <2>0, <2>3, <3>2, RequestStepIsLocal
    <3> QED
        BY <3>1, <3>2
  <2> QED
      BY <2>1, <2>2, <2>3 DEF KeyHeld
<1> QED
    BY <1>3, <1>4

-----------------------------------------------------------------------------
(* Steps of the middleware, and of the environment, in front of handlers   *)
(* that stand still.                                                       *)

LEMMA MiddlewareStepPreservesIInv ==
    ASSUME IInv, NEW r \in Requests, RequestStep(r), pc[r] # "idle",
           succeeded' = succeeded \/ (step[r] = "respond" /\ succeeded' = succeeded \cup {r}),
           UNCHANGED <<ledgerVars, handlerVars>>
    PROVE  IInv'
<1> USE DEF IInv, ledgerVars, handlerVars
<1>1. Middleware!IInv'
    BY MiddlewarePreserves
<1>2. TypeOK'
    BY <1>1 DEF TypeOK, Middleware!IInv
<1>3. BodiesBound'
    BY RequestStepIsLocal DEF BodiesBound, TypeOK
<1>4. StepsInOrder'
    BY DEF StepsInOrder, IsCard
<1>5. NamedPosted' /\ PostedOnce'
    BY DEF NamedPosted, PostedOnce, Posting
<1>6. KeyHeld' /\ HandledAgainAfterError'
    BY RequestStepKeepsKeyHeld
<1> QED
    BY <1>1, <1>2, <1>3, <1>4, <1>5, <1>6

(* The commands of Redis, a crash, an error or a panic of the handler, and *)
(* its response.                                                           *)
LEMMA InMiddlewarePreservesIInv ==
    ASSUME IInv, NEW r \in Requests,
           \/ InMiddleware(r) \/ Crash(r) \/ Fail(r) \/ Panic(r) \/ Respond(r)
           \/ Duplicate(r) /\ Middleware!HandlerFails(r) /\ UNCHANGED handlerVars
    PROVE  IInv'
<1>1. UNCHANGED <<ledgerVars, handlerVars>>
    BY DEF InMiddleware, Crash, Fail, Panic, Respond, Duplicate
<1>2. RequestStep(r)
    BY DEF InMiddleware, Crash, Fail, Panic, Respond, RequestStep, Middleware!Handler
<1>3. pc[r] # "idle"
    BY DEF InMiddleware, Crash, Fail, Panic, Respond, Middleware!MiddlewareStep,
           Middleware!Unanswered, Middleware!Lookup, Middleware!LookupFails,
           Middleware!Reserve, Middleware!ReserveFails, Middleware!Save,
           Middleware!SaveFails, Middleware!Cleanup, Middleware!Discard,
           Middleware!HandlerReturns, Middleware!HandlerFails, Middleware!HandlerPanics,
           Middleware!Crash
<1>4. succeeded' = succeeded \/ (step[r] = "respond" /\ succeeded' = succeeded \cup {r})
  <2>1. CASE Respond(r)
      BY <2>1 DEF Respond, Running, Middleware!HandlerReturns
  <2>2. CASE InMiddleware(r)
      BY <2>2
      DEF InMiddleware, Middleware!MiddlewareStep, Middleware!Unanswered,
          Middleware!Lookup, Middleware!LookupFails, Middleware!Reserve,
          Middleware!ReserveFails, Middleware!Save, Middleware!SaveFails,
          Middleware!Cleanup, Middleware!Discard
  <2>3. CASE Crash(r) \/ Fail(r) \/ Panic(r) \/ Middleware!HandlerFails(r)
      BY <2>3 DEF Crash, Fail, Panic, Middleware!Crash, Middleware!HandlerFails,
                  Middleware!HandlerPanics
  <2> QED
      BY <2>1, <2>2, <2>3
<1> QED
    BY <1>1, <1>2, <1>3, <1>4, MiddlewareStepPreservesIInv

(* A request arrives with a body.                                          *)
LEMMA ArrivePreservesIInv ==
    ASSUME IInv, NEW r \in Requests, Arrive(r)
    PROVE  IInv'
<1>1. RequestStep(r) /\ step' = step
    BY DEF Arrive, RequestStep
<1>2. /\ pc[r] = "idle" /\ pc' = [pc EXCEPT ![r] = "lookup"]
      /\ succeeded' = succeeded
      /\ UNCHANGED <<accounts, balance, posted, step, authorised, notified, named>>
    BY DEF Arrive, Middleware!Arrive, Middleware!Goto, ledgerVars
<1>3. PICK c \in Intents[r] : intent' = [intent EXCEPT ![r] = c]
    BY DEF Arrive
<1>4. c \in Bodies
    BY IntentsAssumption
<1> USE DEF IInv
<1>5. step[r] = "start" /\ r \notin posted
    BY <1>2 DEF BodiesBound, StepsInOrder
<1>6. \A s \in Requests \ {r} : intent'[s] = intent[s]
    BY <1>3 DEF TypeOK
<1>7. Middleware!IInv'
    BY <1>1, MiddlewarePreserves
<1>8. TypeOK'
    BY <1>2, <1>3, <1>4, <1>7 DEF TypeOK, Middleware!IInv
<1>9. BodiesBound'
    BY <1>2, <1>3, <1>6 DEF BodiesBound, TypeOK, Middleware!IInv, Middleware!TypeOK
<1>10. StepsInOrder'
    BY <1>2, <1>5, <1>6 DEF StepsInOrder, IsCard
<1>11. NamedPosted'
    BY <1>2, <1>5, <1>6 DEF NamedPosted, Posting, TypeOK
<1>12. PostedOnce'
    BY <1>2, <1>5, <1>6 DEF PostedOnce, Posting, TypeOK
<1>13. KeyHeld' /\ HandledAgainAfterError'
    BY <1>1, RequestStepKeepsKeyHeld
<1> QED
    BY <1>7, <1>8, <1>9, <1>10, <1>11, <1>12, <1>13

(* An entry that expires disturbs its key.                                 *)
LEMMA ExpirePreservesIInv ==
    ASSUME IInv, NEW k \in Keys, Expire(k)
    PROVE  IInv'
<1> USE DEF IInv, ledgerVars, handlerVars
<1>1. UNCHANGED <<ledgerVars, handlerVars, pc, answer, succeeded>>
    BY DEF Expire, Middleware!Expire
<1>2. Middleware!IInv'
    BY MiddlewarePreserves DEF Expire
<1>3. TypeOK'
    BY <1>1, <1>2 DEF TypeOK, Middleware!IInv
<1>4. /\ BodiesBound' /\ StepsInOrder' /\ NamedPosted' /\ PostedOnce'
    BY <1>1 DEF BodiesBound, StepsInOrder, IsCard, NamedPosted, PostedOnce, Posting
<1>5. \A j \in Keys : Middleware!Undisturbed(j)' =>
        Middleware!Undisturbed(j) /\ store'[j] = store[j]
    BY DEF Expire, Middleware!Expire, Middleware!Undisturbed, Middleware!IInv,
           Middleware!TypeOK
<1>6. KeyHeld'
    BY <1>1, <1>5, KeyOfAssumption DEF KeyHeld, Erred
<1>7. HandledAgainAfterError'
    BY <1>1, <1>5, KeyOfAssumption DEF HandledAgainAfterError, Erred
<1> QED
    BY <1>2, <1>3, <1>4, <1>6, <1>7

-----------------------------------------------------------------------------
(* Steps of the handlers.                                                  *)

(* The key of a handler that has begun is its own while it goes on.        *)
LEMMA HandlerStepKeepsKeyHeld ==
    ASSUME IInv, UNCHANGED middlewareVars,
           \A s \in Requests : step'[s] = "start" <=> step[s] = "start"
    PROVE  Middleware!IInv' /\ KeyHeld' /\ HandledAgainAfterError'
<1>1. Middleware!IInv'
    BY MiddlewarePreserves DEF IInv
<1> USE DEF IInv, middlewareVars, Middleware!Undisturbed, Erred
<1>2. KeyHeld'
    BY DEF KeyHeld
<1>3. HandledAgainAfterError'
    BY DEF HandledAgainAfterError
<1> QED
    BY <1>1, <1>2, <1>3

(* The handler that begins is the only one at work under its key.          *)
LEMMA PreparePreservesIInv ==
    ASSUME IInv, NEW r \in Requests, Prepare(r)
    PROVE  IInv'
<1>1. /\ pc[r] = "handler" /\ step[r] = "start"
      /\ step' = [step EXCEPT ![r] = IF IsCard(r) THEN "authorise" ELSE "post"]
      /\ UNCHANGED middlewareVars
      /\ UNCHANGED <<ledgerVars, intent, authorised, notified, named>>
    BY DEF Prepare, Running, Advance
<1>2. Middleware!IInv'
    BY <1>1, MiddlewarePreserves DEF IInv
<1> USE DEF IInv, middlewareVars, ledgerVars
<1>3. TypeOK'
    BY <1>1, <1>2 DEF TypeOK, Steps, Middleware!IInv
<1>4. \A s \in Requests \ {r} : step'[s] = step[s]
    BY <1>1 DEF TypeOK
<1>5. step'[r] \in {"authorise", "post"} /\ (step'[r] = "post" => ~IsCard(r))
    BY <1>1 DEF TypeOK
<1>6. BodiesBound'
    BY <1>1, <1>4 DEF BodiesBound
<1>7. StepsInOrder'
    BY <1>1, <1>4, <1>5 DEF StepsInOrder, IsCard
<1>8. NamedPosted' /\ PostedOnce'
    BY <1>1, <1>4, <1>5 DEF NamedPosted, PostedOnce, Posting
<1>9. KeyHeld'
    BY <1>1, <1>4 DEF KeyHeld, Erred, Middleware!Undisturbed, Middleware!Working
<1>10. \A q \in Requests \ {r} :
         (/\ step[q] # "start" /\ KeyOf[q] = KeyOf[r]
          /\ Middleware!Undisturbed(KeyOf[r])) => Erred(q)
    BY <1>1 DEF KeyHeld, Middleware!OneAtATime, Middleware!IInv, Middleware!Undisturbed,
                Middleware!Working
<1>11. HandledAgainAfterError'
    BY <1>1, <1>4, <1>10 DEF HandledAgainAfterError, Erred, Middleware!Undisturbed
<1> QED
    BY <1>2, <1>3, <1>6, <1>7, <1>8, <1>9, <1>11

(* The acquirer agrees.                                                    *)
LEMMA AuthorisePreservesIInv ==
    ASSUME IInv, NEW r \in Requests, Authorise(r)
    PROVE  IInv'
<1>1. /\ pc[r] = "handler" /\ step[r] = "authorise"
      /\ step' = [step EXCEPT ![r] = "post"]
      /\ authorised' = authorised \cup {r}
      /\ UNCHANGED middlewareVars
      /\ UNCHANGED <<ledgerVars, intent, notified, named>>
    BY DEF Authorise, Running, Advance
<1>2. /\ step'[r] = "post"
      /\ \A s \in Requests \ {r} : step'[s] = step[s]
    BY <1>1 DEF IInv, TypeOK
<1>3. Middleware!IInv' /\ KeyHeld' /\ HandledAgainAfterError'
    BY <1>1, <1>2, HandlerStepKeepsKeyHeld
<1> USE DEF IInv, middlewareVars, ledgerVars
<1>4. TypeOK'
    BY <1>1, <1>3 DEF TypeOK, Steps, Middleware!IInv
<1>5. BodiesBound'
    BY <1>1, <1>2 DEF BodiesBound
<1>6. StepsInOrder'
    BY <1>1, <1>2 DEF StepsInOrder, IsCard
<1>7. NamedPosted' /\ PostedOnce'
    BY <1>1, <1>2 DEF NamedPosted, PostedOnce, Posting
<1> QED
    BY <1>3, <1>4, <1>5, <1>6, <1>7

(* What a body asks for is a call of the ledger.                           *)
LEMMA PostingIsCall ==
    ASSUME IInv, NEW r \in Requests, step[r] # "start"
    PROVE  Posting(r) \in Calls /\ intent[r] \in Intents[r]
BY IntentsAssumption DEF IInv, BodiesBound, Posting

(* The ledger takes the posting, alive or after the process has died.      *)
LEMMA PostPreservesIInv ==
    ASSUME IInv, NEW r \in Requests, Post(r)
    PROVE  IInv'
<1>1. /\ pc[r] \in {"handler", "crashed"} /\ step[r] = "post"
      /\ step' = [step EXCEPT ![r] = "report"]
      /\ posted' = posted \cup {r}
      /\ UNCHANGED middlewareVars
      /\ UNCHANGED <<intent, authorised, notified, named>>
    BY DEF Post, Advance
<1>2. /\ step'[r] = "report"
      /\ \A s \in Requests \ {r} : step'[s] = step[s]
    BY <1>1 DEF IInv, TypeOK
<1>3. Middleware!IInv' /\ KeyHeld' /\ HandledAgainAfterError'
    BY <1>1, <1>2, HandlerStepKeepsKeyHeld
<1> USE DEF IInv, middlewareVars
<1>4. TypeOK'
  <2>1. Posting(r) \in Calls
      BY <1>1, PostingIsCall
  <2>2. accounts' = accounts /\ balance' = [a \in Accounts |-> balance[a] + Ledger!Effect(Posting(r), a)]
      BY DEF Post, Ledger!Post, Ledger!Accounts, Accounts
  <2>3. \A a \in Accounts : Ledger!Effect(Posting(r), a) \in Int
      BY <2>1, CallsAssumption
      DEF Ledger!Effect, Ledger!FirstEntry, Ledger!SecondEntry, CallType
  <2> QED
      BY <1>1, <1>3, <2>2, <2>3 DEF TypeOK, Steps, Middleware!IInv
<1>5. BodiesBound'
    BY <1>1, <1>2 DEF BodiesBound
<1>6. StepsInOrder'
    BY <1>1, <1>2 DEF StepsInOrder, IsCard
<1>7. NamedPosted'
    BY <1>1, <1>2 DEF NamedPosted, Posting
<1>8. \A p \in posted : Key(Posting(p)) # Key(Posting(r))
    BY DEF Post, Ledger!Post, Ledger!Key, Key
<1>9. PostedOnce'
    BY <1>1, <1>8 DEF PostedOnce, Posting
<1> QED
    BY <1>3, <1>4, <1>5, <1>6, <1>7, <1>9

(* The response names the transaction of the request, or that of the       *)
(* request it repeats.                                                     *)
LEMMA NamePreservesIInv ==
    ASSUME IInv, NEW r \in Requests, NEW p \in posted, NEW s \in {"notify", "respond"},
           step[r] \in {"post", "report"}, pc[r] = "handler",
           step[r] = "post" => s = "respond" /\ IsCard(r) /\ p # r,
           step[r] = "report" => p = r,
           Key(Posting(p)) = Key(Posting(r)),
           named' = [named EXCEPT ![r] = p], Advance(r, s),
           UNCHANGED <<ledgerVars, intent, authorised, notified>>,
           s = "notify" => r \in posted
    PROVE  IInv'
<1>1. step' = [step EXCEPT ![r] = s] /\ UNCHANGED middlewareVars
    BY DEF Advance
<1>2. /\ step'[r] = s
      /\ \A q \in Requests \ {r} : step'[q] = step[q] /\ named'[q] = named[q]
      /\ named'[r] = p
    BY <1>1 DEF IInv, TypeOK
<1>3. Middleware!IInv' /\ KeyHeld' /\ HandledAgainAfterError'
    BY <1>1, <1>2, HandlerStepKeepsKeyHeld
<1> USE DEF IInv, middlewareVars, ledgerVars
<1>4. TypeOK'
    BY <1>1, <1>3 DEF TypeOK, Steps, Middleware!IInv
<1>5. BodiesBound'
    BY <1>1, <1>2 DEF BodiesBound
<1>6. StepsInOrder'
    BY <1>1, <1>2 DEF StepsInOrder, IsCard
<1>7. NamedPosted' /\ PostedOnce'
    BY <1>1, <1>2 DEF NamedPosted, PostedOnce, Posting
<1> QED
    BY <1>3, <1>4, <1>5, <1>6, <1>7

LEMMA ReportPreservesIInv ==
    ASSUME IInv, NEW r \in Requests, Report(r)
    PROVE  IInv'
<1>1. r \in posted
    BY DEF Report, Running, IInv, StepsInOrder
<1> QED
    BY <1>1, NamePreservesIInv DEF Report, Running

LEMMA DuplicatePreservesIInv ==
    ASSUME IInv, NEW r \in Requests, Duplicate(r)
    PROVE  IInv'
<1>1. CASE Middleware!HandlerFails(r) /\ UNCHANGED handlerVars
    BY <1>1, InMiddlewarePreservesIInv
<1>2. CASE ~(Middleware!HandlerFails(r) /\ UNCHANGED handlerVars)
  <2>1. r \notin posted
      BY DEF Duplicate, Running, IInv, StepsInOrder
  <2>2. PICK p \in posted :
          /\ Key(Posting(p)) = Key(Posting(r))
          /\ IsCard(r)
          /\ named' = [named EXCEPT ![r] = p]
          /\ Advance(r, "respond")
          /\ UNCHANGED <<intent, authorised, notified>>
      BY <1>2 DEF Duplicate
  <2> QED
      BY <2>1, <2>2, NamePreservesIInv DEF Duplicate, Running
<1> QED
    BY <1>1, <1>2

(* The receiver of a transfer that is in the ledger is told.               *)
LEMMA NotifyPreservesIInv ==
    ASSUME IInv, NEW r \in Requests, Notify(r)
    PROVE  IInv'
<1>1. /\ pc[r] = "handler" /\ step[r] = "notify"
      /\ step' = [step EXCEPT ![r] = "respond"]
      /\ notified' \in {notified, notified \cup {r}}
      /\ UNCHANGED middlewareVars
      /\ UNCHANGED <<ledgerVars, intent, authorised, named>>
    BY DEF Notify, Running, Advance
<1>2. /\ step'[r] = "respond"
      /\ \A s \in Requests \ {r} : step'[s] = step[s]
    BY <1>1 DEF IInv, TypeOK
<1>3. Middleware!IInv' /\ KeyHeld' /\ HandledAgainAfterError'
    BY <1>1, <1>2, HandlerStepKeepsKeyHeld
<1> USE DEF IInv, middlewareVars, ledgerVars
<1>4. TypeOK'
    BY <1>1, <1>3 DEF TypeOK, Steps, Middleware!IInv
<1>5. BodiesBound'
    BY <1>1, <1>2 DEF BodiesBound
<1>6. StepsInOrder'
    BY <1>1, <1>2 DEF StepsInOrder, IsCard
<1>7. NamedPosted'
    BY <1>1, <1>2 DEF NamedPosted, Posting
<1>8. PostedOnce'
    BY <1>1 DEF PostedOnce, Posting, StepsInOrder
<1> QED
    BY <1>3, <1>4, <1>5, <1>6, <1>7, <1>8

LEMMA OpenAccountPreservesIInv ==
    ASSUME IInv, NEW a \in Accounts, OpenAccount(a)
    PROVE  IInv'
<1>1. /\ UNCHANGED middlewareVars
      /\ UNCHANGED <<posted, balance, handlerVars>>
      /\ accounts' = accounts \cup {a}
    BY DEF OpenAccount, Ledger!EnsureAccount
<1> USE DEF handlerVars
<1>2. Middleware!IInv' /\ KeyHeld' /\ HandledAgainAfterError'
    BY <1>1, HandlerStepKeepsKeyHeld
<1> USE DEF IInv, middlewareVars
<1>3. TypeOK'
    BY <1>1, <1>2 DEF TypeOK, Middleware!IInv
<1>4. BodiesBound' /\ StepsInOrder' /\ NamedPosted' /\ PostedOnce'
    BY <1>1 DEF BodiesBound, StepsInOrder, IsCard, NamedPosted, PostedOnce, Posting
<1> QED
    BY <1>2, <1>3, <1>4

LEMMA StutterPreservesIInv ==
    ASSUME IInv, UNCHANGED vars
    PROVE  IInv'
<1> USE DEF vars, handlerVars, ledgerVars
<1>1. Middleware!IInv' /\ KeyHeld' /\ HandledAgainAfterError'
    BY HandlerStepKeepsKeyHeld
<1> USE DEF IInv, middlewareVars
<1>2. TypeOK'
    BY <1>1 DEF TypeOK, Middleware!IInv
<1>3. BodiesBound' /\ StepsInOrder' /\ NamedPosted' /\ PostedOnce'
    BY DEF BodiesBound, StepsInOrder, IsCard, NamedPosted, PostedOnce, Posting
<1> QED
    BY <1>1, <1>2, <1>3

(* Every step preserves the invariant.                                     *)
LEMMA NextPreservesIInv == IInv /\ [Next]_vars => IInv'
<1> SUFFICES ASSUME IInv, [Next]_vars
             PROVE  IInv'
    OBVIOUS
<1>1. ASSUME NEW r \in Requests, Handler(r)
      PROVE  IInv'
    BY <1>1, PreparePreservesIInv, AuthorisePreservesIInv, PostPreservesIInv,
       ReportPreservesIInv, DuplicatePreservesIInv, NotifyPreservesIInv,
       InMiddlewarePreservesIInv
    DEF Handler
<1>2. ASSUME NEW r \in Requests, Arrive(r) \/ InMiddleware(r) \/ Crash(r)
      PROVE  IInv'
    BY <1>2, ArrivePreservesIInv, InMiddlewarePreservesIInv
<1> QED
    BY <1>1, <1>2, ExpirePreservesIInv, OpenAccountPreservesIInv, StutterPreservesIInv
    DEF Next, AllEnded

-----------------------------------------------------------------------------
(* Theorems.                                                               *)

(* The strengthened invariant holds in every reachable state.              *)
THEOREM Invariance == Spec => []IInv
BY InitIInv, NextPreservesIInv, PTL DEF Spec

(* Every variable keeps its shape.                                         *)
THEOREM TypeCorrect == Spec => []TypeOK
<1>1. IInv => TypeOK
    BY DEF IInv
<1> QED
    BY <1>1, Invariance, PTL

(* Without a client_tx_id a payment is posted once per Idempotency-Key,    *)
(* but for races, expired entries and errors after the posting.            *)
THEOREM PostedTwiceOnlyByLoss == Spec => []DoublePostingNeedsLoss
<1>1. IInv => DoublePostingNeedsLoss
    BY KeyOfAssumption
    DEF IInv, TypeOK, StepsInOrder, HandledAgainAfterError, Erred, Middleware!Undisturbed,
        DoublePostingNeedsLoss
<1> QED
    BY <1>1, Invariance, PTL

(* A transfer is announced once, and not before it is in the ledger.       *)
THEOREM AnnouncedOnce == Spec => []NotifiedOncePosted
<1>1. IInv => NotifiedOncePosted
    BY DEF IInv, PostedOnce, NotifiedOncePosted
<1> QED
    BY <1>1, Invariance, PTL

(* Card money moves only after the acquirer has agreed.                    *)
THEOREM CardsAuthorised == Spec => []CardsAuthorisedFirst
<1>1. IInv => CardsAuthorisedFirst
    BY DEF IInv, TypeOK, StepsInOrder, CardsAuthorisedFirst
<1> QED
    BY <1>1, Invariance, PTL

(* Two requests of which one has the identifier of the other, as chosen by *)
(* a client who uses it for one payment only, or as drawn by the server.   *)
LEMMA SameKeySameBody ==
    ASSUME IInv, NEW r \in Requests, NEW p \in posted, NEW q \in Requests,
           Disciplined(r), intent[q] = intent[r], step[q] # "start", pc[r] # "idle",
           Key(Posting(p)) = Key(Posting(q))
    PROVE  intent[p] = intent[r]
<1>1. /\ p \in Requests
      /\ step[p] # "start"
    BY DEF IInv, TypeOK, StepsInOrder
<1>2. /\ intent[p] \in Bodies /\ intent[q] \in Bodies
      /\ intent[p] # NoIntent
    BY <1>1, PostingIsCall, IntentsAssumption
<1>3. /\ Posting(p).kind = intent[p].kind
      /\ Posting(p).id = IF intent[p].id = NoId THEN p ELSE intent[p].id
      /\ Posting(q).kind = intent[q].kind
      /\ Posting(q).id = IF intent[q].id = NoId THEN q ELSE intent[q].id
    BY <1>2 DEF Posting, Identified, Bodies
<1>4. intent[p].kind = intent[q].kind /\ Posting(p).id = Posting(q).id
    BY <1>3 DEF Key
<1>5. CASE intent[q].id = NoId
  <2>1. p = q
      BY <1>1, <1>2, <1>3, <1>4, <1>5 DEF Bodies
  <2> QED
      BY <2>1
<1>6. CASE intent[q].id # NoId
  <2>1. intent[p].id = intent[q].id
      BY <1>1, <1>2, <1>3, <1>4, <1>6 DEF Bodies
  <2>2. Key(intent[p]) = Key(intent[r]) /\ intent[r].id # NoId
      BY <1>4, <1>6, <2>1 DEF Key
  <2> QED
      BY <1>1, <1>2, <2>2 DEF Disciplined
<1> QED
    BY <1>5, <1>6

(* A client that is told of success has its own payment in the ledger.     *)
THEOREM SuccessIsPosted == Spec => []SuccessMeansPosted
<1>1. IInv => SuccessMeansPosted
  <2> SUFFICES ASSUME IInv, NEW r \in Requests, answer[r].status \in {"own", "replay"},
                      Disciplined(r)
               PROVE  LET p == named[answer[r].from]
                      IN  p \in posted /\ intent[p] = intent[r]
      BY DEF SuccessMeansPosted
  <2> DEFINE q == answer[r].from
  <2>1. q \in succeeded /\ KeyOf[q] = KeyOf[r] /\ pc[r] = "done"
      BY DEF IInv, Middleware!IInv, Middleware!OwnAnswersStand,
             Middleware!ReplaysAreResponses, Middleware!AnsweredAtEnd
  <2>2. q \in Requests /\ step[q] = "respond"
      BY <2>1 DEF IInv, Middleware!IInv, Middleware!TypeOK, StepsInOrder
  <2>3. named[q] \in posted /\ Key(Posting(named[q])) = Key(Posting(q))
      BY <2>2 DEF IInv, NamedPosted
  <2>4. intent[q] # NoIntent
      BY <2>2, PostingIsCall, IntentsAssumption
  <2>5. intent[q] = intent[r]
      BY <2>1, <2>2, <2>4 DEF Disciplined
  <2> QED
      BY <2>1, <2>2, <2>3, <2>5, SameKeySameBody
<1> QED
    BY <1>1, Invariance, PTL

-----------------------------------------------------------------------------
(* The middleware and the ledger, in composition.                          *)

(* The handlers are handlers as the middleware knows them: what is proved  *)
(* in IdempotencyProofs holds of payments.                                 *)
LEMMA StepIsMiddlewareStep ==
    [Next]_vars => [Middleware!Next]_(Middleware!vars)
<1> SUFFICES ASSUME [Next]_vars
             PROVE  Middleware!Next \/ UNCHANGED middlewareVars
    BY DEF Middleware!vars, middlewareVars
<1>1. CASE UNCHANGED vars
    BY <1>1 DEF vars
<1>2. ASSUME NEW r \in Requests, Arrive(r) \/ InMiddleware(r) \/ Crash(r)
      PROVE  Middleware!Next
    BY <1>2 DEF Arrive, InMiddleware, Crash, Middleware!Next
<1>3. ASSUME NEW r \in Requests, Handler(r)
      PROVE  Middleware!Handler(r) \/ UNCHANGED middlewareVars
    BY <1>3
    DEF Handler, Prepare, Authorise, Fail, Post, Report, Duplicate, Notify, Respond, Panic,
        Advance, Middleware!Handler
<1>4. ASSUME NEW k \in Keys, Expire(k)
      PROVE  Middleware!Next
    BY <1>4 DEF Expire, Middleware!Next
<1>5. ASSUME NEW a \in Accounts, OpenAccount(a)
      PROVE  UNCHANGED middlewareVars
    BY <1>5 DEF OpenAccount
<1> QED
    BY <1>1, <1>2, <1>3, <1>4, <1>5 DEF Next, AllEnded, Middleware!Next

THEOREM ImplementsMiddleware == Spec => Middleware!Spec
<1>1. Init => Middleware!Init
    BY DEF Init
<1> QED
    BY <1>1, StepIsMiddlewareStep, PTL DEF Spec, Middleware!Spec

LEMMA SameMiddlewareNext ==
    [Middleware!Next]_(Middleware!vars) => [MP!Next]_(MP!vars)
<1>1. \A r \in Requests :
        RequestStep(r) => MP!Arrive(r) \/ MP!MiddlewareStep(r) \/ MP!Handler(r) \/ MP!Crash(r)
    BY SameRequestStep
<1>2. \A k \in Keys : Middleware!Expire(k) => MP!Expire(k)
    BY DEF Middleware!Expire, MP!Expire
<1>3. UNCHANGED Middleware!vars => UNCHANGED MP!vars
    BY DEF Middleware!vars, MP!vars
<1>4. Middleware!AllEnded => UNCHANGED MP!vars
    BY DEF Middleware!AllEnded, Middleware!vars, MP!vars
<1> QED
    BY <1>1, <1>2, <1>3, <1>4 DEF Middleware!Next, MP!Next, RequestStep

(* What IdempotencyProofs shows therefore holds in the payment path: only  *)
(* responses of the handler are replayed, two requests with one key are    *)
(* both answered by it only after a race or an expiry, and a stored        *)
(* response stays until its TTL.                                           *)
THEOREM MiddlewareHolds ==
    Spec => /\ [](/\ Middleware!ReplaysAreResponses
                  /\ Middleware!OwnAnswersNeedRaceOrExpiry)
            /\ Middleware!SettledUntilExpiry
<1>1. Spec => MP!Spec
    BY ImplementsMiddleware, SameInit, SameMiddlewareNext, PTL
    DEF Middleware!Spec, MP!Spec
<1>2. MP!Spec => []MP!ReplaysAreResponses
    BY MP!ResponsesReplayed, MiddlewareAssumed
<1>3. MP!Spec => []MP!OwnAnswersNeedRaceOrExpiry
    BY MP!OneHandlerAnswers, MiddlewareAssumed
<1>4. MP!Spec => []MP!TypeOK
    BY MP!TypeCorrect, MiddlewareAssumed
<1>5. MP!TypeOK /\ [MP!Next]_(MP!vars) =>
        [\A k \in Keys :
            (Middleware!Settled(k) /\ k \notin expired') =>
                (Middleware!Settled(k)' /\ store'[k] = store[k])]_(Middleware!vars)
  <2>1. \A k \in Keys : Middleware!Settled(k) <=> MP!Settled(k)
      BY DEF Middleware!Settled, MP!Settled, Middleware!Working, MP!Working
  <2>2. \A k \in Keys : Middleware!Settled(k)' <=> MP!Settled(k)'
      BY DEF Middleware!Settled, MP!Settled, Middleware!Working, MP!Working
  <2> QED
      BY <2>1, <2>2, MP!StepKeepsSettled, MiddlewareAssumed
<1>6. MP!ReplaysAreResponses => Middleware!ReplaysAreResponses
    BY DEF MP!ReplaysAreResponses, Middleware!ReplaysAreResponses
<1>7. MP!OwnAnswersNeedRaceOrExpiry => Middleware!OwnAnswersNeedRaceOrExpiry
    BY DEF MP!OwnAnswersNeedRaceOrExpiry, MP!OneOwnAnswer, MP!Undisturbed,
           Middleware!OwnAnswersNeedRaceOrExpiry, Middleware!OneOwnAnswer,
           Middleware!Undisturbed
<1> QED
    BY <1>1, <1>2, <1>3, <1>4, <1>5, <1>6, <1>7, PTL
    DEF MP!Spec, Middleware!SettledUntilExpiry

(* The requests post as the ledger contract says: whatever they go through *)
(* in HTTP and in Redis, the books see single postings with new            *)
(* identifiers that are covered.                                           *)
LEMMA StepIsLedgerStep ==
    ASSUME IInv, [Next]_vars
    PROVE  [Ledger!Next]_(Ledger!contractVars)
<1>1. ASSUME NEW r \in Requests, Post(r)
      PROVE  Ledger!Next
  <2>1. PICK c \in Calls : c = Posting(r)
      BY <1>1, PostingIsCall DEF Post
  <2>2. Ledger!Post(c)
      BY <1>1, <2>1 DEF Post
  <2> QED
      BY <2>2 DEF Ledger!Next
<1>2. ASSUME NEW a \in Accounts, OpenAccount(a)
      PROVE  Ledger!Next
    BY <1>2 DEF OpenAccount, Ledger!Next, Ledger!Accounts, Accounts
<1>3. ASSUME UNCHANGED ledgerVars, \A p \in posted : intent'[p] = intent[p]
      PROVE  UNCHANGED Ledger!contractVars
    BY <1>3 DEF ledgerVars, Ledger!contractVars, Posting
<1>4. ASSUME NEW r \in Requests, Arrive(r)
      PROVE  UNCHANGED Ledger!contractVars
  <2>1. r \notin posted
      BY <1>4 DEF Arrive, Middleware!Arrive, IInv, BodiesBound, StepsInOrder
  <2> QED
      BY <1>3, <1>4, <2>1 DEF Arrive, IInv, TypeOK
<1>5. ASSUME UNCHANGED ledgerVars, UNCHANGED intent
      PROVE  UNCHANGED Ledger!contractVars
    BY <1>3, <1>5
<1>6. ASSUME NEW r \in Requests,
             \/ Prepare(r) \/ Authorise(r) \/ Fail(r) \/ Report(r) \/ Duplicate(r)
             \/ Notify(r) \/ Respond(r) \/ Panic(r) \/ InMiddleware(r) \/ Crash(r)
      PROVE  UNCHANGED ledgerVars /\ UNCHANGED intent
    BY <1>6 DEF Prepare, Authorise, Fail, Report, Duplicate, Notify, Respond, Panic,
                InMiddleware, Crash, handlerVars
<1>7. ASSUME (\E k \in Keys : Expire(k)) \/ UNCHANGED vars
      PROVE  UNCHANGED ledgerVars /\ UNCHANGED intent
    BY <1>7 DEF Expire, vars, handlerVars
<1> QED
    BY <1>1, <1>2, <1>4, <1>5, <1>6, <1>7 DEF Next, Handler, AllEnded

THEOREM ImplementsLedger == Spec => Ledger!Spec
<1>1. Init => Ledger!Init
    BY DEF Init, Ledger!Init
<1> QED
    BY <1>1, StepIsLedgerStep, Invariance, PTL DEF Spec, Ledger!Spec

=============================================================================
