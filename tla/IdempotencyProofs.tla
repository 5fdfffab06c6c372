-------------------------- MODULE IdempotencyProofs --------------------------
(***************************************************************************)
(* Proofs that the idempotency middleware keeps its promises for any       *)
(* number of requests and keys: one lemma for each step says that IInv is  *)
(* preserved, and the theorems follow.                                     *)
(***************************************************************************)
EXTENDS Idempotency, TLAPS

LEMMA InitIInv == Init => IInv
BY KeyOfAssumption, EntriesAssumption
DEF Init, IInv, TypeOK, Entries, Stages, Working, Ended, Answers, Statuses, Plain,
    StoredResponses, OneAtATime, KeyTaken, OwnAnswersStand, AnsweredAtEnd,
    ReplaysAreResponses

(* While a request is past the lookup, nobody with its key has an answer   *)
(* of his own, unless they raced or the entry expired.                     *)
LEMMA NoOwnAnswerBeside ==
    ASSUME IInv, NEW r \in Requests, pc[r] \in Working, NEW s \in Requests,
           KeyOf[s] = KeyOf[r], answer[s].status = "own"
    PROVE  ~Undisturbed(KeyOf[r])
BY DEF IInv, OwnAnswersStand

(* A Redis command of a request that works on its key: e is the entry it   *)
(* leaves, stage where the request goes on, a its answer.                  *)
LEMMA CommandPreservesIInv ==
    ASSUME IInv, NEW r \in Requests, pc[r] \in Working,
           NEW e \in Entries, NEW stage \in {"handler", "discard", "done"},
           NEW a \in Answers,
           e \in Requests => e \in succeeded /\ KeyOf[e] = KeyOf[r],
           stage # "done" => (Undisturbed(KeyOf[r]) => e # Absent),
           stage = "discard" => r \in succeeded,
           stage # "done" => a = answer[r],
           a.status # "replay",
           a.status = "own" => e = r /\ a.from = r /\ stage = "done",
           store' = [store EXCEPT ![KeyOf[r]] = e],
           Goto(r, stage),
           answer' = [answer EXCEPT ![r] = a],
           UNCHANGED <<succeeded, raced, expired>>
    PROVE  IInv'
<1>0. KeyOf[r] \in Keys
    BY KeyOfAssumption
<1> USE DEF Goto, IInv, TypeOK
<1>1. TypeOK'
    BY <1>0 DEF Stages, Working, Ended
<1>2. StoredResponses'
    BY <1>0 DEF StoredResponses
<1>3. OneAtATime'
    BY DEF OneAtATime, Working
<1>4. KeyTaken'
  <2> SUFFICES ASSUME NEW s \in Requests, pc'[s] \in Working \ {"reserve"},
                      Undisturbed(KeyOf[s])
               PROVE  store'[KeyOf[s]] # Absent
      BY DEF KeyTaken, Undisturbed
  <2>1. CASE s = r
      BY <1>0, <2>1 DEF Working
  <2>2. CASE s # r /\ KeyOf[s] = KeyOf[r]
      BY <2>2 DEF OneAtATime, Undisturbed, Working
  <2>3. CASE KeyOf[s] # KeyOf[r]
      BY <2>3, KeyOfAssumption DEF KeyTaken
  <2> QED
      BY <2>1, <2>2, <2>3
<1>5. OwnAnswersStand'
  <2> SUFFICES ASSUME NEW s \in Requests, answer'[s].status = "own"
               PROVE  /\ answer'[s].from = s
                      /\ s \in succeeded
                      /\ Undisturbed(KeyOf[s]) =>
                           /\ store'[KeyOf[s]] = s
                           /\ \A t \in Requests :
                                KeyOf[t] = KeyOf[s] => pc'[t] \notin Working
      BY DEF OwnAnswersStand, Undisturbed
  <2>1. CASE s = r
    <3>1. stage = "done" /\ e = s /\ answer'[s].from = s
        BY <2>1 DEF AnsweredAtEnd, Working
    <3>2. \A t \in Requests \ {r} :
            (KeyOf[t] = KeyOf[r] /\ Undisturbed(KeyOf[r])) => pc'[t] \notin Working
        BY DEF OneAtATime, Undisturbed
    <3> QED
        BY <1>0, <2>1, <3>1, <3>2 DEF Working
  <2>2. CASE s # r /\ KeyOf[s] = KeyOf[r]
      BY <2>2, NoOwnAnswerBeside DEF OwnAnswersStand
  <2>3. CASE s # r /\ KeyOf[s] # KeyOf[r]
      BY <2>3, KeyOfAssumption DEF OwnAnswersStand
  <2> QED
      BY <2>1, <2>2, <2>3
<1>6. AnsweredAtEnd'
    BY DEF AnsweredAtEnd, Working
<1>7. ReplaysAreResponses'
    BY DEF ReplaysAreResponses
<1> QED
    BY <1>1, <1>2, <1>3, <1>4, <1>5, <1>6, <1>7

(* A request that has only arrived.                                        *)
LEMMA ArrivePreservesIInv ==
    ASSUME IInv, NEW r \in Requests, Arrive(r)
    PROVE  IInv'
BY KeyOfAssumption
DEF Arrive, Goto, End, Plain, IInv, TypeOK, Stages, Working, Ended, Answers, Statuses,
    StoredResponses, OneAtATime, KeyTaken, OwnAnswersStand, AnsweredAtEnd,
    ReplaysAreResponses, Undisturbed

(* GET: the marker and a response end the request; without an entry it     *)
(* goes on, and whoever else works on the key has raced with it.           *)
LEMMA LookupPreservesIInv ==
    ASSUME IInv, NEW r \in Requests, Lookup(r)
    PROVE  IInv'
<1> USE KeyOfAssumption, EntriesAssumption
    DEF Lookup, Goto, End, MaybeStore, IInv, TypeOK
<1>1. TypeOK'
    BY DEF Stages, Working, Ended, Answers, Statuses, Plain, Response, Entries
<1>2. StoredResponses'
    BY DEF StoredResponses
<1>3. OneAtATime'
    BY DEF OneAtATime, Working, Ended, OthersWorking
<1>4. KeyTaken'
    BY DEF KeyTaken, OneAtATime, Working, Ended, Undisturbed
<1>5. OwnAnswersStand'
    BY DEF OwnAnswersStand, OneAtATime, StoredResponses, AnsweredAtEnd, Undisturbed, Working, Ended, Plain, Response
<1>6. AnsweredAtEnd'
    BY DEF AnsweredAtEnd, Ended
<1>7. ReplaysAreResponses'
    BY DEF ReplaysAreResponses, StoredResponses, Plain, Response
<1> QED
    BY <1>1, <1>2, <1>3, <1>4, <1>5, <1>6, <1>7

(* GET failed.                                                             *)
LEMMA LookupFailsPreservesIInv ==
    ASSUME IInv, NEW r \in Requests, LookupFails(r)
    PROVE  IInv'
BY KeyOfAssumption
DEF LookupFails, Goto, End, Plain, IInv, TypeOK, Stages, Working, Ended, Answers, Statuses,
    StoredResponses, OneAtATime, KeyTaken, OwnAnswersStand, AnsweredAtEnd,
    ReplaysAreResponses, Undisturbed

(* The handler returned a response.                                        *)
LEMMA HandlerReturnsPreservesIInv ==
    ASSUME IInv, NEW r \in Requests, HandlerReturns(r)
    PROVE  IInv'
BY KeyOfAssumption
DEF HandlerReturns, Goto, End, Plain, IInv, TypeOK, Stages, Working, Ended, Answers, Statuses,
    StoredResponses, OneAtATime, KeyTaken, OwnAnswersStand, AnsweredAtEnd,
    ReplaysAreResponses, Undisturbed

(* The handler returned an error.                                          *)
LEMMA HandlerFailsPreservesIInv ==
    ASSUME IInv, NEW r \in Requests, HandlerFails(r)
    PROVE  IInv'
BY KeyOfAssumption
DEF HandlerFails, Goto, End, Plain, IInv, TypeOK, Stages, Working, Ended, Answers, Statuses,
    StoredResponses, OneAtATime, KeyTaken, OwnAnswersStand, AnsweredAtEnd,
    ReplaysAreResponses, Undisturbed

(* The handler panicked.                                                   *)
LEMMA HandlerPanicsPreservesIInv ==
    ASSUME IInv, NEW r \in Requests, HandlerPanics(r)
    PROVE  IInv'
BY KeyOfAssumption
DEF HandlerPanics, Goto, End, Plain, IInv, TypeOK, Stages, Working, Ended, Answers, Statuses,
    StoredResponses, OneAtATime, KeyTaken, OwnAnswersStand, AnsweredAtEnd,
    ReplaysAreResponses, Undisturbed

(* The process died under the request.                                     *)
LEMMA CrashPreservesIInv ==
    ASSUME IInv, NEW r \in Requests, Crash(r)
    PROVE  IInv'
BY KeyOfAssumption
DEF Crash, Goto, End, Plain, IInv, TypeOK, Stages, Working, Ended, Answers, Statuses,
    StoredResponses, OneAtATime, KeyTaken, OwnAnswersStand, AnsweredAtEnd,
    ReplaysAreResponses, Undisturbed

(* A command that may have been lost leaves its entry or the former one.   *)
LEMMA MaybeStored ==
    ASSUME IInv, NEW r \in Requests, NEW e \in Entries, MaybeStore(r, e)
    PROVE  \E f \in {e, store[KeyOf[r]]} :
             f \in Entries /\ store' = [store EXCEPT ![KeyOf[r]] = f]
BY KeyOfAssumption DEF IInv, TypeOK, MaybeStore

(* What an entry of a key names.                                           *)
LEMMA EntryFacts ==
    ASSUME IInv, NEW r \in Requests
    PROVE  /\ store[KeyOf[r]] \in Entries
           /\ store[KeyOf[r]] \in Requests =>
                store[KeyOf[r]] \in succeeded /\ KeyOf[store[KeyOf[r]]] = KeyOf[r]
           /\ Absent \in Entries \ Requests /\ Marker \in Entries \ Requests
           /\ r \in Entries /\ r # Absent
           /\ Absent # Marker
           /\ Reserved(r) \in {Marker, store[KeyOf[r]]} \ {Absent}
           /\ answer[r] \in Answers
           /\ answer' = answer => answer' = [answer EXCEPT ![r] = answer[r]]
           /\ pc[r] \in Working => answer[r].status = "none"
BY KeyOfAssumption, EntriesAssumption
DEF IInv, TypeOK, StoredResponses, AnsweredAtEnd, Entries, Reserved, Working

(* An answer that is neither the own one nor a replay.                     *)
LEMMA PlainFacts ==
    ASSUME NEW status \in Statuses
    PROVE  Plain(status) \in Answers /\ Plain(status).status = status
BY DEF Plain, Answers

(* SETNX, answered or not.                                                 *)
LEMMA ReservePreservesIInv ==
    ASSUME IInv, NEW r \in Requests, Reserve(r) \/ ReserveFails(r)
    PROVE  IInv'
<1>1. CASE Reserve(r)
    BY <1>1, EntryFacts, CommandPreservesIInv DEF Reserve, Working
<1>2. CASE ReserveFails(r)
  <2>1. PICK f \in {Reserved(r), store[KeyOf[r]]} :
          f \in Entries /\ store' = [store EXCEPT ![KeyOf[r]] = f]
      BY <1>2, EntryFacts, MaybeStored DEF ReserveFails
  <2>2. f \in Requests => f \in succeeded /\ KeyOf[f] = KeyOf[r]
      BY <2>1, EntryFacts
  <2>3. PICK a \in Answers :
          a.status = "storeError" /\ answer' = [answer EXCEPT ![r] = a]
      BY <1>2, PlainFacts DEF ReserveFails, End, Statuses
  <2> QED
      BY <1>2, <2>1, <2>2, <2>3, CommandPreservesIInv DEF ReserveFails, End, Working
<1> QED
    BY <1>1, <1>2

(* DEL after an error of the handler, or after a SET that failed.          *)
LEMMA DeletePreservesIInv ==
    ASSUME IInv, NEW r \in Requests, Cleanup(r) \/ Discard(r)
    PROVE  IInv'
<1>1. PICK f \in {Absent, store[KeyOf[r]]} :
        f \in Entries /\ store' = [store EXCEPT ![KeyOf[r]] = f]
    BY EntryFacts, MaybeStored DEF Cleanup, Discard
<1>2. f \in Requests => f \in succeeded /\ KeyOf[f] = KeyOf[r]
    BY <1>1, EntryFacts
<1>3. PICK a \in Answers :
        /\ a.status \in {"handlerError", "persistError"}
        /\ answer' = [answer EXCEPT ![r] = a]
    BY PlainFacts DEF Cleanup, Discard, End, Statuses
<1> QED
    BY <1>1, <1>2, <1>3, CommandPreservesIInv DEF Cleanup, Discard, End, Working

(* SET of the response, answered or not.                                   *)
LEMMA SavePreservesIInv ==
    ASSUME IInv, NEW r \in Requests, Save(r) \/ SaveFails(r)
    PROVE  IInv'
<1>1. pc[r] = "save" /\ pc[r] \in Working /\ r \in succeeded
    BY DEF Save, SaveFails, Working, IInv, StoredResponses
<1>2. CASE Save(r)
  <2>1. /\ Response("own", r) \in Answers
        /\ Response("own", r).status = "own" /\ Response("own", r).from = r
      BY DEF Response, Answers, Statuses
  <2> QED
      BY <1>1, <1>2, <2>1, EntryFacts, CommandPreservesIInv DEF Save, End
<1>3. CASE SaveFails(r)
  <2>1. PICK f \in {r, store[KeyOf[r]]} :
          f \in Entries /\ store' = [store EXCEPT ![KeyOf[r]] = f]
      BY <1>3, EntryFacts, MaybeStored DEF SaveFails
  <2>2. Undisturbed(KeyOf[r]) => f # Absent
      BY <1>1, <2>1, EntryFacts DEF IInv, KeyTaken, Working
  <2> QED
      BY <1>1, <1>3, <2>1, <2>2, EntryFacts, CommandPreservesIInv DEF SaveFails
<1> QED
    BY <1>2, <1>3

(* An entry that expires disturbs its key and no other.                    *)
LEMMA ExpirePreservesIInv ==
    ASSUME IInv, NEW k \in Keys, Expire(k)
    PROVE  IInv'
BY KeyOfAssumption, EntriesAssumption
DEF Expire, IInv, TypeOK, Entries, StoredResponses, OneAtATime, KeyTaken,
    OwnAnswersStand, AnsweredAtEnd, ReplaysAreResponses, Undisturbed

LEMMA StutterPreservesIInv == IInv /\ UNCHANGED vars => IInv'
BY DEF vars, IInv, TypeOK, StoredResponses, OneAtATime, KeyTaken, OwnAnswersStand,
       AnsweredAtEnd, ReplaysAreResponses, Undisturbed

(* Every step preserves the invariant.                                     *)
LEMMA NextPreservesIInv == IInv /\ [Next]_vars => IInv'
<1> SUFFICES ASSUME IInv, [Next]_vars
             PROVE  IInv'
    OBVIOUS
<1>1. ASSUME NEW r \in Requests, Arrive(r) \/ Crash(r)
      PROVE  IInv'
    BY <1>1, ArrivePreservesIInv, CrashPreservesIInv
<1>2. ASSUME NEW r \in Requests, MiddlewareStep(r)
      PROVE  IInv'
    BY <1>2, LookupPreservesIInv, LookupFailsPreservesIInv, ReservePreservesIInv,
       DeletePreservesIInv, SavePreservesIInv
    DEF MiddlewareStep, Unanswered
<1>3. ASSUME NEW r \in Requests, Handler(r)
      PROVE  IInv'
    BY <1>3, HandlerReturnsPreservesIInv, HandlerFailsPreservesIInv,
       HandlerPanicsPreservesIInv
    DEF Handler
<1> QED
    BY <1>1, <1>2, <1>3, ExpirePreservesIInv, StutterPreservesIInv DEF Next, AllEnded

(* The strengthened invariant holds in every reachable state.              *)
THEOREM Invariance == Spec => []IInv
BY InitIInv, NextPreservesIInv, PTL DEF Spec

(* Every variable keeps its shape.                                         *)
THEOREM TypeCorrect == Spec => []TypeOK
<1>1. IInv => TypeOK
    BY DEF IInv
<1> QED
    BY <1>1, Invariance, PTL

(* However commands interleave, get lost or are applied unheard, only the  *)
(* response of a handler that succeeded is replayed, under its own key.    *)
THEOREM ResponsesReplayed == Spec => []ReplaysAreResponses
<1>1. IInv => ReplaysAreResponses
    BY DEF IInv
<1> QED
    BY <1>1, Invariance, PTL

(* Two requests with one key are both answered by the handler only if they *)
(* were past the lookup at the same time or the entry expired.             *)
THEOREM OneHandlerAnswers == Spec => []OwnAnswersNeedRaceOrExpiry
<1>1. IInv => OwnAnswersNeedRaceOrExpiry
    BY DEF IInv, OwnAnswersStand, OwnAnswersNeedRaceOrExpiry, OneOwnAnswer, Undisturbed
<1> QED
    BY <1>1, Invariance, PTL

(* A stored response that nobody is working against stays until its TTL.   *)
LEMMA StepKeepsSettled ==
    ASSUME TypeOK, [Next]_vars, NEW k \in Keys, Settled(k), k \notin expired'
    PROVE  Settled(k)' /\ store'[k] = store[k]
<1>1. CASE UNCHANGED vars
    BY <1>1 DEF vars, Settled
<1>2. ASSUME NEW r \in Requests, KeyOf[r] # k,
             Arrive(r) \/ MiddlewareStep(r) \/ Handler(r) \/ Crash(r)
      PROVE  Settled(k)' /\ store'[k] = store[k]
  <2>1. store'[k] = store[k] /\ \A s \in Requests \ {r} : pc'[s] = pc[s]
      BY <1>2, KeyOfAssumption
      DEF TypeOK, Arrive, MiddlewareStep, Unanswered, Handler, Crash, Lookup, LookupFails,
          Reserve, ReserveFails, HandlerReturns, HandlerFails, HandlerPanics, Cleanup,
          Save, SaveFails, Discard, MaybeStore, Goto, End
  <2> QED
      BY <1>2, <2>1 DEF Settled
<1>3. ASSUME NEW r \in Requests, KeyOf[r] = k,
             Arrive(r) \/ MiddlewareStep(r) \/ Handler(r) \/ Crash(r)
      PROVE  Settled(k)' /\ store'[k] = store[k]
  <2>1. pc[r] \notin Working /\ store[k] # Absent
      BY <1>3, EntriesAssumption DEF Settled
  <2>2. Arrive(r) \/ Lookup(r) \/ LookupFails(r) \/ Crash(r)
      BY <1>3, <2>1
      DEF MiddlewareStep, Unanswered, Handler, Reserve, ReserveFails, HandlerReturns,
          HandlerFails, HandlerPanics, Cleanup, Save, SaveFails, Discard, Working
  <2>3. UNCHANGED store /\ pc' \in {[pc EXCEPT ![r] = s] : s \in {"lookup", "done", "crashed"}}
      BY <1>3, <2>1, <2>2 DEF Arrive, Lookup, LookupFails, Crash, Goto, End
  <2> QED
      BY <2>3 DEF TypeOK, Settled, Working
<1>4. ASSUME NEW j \in Keys, Expire(j)
      PROVE  Settled(k)' /\ store'[k] = store[k]
    BY <1>4 DEF Expire, TypeOK, Settled
<1> QED
    BY <1>1, <1>2, <1>3, <1>4 DEF Next, AllEnded

(* Nothing but the TTL removes or replaces such a response.                *)
THEOREM SettledResponsesStay == Spec => SettledUntilExpiry
<1>1. TypeOK /\ [Next]_vars =>
        [\A k \in Keys :
            (Settled(k) /\ k \notin expired') =>
                (Settled(k)' /\ store'[k] = store[k])]_vars
    BY StepKeepsSettled
<1> QED
    BY <1>1, TypeCorrect, PTL DEF Spec, SettledUntilExpiry

=============================================================================
