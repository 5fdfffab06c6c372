---------------------------- MODULE Idempotency ----------------------------
(***************************************************************************)
(* internal/middleware/idempotency.go: the middleware in front of every    *)
(* unsafe HTTP method.  It looks the Idempotency-Key up in Redis, reserves *)
(* it with a marker, runs the handler, and stores the response or deletes  *)
(* the marker.  Every Redis command is one step: commands of requests that *)
(* carry the same key interleave, a command may fail before or after Redis *)
(* has applied it, entries expire, and the process may die at any point.   *)
(*                                                                         *)
(* The handler is left open: it returns a response, an error, or panics    *)
(* (recover.New, outermost in routes.go, turns the panic into a 500).      *)
(***************************************************************************)
EXTENDS FiniteSets

CONSTANTS
    Requests,  \* HTTP requests with an unsafe method and a key
    Keys,      \* values of the Idempotency-Key header
    KeyOf,     \* the key of each request
    NoRequest,
    Absent,    \* no Redis entry
    Marker     \* inProgressMarker

ASSUME KeyOfAssumption == KeyOf \in [Requests -> Keys]

ASSUME EntriesAssumption ==
    /\ NoRequest \notin Requests
    /\ Absent \notin Requests
    /\ Marker \notin Requests
    /\ Absent # Marker

VARIABLES
    store,     \* the Redis entry of each key; a response is named by its request
    pc,        \* what each request does next
    answer,    \* what each request was answered
    succeeded, \* requests whose handler returned a response
    raced,     \* history: keys that two requests worked on at the same time
    expired    \* history: keys whose entry has expired

vars == <<store, pc, answer, succeeded, raced, expired>>

-----------------------------------------------------------------------------

(* Past the lookup: the request has found no entry for its key.            *)
Working == {"reserve", "handler", "save", "discard", "cleanup"}

Ended == {"done", "crashed"}

Stages == {"idle", "lookup"} \cup Working \cup Ended

Statuses == {"none", "own", "replay", "conflict", "storeError", "handlerError",
             "panic", "persistError"}

Answers == [status: Statuses, from: Requests \cup {NoRequest}]

Plain(status) == [status |-> status, from |-> NoRequest]

Response(status, q) == [status |-> status, from |-> q]

Entries == Requests \cup {Absent, Marker}

Init ==
    /\ store = [k \in Keys |-> Absent]
    /\ pc = [r \in Requests |-> "idle"]
    /\ answer = [r \in Requests |-> Plain("none")]
    /\ succeeded = {}
    /\ raced = {}
    /\ expired = {}

Goto(r, stage) == pc' = [pc EXCEPT ![r] = stage]

End(r, a) ==
    /\ Goto(r, "done")
    /\ answer' = [answer EXCEPT ![r] = a]

(* A Redis command whose effect on the entry of r is e, or which failed    *)
(* before it reached the server.                                           *)
MaybeStore(r, e) ==
    \/ store' = [store EXCEPT ![KeyOf[r]] = e]
    \/ UNCHANGED store

(* SETNX                                                                   *)
Reserved(r) == IF store[KeyOf[r]] = Absent THEN Marker ELSE store[KeyOf[r]]

OthersWorking(r) ==
    \E s \in Requests \ {r} : KeyOf[s] = KeyOf[r] /\ pc[s] \in Working

-----------------------------------------------------------------------------

Arrive(r) ==
    /\ pc[r] = "idle"
    /\ Goto(r, "lookup")
    /\ UNCHANGED <<store, answer, succeeded, raced, expired>>

LookupReplaysMarker(r) ==  \* mutant: the marker is taken for a response
    LET entry == store[KeyOf[r]]
    IN
    /\ pc[r] = "lookup"
    /\ \/ /\ entry # Absent
          /\ End(r, Response("replay", entry))
       \/ /\ entry = Absent
          /\ Goto(r, "reserve")
          /\ UNCHANGED answer
    /\ UNCHANGED <<store, succeeded, raced, expired>>

(* cache.Get: 409 on the marker, the stored response, or redis.Nil.        *)
Lookup(r) ==
    LET entry == store[KeyOf[r]]
    IN
    /\ pc[r] = "lookup"
    /\ \/ /\ entry = Marker
          /\ End(r, Plain("conflict"))
          /\ UNCHANGED raced
       \/ /\ entry \in Requests
          /\ End(r, Response("replay", entry))
          /\ UNCHANGED raced
       \/ /\ entry = Absent
          /\ Goto(r, "reserve")
          /\ raced' = IF OthersWorking(r) THEN raced \cup {KeyOf[r]} ELSE raced
          /\ UNCHANGED answer
    /\ UNCHANGED <<store, succeeded, expired>>

LookupFailsOpen(r) ==  \* mutant: any error of Get counts as redis.Nil
    /\ pc[r] = "lookup"
    /\ Goto(r, "reserve")
    /\ UNCHANGED <<store, answer, succeeded, raced, expired>>

LookupFails(r) ==
    /\ pc[r] = "lookup"
    /\ End(r, Plain("storeError"))
    /\ UNCHANGED <<store, succeeded, raced, expired>>

(* cache.SetNX: only the error is looked at, not whether the key was set.  *)
Reserve(r) ==
    /\ pc[r] = "reserve"
    /\ store' = [store EXCEPT ![KeyOf[r]] = Reserved(r)]
    /\ Goto(r, "handler")
    /\ UNCHANGED <<answer, succeeded, raced, expired>>

ReserveFails(r) ==
    /\ pc[r] = "reserve"
    /\ MaybeStore(r, Reserved(r))
    /\ End(r, Plain("storeError"))
    /\ UNCHANGED <<succeeded, raced, expired>>

(* c.Next returns nil, an error, or panics past the middleware.            *)
HandlerReturns(r) ==
    /\ pc[r] = "handler"
    /\ Goto(r, "save")
    /\ succeeded' = succeeded \cup {r}
    /\ UNCHANGED <<store, answer, raced, expired>>

HandlerErrorStored(r) ==  \* mutant: the response is stored after an error too
    /\ pc[r] = "handler"
    /\ Goto(r, "save")
    /\ UNCHANGED <<store, answer, succeeded, raced, expired>>

HandlerFails(r) ==
    /\ pc[r] = "handler"
    /\ Goto(r, "cleanup")
    /\ UNCHANGED <<store, answer, succeeded, raced, expired>>

HandlerPanics(r) ==
    /\ pc[r] = "handler"
    /\ End(r, Plain("panic"))
    /\ UNCHANGED <<store, succeeded, raced, expired>>

(* cache.Del on the error of the handler, best effort.                     *)
Cleanup(r) ==
    /\ pc[r] = "cleanup"
    /\ MaybeStore(r, Absent)
    /\ End(r, Plain("handlerError"))
    /\ UNCHANGED <<succeeded, raced, expired>>

(* cache.Set of the response.                                              *)
Save(r) ==
    /\ pc[r] = "save"
    /\ store' = [store EXCEPT ![KeyOf[r]] = r]
    /\ End(r, Response("own", r))
    /\ UNCHANGED <<succeeded, raced, expired>>

SaveFails(r) ==
    /\ pc[r] = "save"
    /\ MaybeStore(r, r)
    /\ Goto(r, "discard")
    /\ UNCHANGED <<answer, succeeded, raced, expired>>

(* cache.Del after Set failed; the context may be used up by then.         *)
Discard(r) ==
    /\ pc[r] = "discard"
    /\ MaybeStore(r, Absent)
    /\ End(r, Plain("persistError"))
    /\ UNCHANGED <<succeeded, raced, expired>>

(* The process dies under the request.                                     *)
Crash(r) ==
    /\ pc[r] \notin Ended \cup {"idle"}
    /\ Goto(r, "crashed")
    /\ UNCHANGED <<store, answer, succeeded, raced, expired>>

ExpireResponses(k) ==  \* mutant: the marker is set without a TTL
    /\ store[k] \in Requests
    /\ store' = [store EXCEPT ![k] = Absent]
    /\ expired' = expired \cup {k}
    /\ UNCHANGED <<pc, answer, succeeded, raced>>

(* The TTL of an entry runs out; a handler may still be running.           *)
Expire(k) ==
    /\ store[k] # Absent
    /\ store' = [store EXCEPT ![k] = Absent]
    /\ expired' = expired \cup {k}
    /\ UNCHANGED <<pc, answer, succeeded, raced>>

-----------------------------------------------------------------------------

(* The commands that may go without an answer.                             *)
Unanswered(r) ==
    \/ LookupFails(r) \/ ReserveFails(r)
    \/ Cleanup(r) \/ SaveFails(r) \/ Discard(r)

MiddlewareStep(r) == Lookup(r) \/ Reserve(r) \/ Save(r) \/ Unanswered(r)

Handler(r) == HandlerReturns(r) \/ HandlerFails(r) \/ HandlerPanics(r)

AllEnded ==
    /\ \A r \in Requests : pc[r] \in Ended
    /\ \A k \in Keys : store[k] = Absent
    /\ UNCHANGED vars

Next ==
    \/ \E r \in Requests :
        Arrive(r) \/ MiddlewareStep(r) \/ Handler(r) \/ Crash(r)
    \/ \E k \in Keys : Expire(k)
    \/ AllEnded

Spec == Init /\ [][Next]_vars

(* Redis expires entries that carry a TTL.                                 *)
FairSpec == Spec /\ \A k \in Keys : WF_vars(Expire(k))

-----------------------------------------------------------------------------
(* Properties.                                                             *)

(* The shape of every variable.                                            *)
TypeOK ==
    /\ store \in [Keys -> Entries]
    /\ pc \in [Requests -> Stages]
    /\ answer \in [Requests -> Answers]
    /\ succeeded \in SUBSET Requests
    /\ raced \in SUBSET Keys
    /\ expired \in SUBSET Keys

(* Only a response of a handler that succeeded is ever replayed, to        *)
(* requests with the same key: never an error, never the marker.           *)
ReplaysAreResponses ==
    \A r \in Requests :
        answer[r].status = "replay" =>
            answer[r].from \in succeeded /\ KeyOf[answer[r].from] = KeyOf[r]

(* Of all requests with one key, one is answered by running the handler,   *)
(* unless two were past the lookup at the same time or the entry expired.  *)
OneOwnAnswer(k) ==
    \A r, s \in Requests :
        (KeyOf[r] = k /\ KeyOf[s] = k
            /\ answer[r].status = "own" /\ answer[s].status = "own") => r = s

OwnAnswersNeedRaceOrExpiry ==
    \A k \in Keys : OneOwnAnswer(k) \/ k \in raced \/ k \in expired

(* A stored response that nobody is working against is final: unless the   *)
(* TTL removes it, no later request gets past the lookup.                  *)
Settled(k) ==
    /\ store[k] \in Requests
    /\ \A r \in Requests : KeyOf[r] = k => pc[r] \notin Working

SettledUntilExpiry ==
    [][\A k \in Keys :
        (Settled(k) /\ k \notin expired') =>
            (Settled(k)' /\ store'[k] = store[k])]_vars

(* A key is never blocked for good: the marker goes away even when the     *)
(* request that set it crashed, panicked or never heard of it.             *)
ReservationEnds == \A k \in Keys : store[k] = Marker ~> store[k] # Marker

(* "Second request should return the cached response without invoking      *)
(* handler again" (idempotency_test.go): one handler run answers per key.  *)
HandlerAnswersOnce == \A k \in Keys : k \in expired \/ OneOwnAnswer(k)

-----------------------------------------------------------------------------
(* The inductive invariant behind IdempotencyProofs.                       *)

Undisturbed(k) == k \notin raced \cup expired

(* What is stored under a key, or about to be, is the response of a        *)
(* request with that key whose handler succeeded.                          *)
StoredResponses ==
    /\ \A k \in Keys :
        store[k] \in Requests => store[k] \in succeeded /\ KeyOf[store[k]] = k
    /\ \A r \in Requests : pc[r] \in {"save", "discard"} => r \in succeeded

(* Requests past the lookup of one key at the same time have raced.        *)
OneAtATime ==
    \A r, s \in Requests :
        (pc[r] \in Working /\ pc[s] \in Working /\ KeyOf[r] = KeyOf[s]) =>
            r = s \/ KeyOf[r] \in raced

(* From its SETNX to its last command a request finds its key taken.       *)
KeyTaken ==
    \A r \in Requests :
        (pc[r] \in Working \ {"reserve"} /\ Undisturbed(KeyOf[r])) =>
            store[KeyOf[r]] # Absent

(* An own answer is the stored response, which lets nobody else past the   *)
(* lookup.                                                                 *)
OwnAnswersStand ==
    \A r \in Requests :
        answer[r].status = "own" =>
            /\ answer[r].from = r
            /\ r \in succeeded
            /\ Undisturbed(KeyOf[r]) =>
                /\ store[KeyOf[r]] = r
                /\ \A s \in Requests : KeyOf[s] = KeyOf[r] => pc[s] \notin Working

AnsweredAtEnd == \A r \in Requests : pc[r] # "done" => answer[r].status = "none"

IInv ==
    /\ TypeOK
    /\ StoredResponses
    /\ OneAtATime
    /\ KeyTaken
    /\ OwnAnswersStand
    /\ AnsweredAtEnd
    /\ ReplaysAreResponses

=============================================================================
