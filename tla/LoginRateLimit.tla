--------------------------- MODULE LoginRateLimit ---------------------------
(***************************************************************************)
(* internal/middleware/login_rate_limit.go: a Redis counter per phone      *)
(* number, INCR by every login, with EXPIRE as a second command sent by    *)
(* the login that made the counter.  Either may fail before or after it is *)
(* applied, and the process may die between them.  Counters of different   *)
(* phones do not interact.  The names are its own, so that LoginProofs can *)
(* extend it beside Sessions.                                              *)
(***************************************************************************)
EXTENDS Integers, FiniteSets

CONSTANTS
    Logins, \* of one phone number, each made at most once
    MaxPerMin

ASSUME MaxPerMinAssumption == MaxPerMin \in Nat \ {0}

VARIABLES
    counter,  \* the Redis counter, 0 when there is no key
    ttl,      \* whether the key has a TTL
    progress, \* what each login does next
    ticket,   \* the cnt each login was answered
    verdict,  \* what became of each login
    window,   \* history: logins counted since the key was made
    lost      \* history: the EXPIRE of this key was never applied

limitVars == <<counter, ttl, progress, ticket, verdict, window, lost>>

-----------------------------------------------------------------------------

LimitStages == {"idle", "expire", "decide", "done"}

(* "open": let through because the cache failed.                           *)
Verdicts == {"none", "admitted", "refused", "open"}

LimitInit ==
    /\ counter = 0
    /\ ttl = FALSE
    /\ progress = [r \in Logins |-> "idle"]
    /\ ticket = [r \in Logins |-> 0]
    /\ verdict = [r \in Logins |-> "none"]
    /\ window = {}
    /\ lost = FALSE

Proceed(r, stage) == progress' = [progress EXCEPT ![r] = stage]

(* INCR; only the login that is answered 1 goes on to EXPIRE.              *)
Incr(r) ==
    /\ progress[r] = "idle"
    /\ counter' = counter + 1
    /\ ticket' = [ticket EXCEPT ![r] = counter + 1]
    /\ window' = window \cup {r}
    /\ Proceed(r, IF counter = 0 THEN "expire" ELSE "decide")
    /\ UNCHANGED <<ttl, verdict, lost>>

(* An error of INCR lets the login through.                                *)
IncrFails(r) ==
    /\ progress[r] = "idle"
    /\ \/ UNCHANGED <<counter, lost>>
       \/ /\ counter' = counter + 1
          /\ lost' = (lost \/ counter = 0)
    /\ verdict' = [verdict EXCEPT ![r] = "open"]
    /\ Proceed(r, "done")
    /\ UNCHANGED <<ttl, ticket, window>>

SetTTLOfOtherKey(r) ==  \* mutant: EXPIRE names another key
    /\ progress[r] = "expire"
    /\ Proceed(r, "decide")
    /\ UNCHANGED <<counter, ttl, ticket, verdict, window, lost>>

(* EXPIRE, one minute.                                                     *)
SetTTL(r) ==
    /\ progress[r] = "expire"
    /\ ttl' = TRUE
    /\ Proceed(r, "decide")
    /\ UNCHANGED <<counter, ticket, verdict, window, lost>>

(* The result of EXPIRE is not looked at.                                  *)
SetTTLFails(r) ==
    /\ progress[r] = "expire"
    /\ lost' = TRUE
    /\ Proceed(r, "decide")
    /\ UNCHANGED <<counter, ttl, ticket, verdict, window>>

DecideOneMore(r) ==  \* mutant: one login too many
    /\ progress[r] = "decide"
    /\ verdict' = [verdict EXCEPT ![r] =
                       IF ticket[r] > MaxPerMin + 1 THEN "refused" ELSE "admitted"]
    /\ Proceed(r, "done")
    /\ UNCHANGED <<counter, ttl, ticket, window, lost>>

Decide(r) ==
    /\ progress[r] = "decide"
    /\ verdict' = [verdict EXCEPT ![r] =
                       IF ticket[r] > MaxPerMin THEN "refused" ELSE "admitted"]
    /\ Proceed(r, "done")
    /\ UNCHANGED <<counter, ttl, ticket, window, lost>>

(* The process dies under the login.                                       *)
Crash(r) ==
    /\ progress[r] \in {"expire", "decide"}
    /\ lost' = (lost \/ progress[r] = "expire")
    /\ Proceed(r, "done")
    /\ UNCHANGED <<counter, ttl, ticket, verdict, window>>

ExpireValueOnly ==  \* mutant: the counter is set to 0 and keeps its TTL
    /\ ttl
    /\ counter' = 0
    /\ window' = {}
    /\ UNCHANGED <<ttl, progress, ticket, verdict, lost>>

(* The minute is over.                                                     *)
Expire ==
    /\ ttl
    /\ counter' = 0
    /\ ttl' = FALSE
    /\ window' = {}
    /\ UNCHANGED <<progress, ticket, verdict, lost>>

AllJudged ==
    /\ \A r \in Logins : progress[r] = "done"
    /\ UNCHANGED limitVars

LimitNext ==
    \/ \E r \in Logins :
        \/ Incr(r) \/ IncrFails(r)
        \/ SetTTL(r) \/ SetTTLFails(r)
        \/ Decide(r) \/ Crash(r)
    \/ Expire
    \/ AllJudged

LimitSpec == LimitInit /\ [][LimitNext]_limitVars

(* Redis expires keys that have a TTL; a login goes on or dies.            *)
FairLimitSpec ==
    /\ LimitSpec
    /\ WF_limitVars(Expire)
    /\ \A r \in Logins : WF_limitVars(SetTTL(r))

-----------------------------------------------------------------------------
(* Properties.                                                             *)

(* The shape of every variable; a TTL belongs to a key that exists.        *)
LimitTypeOK ==
    /\ counter \in Nat
    /\ ttl \in BOOLEAN
    /\ ttl => counter > 0
    /\ progress \in [Logins -> LimitStages]
    /\ ticket \in [Logins -> Nat]
    /\ verdict \in [Logins -> Verdicts]
    /\ window \in SUBSET Logins
    /\ lost \in BOOLEAN

(* However logins race and whenever the answer comes, no more of those     *)
(* counted in one window are admitted than the limit.                      *)
AtMostMaxPerWindow ==
    Cardinality({r \in window : verdict[r] = "admitted"}) <= MaxPerMin

(* "try again later": the counter goes away, so that a refused phone is    *)
(* admitted again, unless the EXPIRE of its key was lost.                  *)
CounterExpiresUnlessLost == (counter > 0) ~> (counter = 0 \/ lost)

-----------------------------------------------------------------------------
(* The inductive invariant behind LoginProofs.                             *)

(* One login at most is about to set the TTL, that of a key without one.   *)
OneSetsTTL ==
    \A r \in Logins :
        progress[r] = "expire" =>
            /\ counter > 0
            /\ ~ttl
            /\ \A s \in Logins : progress[s] = "expire" => s = r

(* A counter has a TTL, or is about to be given one, unless that was lost. *)
CounterMayEnd ==
    counter > 0 => ttl \/ lost \/ \E r \in Logins : progress[r] = "expire"

(* The logins of a window hold different numbers up to the counter.        *)
TicketsDiffer ==
    /\ \A r \in window : progress[r] # "idle" /\ ticket[r] > 0 /\ ticket[r] <= counter
    /\ \A r, s \in window : ticket[r] = ticket[s] => r = s

(* Whoever is admitted has a number within the limit.                      *)
AdmittedWithinLimit ==
    \A r \in Logins :
        /\ progress[r] # "done" => verdict[r] = "none"
        /\ verdict[r] = "admitted" => ticket[r] <= MaxPerMin

LimitIInv ==
    /\ LimitTypeOK
    /\ OneSetsTTL
    /\ CounterMayEnd
    /\ TicketsDiffer
    /\ AdmittedWithinLimit

=============================================================================
