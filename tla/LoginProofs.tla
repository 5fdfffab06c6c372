----------------------------- MODULE LoginProofs -----------------------------
(***************************************************************************)
(* Proofs about what a login leads to and what stands before it.           *)
(*                                                                         *)
(* Sessions: a logout is final and a user bound to one device, for any     *)
(* number of requests and devices, unless writers overlap.  First what     *)
(* every step that starts a request does, then one lemma for each action;  *)
(* the theorems follow.                                                    *)
(*                                                                         *)
(* LoginRateLimit: for any number of logins and any limit, the bound on    *)
(* what a window admits is a counting argument: the logins of a window     *)
(* hold different numbers, and those that are admitted hold numbers from 1 *)
(* to the limit.                                                           *)
(***************************************************************************)
EXTENDS Sessions, LoginRateLimit, FunctionTheorems, FiniteSetTheorems, TLAPS

LEMMA InitIInv == Init => IInv
BY NoDeviceAssumption
DEF Init, IInv, TypeOK, Stages, UnderWay, RequestKinds, NoToken, Issued, KindsMatch,
    RecordedTogether, VersionGrows, BoundOnce, Named

(* The first read of a request: it overlaps with all that are under way,   *)
(* and whoever overlapped before still does.                               *)
LEMMA StartRecords ==
    ASSUME IInv, NEW r \in Requests, NEW k \in RequestKinds, NEW stage \in UnderWay,
           Start(r, k, stage)
    PROVE  /\ together' \in SUBSET SUBSET Requests
           /\ RecordedTogether'
           /\ \A s, t \in Requests : Overlapped(s, t) => Overlapped(s, t)'
           /\ \A s \in Requests : (pc[s] \in UnderWay /\ s # r) => Overlapped(r, s)'
<1>1. together' = together \cup {{r, s} : s \in {s \in Requests : pc[s] \in UnderWay}}
    BY DEF Start
<1>2. \A s \in Requests : (pc[s] \in UnderWay /\ s # r) => Overlapped(r, s)'
    BY <1>1 DEF Overlapped
<1>3. \A s, t \in Requests : Overlapped(s, t) => Overlapped(s, t)'
    BY <1>1 DEF Overlapped
<1>4. RecordedTogether'
  <2> SUFFICES ASSUME NEW s \in Requests, NEW t \in Requests,
                      pc'[s] \in UnderWay, pc'[t] \in UnderWay, s # t
               PROVE  Overlapped(s, t)'
      BY DEF RecordedTogether
  <2>1. \A u \in Requests \ {r} : pc'[u] = pc[u]
      BY DEF Start, Goto, IInv, TypeOK
  <2>2. CASE s # r /\ t # r
      BY <1>3, <2>1, <2>2 DEF IInv, RecordedTogether
  <2>3. CASE s = r
      BY <1>2, <2>1, <2>3
  <2>4. CASE t = r
    <3>1. Overlapped(t, s)'
        BY <1>2, <2>1, <2>4
    <3> QED
        BY <3>1 DEF Overlapped
  <2> QED
      BY <2>2, <2>3, <2>4
<1>5. together' \in SUBSET SUBSET Requests
    BY <1>1 DEF IInv, TypeOK
<1> QED
    BY <1>2, <1>3, <1>4, <1>5

(* A request that starts: k is what it is, stage where it goes on, d the   *)
(* device it names, q the session it continues.                            *)
LEMMA StartPreservesIInv ==
    ASSUME IInv, NEW r \in Requests, NEW k \in RequestKinds, NEW stage \in UnderWay,
           NEW d \in Devices \cup {NoDevice}, NEW q \in Requests,
           Start(r, k, stage),
           given' = [given EXCEPT ![r] = d],
           session' = [session EXCEPT ![r] = q],
           UNCHANGED <<device, version, token, revoked>>,
           stage \in {"bind", "signPair"} => k = "login" /\ q = r,
           stage = "signAccess" => k = "refresh" /\ (q \notin revoked \/ LogoutsOverlapped),
           stage = "bump" => k = "logout",
           k = "login" => stage \in {"bind", "signPair"},
           stage = "bind" => d # NoDevice /\ device = NoDevice,
           stage = "signPair" => d \in {device, NoDevice}
    PROVE  IInv'
<1>1. /\ pc[r] = "idle" /\ kind[r] = "none" /\ session[r] = r /\ r \notin Issued
      /\ pc'[r] = stage /\ kind'[r] = k /\ given'[r] = d
      /\ seen'[r] = version /\ session'[r] = q
    BY DEF Start, Goto, IInv, TypeOK, KindsMatch
<1>2. \A s \in Requests \ {r} :
        /\ pc'[s] = pc[s] /\ kind'[s] = kind[s] /\ given'[s] = given[s]
        /\ seen'[s] = seen[s] /\ session'[s] = session[s]
    BY DEF Start, Goto, IInv, TypeOK
<1>3. Issued' = Issued /\ Issued \subseteq Requests
    BY DEF Issued
<1>4. TypeOK'
    BY StartRecords DEF Start, Goto, IInv, TypeOK, Stages
<1>5. KindsMatch'
    BY <1>1, <1>2, <1>3 DEF IInv, KindsMatch, UnderWay
<1>6. RecordedTogether'
    BY StartRecords
<1>7. revoked' \subseteq Issued'
    BY <1>3 DEF IInv
<1>8. VersionGrows'
  <2>1. CASE LogoutsOverlapped
    <3>1. PICK s, t \in Requests :
            Overlapped(s, t) /\ kind[s] = "logout" /\ kind[t] = "logout"
        BY <2>1 DEF LogoutsOverlapped
    <3>2. Overlapped(s, t)' /\ kind'[s] = "logout" /\ kind'[t] = "logout"
        BY <1>1, <1>2, <3>1, StartRecords
    <3> QED
        BY <3>2 DEF VersionGrows, LogoutsOverlapped
  <2>2. CASE ~LogoutsOverlapped
    <3>1. token[r] <= version /\ version <= version
        BY <2>2 DEF IInv, TypeOK, VersionGrows
    <3>2. r \notin revoked
        BY <1>1 DEF IInv
    <3> QED
        BY <1>1, <1>2, <1>3, <2>2, <3>1, <3>2 DEF IInv, VersionGrows, UnderWay
  <2> QED
      BY <2>1, <2>2
<1>9. BoundOnce'
  <2>1. CASE BindingsOverlapped
    <3>1. PICK s, t \in Requests :
            Overlapped(s, t) /\ Named(s) /\ Named(t) /\ given[s] # given[t]
        BY <2>1 DEF BindingsOverlapped
    <3>2. Overlapped(s, t)' /\ s # r /\ t # r
        BY <1>1, <3>1, StartRecords DEF Named
    <3> QED
        BY <1>2, <3>1, <3>2 DEF BoundOnce, BindingsOverlapped, Named
  <2>2. CASE ~BindingsOverlapped /\ \E s \in Requests :
               pc[s] = "bind" /\ stage = "bind" /\ given[s] # d
    <3>1. PICK s \in Requests : pc[s] = "bind" /\ stage = "bind" /\ given[s] # d
        BY <2>2
    <3>2. Overlapped(r, s)' /\ s # r
        BY <1>1, <3>1, StartRecords DEF UnderWay
    <3>3. Named(r)' /\ Named(s)' /\ given'[r] # given'[s]
        BY <1>1, <1>2, <3>1, <3>2 DEF Named, IInv, KindsMatch
    <3> QED
        BY <3>2, <3>3 DEF BoundOnce, BindingsOverlapped
  <2>3. CASE ~BindingsOverlapped /\ \A s \in Requests :
               (pc[s] = "bind" /\ stage = "bind") => given[s] = d
      BY <1>1, <1>2, <1>3, <2>3 DEF IInv, BoundOnce, Named
  <2> QED
      BY <2>1, <2>2, <2>3
<1> QED
    BY <1>4, <1>5, <1>6, <1>7, <1>8, <1>9 DEF IInv

(* The login, whichever device is bound.                                   *)
LEMMA LoginPreservesIInv ==
    ASSUME IInv, NEW r \in Requests, LoginUnbound(r) \/ LoginBound(r)
    PROVE  IInv'
<1>1. session' = [session EXCEPT ![r] = r]
    BY DEF LoginUnbound, LoginBound, Start, IInv, TypeOK, KindsMatch
<1>2. PICK d \in Devices \cup {NoDevice}, stage \in {"bind", "signPair"} :
        /\ given' = [given EXCEPT ![r] = d]
        /\ Start(r, "login", stage)
        /\ stage = "bind" => d # NoDevice /\ device = NoDevice
        /\ stage = "signPair" => d \in {device, NoDevice}
  <2>1. CASE LoginUnbound(r)
      BY <2>1, NoDeviceAssumption DEF LoginUnbound
  <2>2. CASE LoginBound(r)
    <3>1. PICK d \in {device, NoDevice} : given' = [given EXCEPT ![r] = d]
        BY <2>2 DEF LoginBound
    <3>2. d \in Devices \cup {NoDevice} /\ Start(r, "login", "signPair")
        BY <2>2 DEF LoginBound, IInv, TypeOK
    <3> QED
        BY <3>1, <3>2
  <2> QED
      BY <2>1, <2>2
<1>3. UNCHANGED <<device, version, token, revoked>>
    BY DEF LoginUnbound, LoginBound, userVars
<1>4. "login" \in RequestKinds /\ stage \in UnderWay
    BY DEF RequestKinds, UnderWay
<1> QED
    BY <1>1, <1>2, <1>3, <1>4, StartPreservesIInv

(* A refresh continues the session of a token that is accepted, so none    *)
(* that has been revoked.                                                  *)
LEMMA RefreshPreservesIInv ==
    ASSUME IInv, NEW r \in Requests, Refresh(r)
    PROVE  IInv'
<1>1. PICK q \in Issued :
        /\ Accepted(q)
        /\ session' = [session EXCEPT ![r] = session[q]]
        /\ Start(r, "refresh", "signAccess")
        /\ UNCHANGED <<userVars, given, token, revoked>>
    BY DEF Refresh
<1>2. session[q] \in Requests /\ given[r] \in Devices \cup {NoDevice}
    BY DEF Issued, IInv, TypeOK
<1>3. session[q] \notin revoked \/ LogoutsOverlapped
    BY <1>1 DEF IInv, TypeOK, VersionGrows, Accepted, Issued
<1>4. given' = [given EXCEPT ![r] = given[r]] /\ UNCHANGED <<device, version, token, revoked>>
    BY <1>1 DEF IInv, TypeOK, userVars
<1>5. "refresh" \in RequestKinds /\ "signAccess" \in UnderWay
    BY DEF RequestKinds, UnderWay
<1> QED
    BY <1>1, <1>2, <1>3, <1>4, <1>5, StartPreservesIInv

(* A logout that begins.                                                   *)
LEMMA LogoutPreservesIInv ==
    ASSUME IInv, NEW r \in Requests, Logout(r)
    PROVE  IInv'
<1>1. Start(r, "logout", "bump") /\ UNCHANGED <<userVars, given, session, token, revoked>>
    BY DEF Logout
<1>2. session[r] \in Requests /\ given[r] \in Devices \cup {NoDevice}
    BY DEF IInv, TypeOK
<1>3. /\ given' = [given EXCEPT ![r] = given[r]]
      /\ session' = [session EXCEPT ![r] = session[r]]
      /\ UNCHANGED <<device, version, token, revoked>>
    BY <1>1 DEF IInv, TypeOK, userVars
<1>4. "logout" \in RequestKinds /\ "bump" \in UnderWay
    BY DEF RequestKinds, UnderWay
<1> QED
    BY <1>1, <1>2, <1>3, <1>4, StartPreservesIInv

(* The device is bound: whoever else is about to bind names the same one.  *)
LEMMA BindPreservesIInv ==
    ASSUME IInv, NEW r \in Requests, NEW stage \in {"signPair", "done"},
           pc[r] = "bind",
           device' \in {device, given[r]},
           stage = "signPair" => device' = given[r],
           Goto(r, stage),
           UNCHANGED <<version, kind, given, seen, session, token, revoked, together>>
    PROVE  IInv'
<1> USE DEF Goto, IInv, TypeOK
<1>1. TypeOK'
    BY DEF Stages, UnderWay
<1>2. KindsMatch'
    BY DEF KindsMatch, Issued
<1>3. RecordedTogether'
    BY DEF RecordedTogether, Overlapped, UnderWay
<1>4. revoked' \subseteq Issued'
    BY DEF Issued
<1>5. VersionGrows'
    BY DEF VersionGrows, LogoutsOverlapped, Overlapped, Issued, UnderWay
<1>6. BoundOnce'
  <2>1. BindingsOverlapped' = BindingsOverlapped /\ Issued' = Issued
        /\ \A s \in Requests : Named(s)' = Named(s)
      BY DEF BindingsOverlapped, Overlapped, Named, Issued
  <2>2. \A s \in Requests \ {r} : pc'[s] = pc[s]
      OBVIOUS
  <2>3. given[r] # NoDevice
      BY DEF KindsMatch
  <2>4. CASE BindingsOverlapped
      BY <2>1, <2>4 DEF BoundOnce
  <2>5. CASE ~BindingsOverlapped
    <3>1. \A s \in Requests : pc[s] = "bind" => given[s] = given[r]
        BY <2>5 DEF BoundOnce
    <3>2. \A s \in Requests :
            (Named(s) /\ (pc[s] = "signPair" \/ s \in Issued)) => given[s] = device
        BY <2>5 DEF BoundOnce
    <3>3. \A s \in Requests :
            (Named(s) /\ (pc[s] = "signPair" \/ s \in Issued)) => given[s] = given[r]
        BY <2>3, <2>5, <3>2 DEF BoundOnce, Named
    <3>4. r \notin Issued
        BY DEF KindsMatch
    <3> QED
        BY <2>1, <2>2, <2>5, <3>1, <3>2, <3>3, <3>4 DEF BoundOnce
  <2> QED
      BY <2>4, <2>5
<1> QED
    BY <1>1, <1>2, <1>3, <1>4, <1>5, <1>6

(* A token is signed with the version that was read.                       *)
LEMMA SignPreservesIInv ==
    ASSUME IInv, NEW r \in Requests, SignPair(r) \/ SignAccess(r)
    PROVE  IInv'
<1>1. /\ pc[r] \in {"signPair", "signAccess"}
      /\ token' = [token EXCEPT ![r] = seen[r]]
      /\ Goto(r, "done")
      /\ UNCHANGED <<device, version, kind, given, seen, session, revoked, together>>
    BY DEF SignPair, SignAccess, userVars
<1>2. /\ r \notin Issued /\ r \notin revoked
      /\ Issued' = Issued \cup {r}
    BY <1>1 DEF Issued, IInv, TypeOK, KindsMatch, NoToken
<1> USE DEF Goto, IInv, TypeOK
<1>3. TypeOK'
    BY <1>1 DEF Stages
<1>4. KindsMatch'
    BY <1>1, <1>2 DEF KindsMatch
<1>5. RecordedTogether'
    BY <1>1 DEF RecordedTogether, Overlapped, UnderWay
<1>6. revoked' \subseteq Issued'
    BY <1>1, <1>2
<1>7. VersionGrows'
    BY <1>1, <1>2 DEF VersionGrows, LogoutsOverlapped, Overlapped, UnderWay, KindsMatch
<1>8. BoundOnce'
  <2>1. BindingsOverlapped' = BindingsOverlapped
        /\ \A s \in Requests : Named(s)' = Named(s)
      BY <1>1 DEF BindingsOverlapped, Overlapped, Named
  <2>2. Named(r) => pc[r] = "signPair"
      BY <1>1 DEF Named, KindsMatch
  <2> QED
      BY <1>1, <1>2, <2>1, <2>2 DEF BoundOnce
<1> QED
    BY <1>3, <1>4, <1>5, <1>6, <1>7, <1>8

(* The version is counted up; more is the session of every q of Q over.    *)
LEMMA BumpPreservesIInv ==
    ASSUME IInv, NEW r \in Requests, NEW Q \in SUBSET Issued,
           pc[r] = "bump",
           \/ version' = seen[r] + 1
           \/ version' = version /\ Q = {},
           revoked' = revoked \cup Q,
           Goto(r, "done"),
           UNCHANGED <<device, kind, given, seen, session, token, together>>
    PROVE  IInv'
<1> USE DEF Goto, IInv, TypeOK
<1>1. TypeOK'
    BY DEF Stages, Issued
<1>2. KindsMatch'
    BY DEF KindsMatch, Issued
<1>3. RecordedTogether'
    BY DEF RecordedTogether, Overlapped, UnderWay
<1>4. revoked' \subseteq Issued'
    BY DEF Issued
<1>5. VersionGrows'
  <2>1. LogoutsOverlapped' = LogoutsOverlapped /\ Issued' = Issued
      BY DEF LogoutsOverlapped, Overlapped, Issued
  <2>2. CASE LogoutsOverlapped
      BY <2>1, <2>2 DEF VersionGrows
  <2>3. CASE ~LogoutsOverlapped
    <3>1. \A s \in Requests \ {r} : pc[s] # "bump"
        BY <2>3 DEF RecordedTogether, LogoutsOverlapped, KindsMatch, UnderWay
    <3>2. version' = version \/ version' = version + 1
        BY <2>3 DEF VersionGrows
    <3>3. version' = version => Q = {}
        BY <2>3 DEF VersionGrows
    <3> QED
        BY <2>1, <2>3, <3>1, <3>2, <3>3 DEF VersionGrows, UnderWay, NoToken
  <2> QED
      BY <2>2, <2>3
<1>6. BoundOnce'
    BY DEF BoundOnce, BindingsOverlapped, Overlapped, Named, Issued
<1> QED
    BY <1>1, <1>2, <1>3, <1>4, <1>5, <1>6

(* A request refused at once, and a step that changes nothing.             *)
LEMMA QuietPreservesIInv ==
    ASSUME IInv,
           UNCHANGED <<device, version, kind, given, seen, session, token, revoked, together>>,
           \/ \E r \in Requests : pc[r] = "idle" /\ Goto(r, "done")
           \/ pc' = pc
    PROVE  IInv'
<1> USE DEF Goto, IInv, TypeOK
<1>1. TypeOK'
    BY DEF Stages
<1>2. KindsMatch'
    BY DEF KindsMatch, Issued
<1>3. RecordedTogether'
    BY DEF RecordedTogether, Overlapped, UnderWay
<1>4. VersionGrows'
    BY DEF VersionGrows, LogoutsOverlapped, Overlapped, Issued, UnderWay
<1>5. BoundOnce'
  <2>1. BindingsOverlapped' = BindingsOverlapped /\ Issued' = Issued
        /\ \A s \in Requests : Named(s)' = Named(s)
      BY DEF BindingsOverlapped, Overlapped, Named, Issued
  <2> QED
      BY <2>1 DEF BoundOnce
<1> QED
    BY <1>1, <1>2, <1>3, <1>4, <1>5 DEF Issued

(* A failed write ends its request, applied or not.                        *)
LEMMA WriteFailsPreservesIInv ==
    ASSUME IInv, NEW r \in Requests, WriteFails(r)
    PROVE  IInv'
<1>1. CASE pc[r] = "bind"
    BY <1>1, BindPreservesIInv DEF WriteFails
<1>2. CASE pc[r] = "bump"
  <2>1. revoked' = revoked \cup {} /\ {} \in SUBSET Issued
      BY DEF WriteFails
  <2> QED
      BY <1>2, <2>1, BumpPreservesIInv DEF WriteFails
<1> QED
    BY <1>1, <1>2 DEF WriteFails

(* Every step preserves the invariant.                                     *)
LEMMA NextPreservesIInv == IInv /\ [Next]_vars => IInv'
<1> SUFFICES ASSUME IInv, [Next]_vars
             PROVE  IInv'
    OBVIOUS
<1>1. CASE UNCHANGED vars
    BY <1>1, QuietPreservesIInv DEF vars, userVars, requestVars
<1>2. ASSUME NEW r \in Requests, Bind(r)
      PROVE  IInv'
    BY <1>2, BindPreservesIInv DEF Bind
<1>3. ASSUME NEW r \in Requests, Bump(r)
      PROVE  IInv'
    BY <1>3, BumpPreservesIInv DEF Bump
<1>4. ASSUME NEW r \in Requests, Refused(r)
      PROVE  IInv'
    BY <1>4, QuietPreservesIInv DEF Refused, userVars
<1> QED
    BY <1>1, <1>2, <1>3, <1>4, LoginPreservesIInv, RefreshPreservesIInv,
       LogoutPreservesIInv, SignPreservesIInv, WriteFailsPreservesIInv
    DEF Next, AllDone

(* The strengthened invariant holds in every reachable state.              *)
THEOREM Invariance == Spec => []IInv
BY InitIInv, NextPreservesIInv, PTL DEF Spec

(* Every variable keeps its shape; versions are never negative.            *)
THEOREM TypeCorrect == Spec => []TypeOK
<1>1. IInv => TypeOK
    BY DEF IInv
<1> QED
    BY <1>1, Invariance, PTL

(* A logout is final for every session that was over when it began, and    *)
(* for all that is refreshed from it, unless two logouts overlapped.       *)
THEOREM LogoutIsFinal == Spec => []LogoutRevokesUnlessOverlapped
<1>1. IInv => LogoutRevokesUnlessOverlapped
    BY DEF IInv, TypeOK, VersionGrows, LogoutRevokesUnlessOverlapped, LogoutRevokes,
           Accepted, Issued
<1> QED
    BY <1>1, Invariance, PTL

(* All logins that succeed and name a device name the same one, unless two *)
(* that named different ones overlapped.                                   *)
THEOREM OneDeviceBound == Spec => []OneDeviceUnlessOverlapped
<1>1. IInv => OneDeviceUnlessOverlapped
    BY DEF IInv, BoundOnce, OneDeviceUnlessOverlapped, OneDevice, Issued
<1> QED
    BY <1>1, Invariance, PTL

-----------------------------------------------------------------------------
(* The rate limit.  It shares no state with the sessions.                  *)

LEMMA LimitInitIInv == LimitInit => LimitIInv
<1> SUFFICES ASSUME LimitInit
             PROVE  LimitIInv
    OBVIOUS
<1>1. ttl \in BOOLEAN /\ ~ttl /\ lost \in BOOLEAN
    BY Zenon DEF LimitInit
<1>2. LimitTypeOK
    BY <1>1 DEF LimitInit, LimitTypeOK, LimitStages, Verdicts
<1>3. OneSetsTTL /\ CounterMayEnd /\ TicketsDiffer /\ AdmittedWithinLimit
    BY DEF LimitInit, OneSetsTTL, CounterMayEnd, TicketsDiffer,
           AdmittedWithinLimit
<1> QED
    BY <1>2, <1>3 DEF LimitIInv

(* INCR takes the next number; the first one goes on to set the TTL.       *)
LEMMA IncrPreservesIInv ==
    ASSUME LimitIInv, NEW r \in Logins, Incr(r)
    PROVE  LimitIInv'
<1>1. r \notin window
    BY DEF Incr, LimitIInv, TicketsDiffer
<1> USE DEF Incr, Proceed, LimitIInv, LimitTypeOK
<1>2. LimitTypeOK'
    BY DEF LimitStages
<1>3. OneSetsTTL'
    BY DEF OneSetsTTL
<1>4. CounterMayEnd'
    BY DEF CounterMayEnd
<1>5. TicketsDiffer'
    BY <1>1 DEF TicketsDiffer
<1>6. AdmittedWithinLimit'
    BY DEF AdmittedWithinLimit
<1> QED
    BY <1>2, <1>3, <1>4, <1>5, <1>6

(* An INCR that failed may have made a counter that nobody will end.       *)
LEMMA IncrFailsPreservesIInv ==
    ASSUME LimitIInv, NEW r \in Logins, IncrFails(r)
    PROVE  LimitIInv'
<1>lost. /\ lost' \in BOOLEAN
         /\ lost \/ (counter' # counter /\ counter = 0) => lost'
    <2>1. CASE UNCHANGED <<counter, lost>>
        BY <2>1 DEF LimitIInv, LimitTypeOK
    <2>2. CASE lost' = (lost \/ counter = 0)
        BY <2>2, Zenon
    <2> QED
        BY <2>1, <2>2 DEF IncrFails
<1>counted. counter' \in {counter, counter + 1}
    BY DEF IncrFails
<1> USE DEF IncrFails, Proceed, LimitIInv, LimitTypeOK
<1>1. LimitTypeOK'
    BY <1>lost, <1>counted DEF LimitStages, Verdicts
<1>2. OneSetsTTL'
    BY DEF OneSetsTTL
<1>3. CounterMayEnd'
    <2>1. CASE counter > 0
        BY <2>1, <1>lost DEF CounterMayEnd
    <2>2. CASE counter = 0
        BY <2>2, <1>lost, <1>counted DEF CounterMayEnd
    <2> QED
        BY <2>1, <2>2
<1>4. TicketsDiffer'
    BY DEF TicketsDiffer
<1>5. AdmittedWithinLimit'
    BY DEF AdmittedWithinLimit
<1> QED
    BY <1>1, <1>2, <1>3, <1>4, <1>5

(* EXPIRE, applied or not, and the death of the process before it.         *)
LEMMA SetTTLPreservesIInv ==
    ASSUME LimitIInv, NEW r \in Logins,
           SetTTL(r) \/ SetTTLFails(r) \/ Crash(r)
    PROVE  LimitIInv'
<1>lost. /\ lost' \in BOOLEAN
         /\ lost \/ (progress[r] = "expire" /\ ~ttl') => lost'
    BY Zenon DEF SetTTL, SetTTLFails, Crash, LimitIInv, LimitTypeOK
<1>ttl. ttl' \in BOOLEAN /\ (ttl' => ttl \/ progress[r] = "expire")
    <2>1. ttl' = ttl \/ (progress[r] = "expire" /\ ttl' = TRUE)
        BY DEF SetTTL, SetTTLFails, Crash
    <2>2. CASE ttl' = ttl
        BY <2>2 DEF LimitIInv, LimitTypeOK
    <2>3. CASE progress[r] = "expire" /\ ttl' = TRUE
        BY <2>3
    <2> QED
        BY <2>1, <2>2, <2>3
<1> USE DEF SetTTL, SetTTLFails, Crash, Proceed, LimitIInv,
            LimitTypeOK
<1>1. LimitTypeOK'
    BY <1>lost, <1>ttl DEF LimitStages, OneSetsTTL
<1>2. OneSetsTTL'
    BY DEF OneSetsTTL
<1>3. CounterMayEnd'
    BY <1>lost DEF CounterMayEnd, OneSetsTTL
<1>4. TicketsDiffer'
    BY DEF TicketsDiffer
<1>5. AdmittedWithinLimit'
    BY DEF AdmittedWithinLimit
<1> QED
    BY <1>1, <1>2, <1>3, <1>4, <1>5

(* The verdict compares the number with the limit.                         *)
LEMMA DecidePreservesIInv ==
    ASSUME LimitIInv, NEW r \in Logins, Decide(r)
    PROVE  LimitIInv'
<1> USE DEF Decide, Proceed, LimitIInv, LimitTypeOK
<1>1. LimitTypeOK'
    BY DEF LimitStages, Verdicts
<1>2. OneSetsTTL' /\ CounterMayEnd' /\ TicketsDiffer'
    BY DEF OneSetsTTL, CounterMayEnd, TicketsDiffer
<1>3. AdmittedWithinLimit'
    BY MaxPerMinAssumption DEF AdmittedWithinLimit
<1> QED
    BY <1>1, <1>2, <1>3

(* The end of the minute begins a window without logins.                   *)
LEMMA ExpirePreservesIInv ==
    ASSUME LimitIInv, Expire
    PROVE  LimitIInv'
<1> USE DEF Expire, LimitIInv
<1>1. LimitTypeOK'
    BY DEF LimitTypeOK
<1>2. OneSetsTTL'
    BY DEF OneSetsTTL
<1>3. CounterMayEnd' /\ TicketsDiffer'
    BY DEF CounterMayEnd, TicketsDiffer
<1>4. AdmittedWithinLimit'
    BY DEF AdmittedWithinLimit
<1> QED
    BY <1>1, <1>2, <1>3, <1>4

LEMMA LimitStutterPreservesIInv == LimitIInv /\ UNCHANGED limitVars => LimitIInv'
BY DEF limitVars, LimitIInv, LimitTypeOK, OneSetsTTL, CounterMayEnd,
       TicketsDiffer, AdmittedWithinLimit

(* Every step preserves the invariant.                                     *)
LEMMA LimitNextPreservesIInv == LimitIInv /\ [LimitNext]_limitVars => LimitIInv'
BY IncrPreservesIInv, IncrFailsPreservesIInv, SetTTLPreservesIInv, DecidePreservesIInv,
   ExpirePreservesIInv, LimitStutterPreservesIInv
DEF LimitNext, AllJudged

(* The strengthened invariant holds in every reachable state, for every    *)
(* limit the code leaves standing: it replaces maxPerMin <= 0.             *)
THEOREM LimitInvariance == LimitSpec => []LimitIInv
BY LimitInitIInv, LimitNextPreservesIInv, PTL DEF LimitSpec

(* Every variable keeps its shape, and a TTL belongs to a counter.         *)
THEOREM LimitTypeCorrect == LimitSpec => []LimitTypeOK
<1>1. LimitIInv => LimitTypeOK
    BY DEF LimitIInv
<1> QED
    BY <1>1, LimitInvariance, PTL

(* The numbers of the admitted are an injection into 1..MaxPerMin.         *)
LEMMA AdmittedCounted == LimitIInv => AtMostMaxPerWindow
<1> SUFFICES ASSUME LimitIInv
             PROVE  AtMostMaxPerWindow
    OBVIOUS
<1> USE MaxPerMinAssumption
<1> DEFINE Admitted == {r \in window : verdict[r] = "admitted"}
           number == [r \in Admitted |-> ticket[r]]
<1>1. number \in [Admitted -> 1..MaxPerMin]
    BY DEF LimitIInv, LimitTypeOK, TicketsDiffer, AdmittedWithinLimit
<1>2. \A r, s \in Admitted : number[r] = number[s] => r = s
    BY DEF LimitIInv, TicketsDiffer
<1>3. number \in Injection(Admitted, 1..MaxPerMin)
    BY <1>1, <1>2, Fun_IsInj
<1>4. IsFiniteSet(1..MaxPerMin) /\ Cardinality(1..MaxPerMin) = MaxPerMin
    BY FS_Interval
<1>5. Cardinality(Admitted) <= Cardinality(1..MaxPerMin)
    BY <1>3, <1>4, FS_Injection
<1> QED
    BY <1>4, <1>5 DEF AtMostMaxPerWindow, Cardinality

(* No window admits more logins than the limit.                            *)
THEOREM WindowsLimited == LimitSpec => []AtMostMaxPerWindow
BY AdmittedCounted, LimitInvariance, PTL

(* A counter that nothing will end has lost its EXPIRE: the safety half of *)
(* CounterExpiresUnlessLost.                                               *)
THEOREM CountersEndUnlessLost == LimitSpec => []CounterMayEnd
<1>1. LimitIInv => CounterMayEnd
    BY DEF LimitIInv
<1> QED
    BY <1>1, LimitInvariance, PTL

=============================================================================
