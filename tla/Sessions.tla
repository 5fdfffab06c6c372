------------------------------ MODULE Sessions ------------------------------
(***************************************************************************)
(* Logins, refreshed tokens and logouts of one user: identity.Service      *)
(* Authenticate and auth.Service over the users table, and the check of    *)
(* middleware.JWTAuth.  A token carries the token_version its user had     *)
(* when it was signed and is accepted while the row still has it.  Every   *)
(* repository call is one step, so what a request has read may be stale    *)
(* when it writes or signs.  Rows of different users do not interact.  No  *)
(* time: the code signs an expiry and never compares it.                   *)
(***************************************************************************)
EXTENDS Integers

CONSTANTS
    Requests, \* logins, refreshes and logouts, each made at most once
    Devices,
    NoDevice  \* the empty device_id

ASSUME NoDeviceAssumption == NoDevice \notin Devices

VARIABLES
    device,   \* users.device_id
    version,  \* users.token_version
    pc,       \* what each request does next
    kind,     \* what each request is
    given,    \* the device of a login
    seen,     \* the version a request has read, or verified in a token
    session,  \* the login whose tokens a request continues
    token,    \* the version in the token a request issued
    revoked,  \* history: sessions opened before a logout that succeeded
    together  \* history: pairs of requests that were under way at once

userVars == <<device, version>>

requestVars == <<pc, kind, given, seen, session, token>>

vars == <<userVars, requestVars, revoked, together>>

-----------------------------------------------------------------------------

NoToken == -1

UnderWay == {"bind", "signPair", "signAccess", "bump"}

Stages == UnderWay \cup {"idle", "done"}

RequestKinds == {"none", "login", "refresh", "logout"}

Init ==
    /\ device \in Devices \cup {NoDevice}
    /\ version = 0
    /\ pc = [r \in Requests |-> "idle"]
    /\ kind = [r \in Requests |-> "none"]
    /\ given = [r \in Requests |-> NoDevice]
    /\ seen = [r \in Requests |-> 0]
    /\ session = [r \in Requests |-> r]
    /\ token = [r \in Requests |-> NoToken]
    /\ revoked = {}
    /\ together = {}

Goto(r, stage) == pc' = [pc EXCEPT ![r] = stage]

(* The first read of r has been answered.                                  *)
Start(r, k, stage) ==
    /\ pc[r] = "idle"
    /\ Goto(r, stage)
    /\ kind' = [kind EXCEPT ![r] = k]
    /\ seen' = [seen EXCEPT ![r] = version]
    /\ together' = together \cup {{r, s} : s \in {s \in Requests : pc[s] \in UnderWay}}

Issued == {r \in Requests : token[r] # NoToken}

(* user.TokenVersion == ver, for JWTAuth and for Refresh.                  *)
Accepted(q) == q \in Issued /\ token[q] = version

-----------------------------------------------------------------------------
(* Authenticate and Login.                                                 *)

(* FindByPhone, with the PIN that matches; what device the login names.    *)
LoginUnbound(r) ==
    /\ device = NoDevice
    /\ \E d \in Devices : given' = [given EXCEPT ![r] = d]
    /\ Start(r, "login", "bind")
    /\ UNCHANGED <<userVars, session, token, revoked>>

LoginAnyDevice(r) ==  \* mutant: a bound device is not compared
    /\ device # NoDevice
    /\ \E d \in Devices \cup {NoDevice} : given' = [given EXCEPT ![r] = d]
    /\ Start(r, "login", "signPair")
    /\ UNCHANGED <<userVars, session, token, revoked>>

LoginBound(r) ==
    /\ device # NoDevice
    /\ \E d \in {device, NoDevice} : given' = [given EXCEPT ![r] = d]
    /\ Start(r, "login", "signPair")
    /\ UNCHANGED <<userVars, session, token, revoked>>

(* UpdateDevice: WHERE id = $2, whatever device is bound by now.           *)
Bind(r) ==
    /\ pc[r] = "bind"
    /\ device' = given[r]
    /\ Goto(r, "signPair")
    /\ UNCHANGED <<version, kind, given, seen, session, token, revoked, together>>

(* sign, twice, with the version read by FindByPhone.                      *)
SignPair(r) ==
    /\ pc[r] = "signPair"
    /\ token' = [token EXCEPT ![r] = seen[r]]
    /\ Goto(r, "done")
    /\ UNCHANGED <<userVars, kind, given, seen, session, revoked, together>>

-----------------------------------------------------------------------------
(* Refresh.                                                                *)

(* FindByID and the comparison.  REFRESH_SECRET is JWT_SECRET unless it is *)
(* set, so any token will do: that of a login or one refreshed before.     *)
Refresh(r) ==
    \E q \in Issued :
        /\ Accepted(q)
        /\ session' = [session EXCEPT ![r] = session[q]]
        /\ Start(r, "refresh", "signAccess")
        /\ UNCHANGED <<userVars, given, token, revoked>>

SignAccessAnew(r) ==  \* mutant: the token is signed with the version of now
    /\ pc[r] = "signAccess"
    /\ token' = [token EXCEPT ![r] = version]
    /\ Goto(r, "done")
    /\ UNCHANGED <<userVars, kind, given, seen, session, revoked, together>>

SignAccess(r) ==
    /\ pc[r] = "signAccess"
    /\ token' = [token EXCEPT ![r] = seen[r]]
    /\ Goto(r, "done")
    /\ UNCHANGED <<userVars, kind, given, seen, session, revoked, together>>

-----------------------------------------------------------------------------
(* Logout.                                                                 *)

(* FindByID.                                                               *)
Logout(r) ==
    /\ Start(r, "logout", "bump")
    /\ UNCHANGED <<userVars, given, session, token, revoked>>

BumpDown(r) ==  \* mutant: the version is counted down
    /\ pc[r] = "bump"
    /\ version' = seen[r] - 1
    /\ revoked' = revoked \cup
           {q \in Issued : kind[q] = "login" /\ {q, r} \notin together}
    /\ Goto(r, "done")
    /\ UNCHANGED <<device, kind, given, seen, session, token, together>>

(* UpdateTokenVersion(seen + 1).  Revoked are the sessions of logins that  *)
(* had been answered when the logout began.                                *)
Bump(r) ==
    /\ pc[r] = "bump"
    /\ version' = seen[r] + 1
    /\ revoked' = revoked \cup
           {q \in Issued : kind[q] = "login" /\ {q, r} \notin together}
    /\ Goto(r, "done")
    /\ UNCHANGED <<device, kind, given, seen, session, token, together>>

-----------------------------------------------------------------------------
(* An error: a wrong PIN, a device that does not match or is missing, a    *)
(* token that is not accepted, a failed statement that may have been       *)
(* applied.  The request is answered with it.                              *)
Refused(r) ==
    /\ pc[r] = "idle"
    /\ Goto(r, "done")
    /\ UNCHANGED <<userVars, kind, given, seen, session, token, revoked, together>>

WriteFails(r) ==
    /\ \/ /\ pc[r] = "bind"
          /\ device' \in {device, given[r]}
          /\ UNCHANGED version
       \/ /\ pc[r] = "bump"
          /\ version' \in {version, seen[r] + 1}
          /\ UNCHANGED device
    /\ Goto(r, "done")
    /\ UNCHANGED <<kind, given, seen, session, token, revoked, together>>

AllDone ==
    /\ \A r \in Requests : pc[r] = "done"
    /\ UNCHANGED vars

Next ==
    \/ \E r \in Requests :
        \/ LoginUnbound(r) \/ LoginBound(r) \/ Bind(r) \/ SignPair(r)
        \/ Refresh(r) \/ SignAccess(r)
        \/ Logout(r) \/ Bump(r)
        \/ Refused(r) \/ WriteFails(r)
    \/ AllDone

Spec == Init /\ [][Next]_vars

-----------------------------------------------------------------------------
(* Properties.                                                             *)

(* The shape of every variable.                                            *)
TypeOK ==
    /\ device \in Devices \cup {NoDevice}
    /\ version \in Nat
    /\ pc \in [Requests -> Stages]
    /\ kind \in [Requests -> RequestKinds]
    /\ given \in [Requests -> Devices \cup {NoDevice}]
    /\ seen \in [Requests -> Nat]
    /\ session \in [Requests -> Requests]
    /\ token \in [Requests -> Nat \cup {NoToken}]
    /\ revoked \in SUBSET Requests
    /\ together \in SUBSET SUBSET Requests

Overlapped(r, s) == r # s /\ {r, s} \in together

(* "Logout increments token version so older tokens become invalid"        *)
(* (auth/service.go): once a logout has succeeded, nothing issued to a     *)
(* login that was over when the logout began is ever accepted again, the   *)
(* access tokens refreshed from it included.                               *)
LogoutRevokes ==
    \A q \in Issued : session[q] \in revoked => ~Accepted(q)

LogoutsOverlapped ==
    \E r, s \in Requests :
        Overlapped(r, s) /\ kind[r] = "logout" /\ kind[s] = "logout"

(* That holds as long as no two logouts of the user overlap, whatever      *)
(* logins and refreshes race with them.                                    *)
LogoutRevokesUnlessOverlapped == LogoutRevokes \/ LogoutsOverlapped

Named(r) == kind[r] = "login" /\ given[r] # NoDevice

OneDevice == \A r, s \in Issued : Named(r) /\ Named(s) => given[r] = given[s]

BindingsOverlapped ==
    \E r, s \in Requests :
        Overlapped(r, s) /\ Named(r) /\ Named(s) /\ given[r] # given[s]

(* A user is bound to one device: no two logins succeed from different     *)
(* ones, unless two logins that named different ones overlapped while none *)
(* was bound.                                                              *)
OneDeviceUnlessOverlapped == OneDevice \/ BindingsOverlapped

-----------------------------------------------------------------------------
(* The inductive invariant behind LoginProofs.                              *)

(* What a request is, at each of its stages.                               *)
KindsMatch ==
    \A r \in Requests :
        /\ pc[r] = "idle" => kind[r] = "none" /\ session[r] = r
        /\ pc[r] \in {"bind", "signPair"} => kind[r] = "login"
        /\ pc[r] = "bind" => given[r] # NoDevice
        /\ pc[r] = "signAccess" => kind[r] = "refresh"
        /\ pc[r] = "bump" => kind[r] = "logout"
        /\ pc[r] # "done" => r \notin Issued
        /\ kind[r] = "login" => session[r] = r

(* Requests under way at once have been recorded as such.                  *)
RecordedTogether ==
    \A r, s \in Requests :
        (pc[r] \in UnderWay /\ pc[s] \in UnderWay /\ r # s) => Overlapped(r, s)

(* As long as logouts do not overlap the version only grows, so what has   *)
(* been read or signed is never ahead of it, a logout under way has read   *)
(* the version of now, and a revoked session is behind it, in its tokens   *)
(* and in those that are about to be signed.                               *)
VersionGrows ==
    \/ \A r \in Requests :
        /\ token[r] <= version
        /\ pc[r] \in UnderWay => seen[r] <= version
        /\ pc[r] = "bump" => seen[r] = version
        /\ session[r] \in revoked =>
             /\ r \in Issued => token[r] < version
             /\ pc[r] = "signAccess" => seen[r] < version
    \/ LogoutsOverlapped

(* As long as bindings do not overlap, everybody who is bound, or about to *)
(* be, names the one device.                                               *)
BoundOnce ==
    \/ /\ \A r, s \in Requests :
            (pc[r] = "bind" /\ pc[s] = "bind") => given[r] = given[s]
       /\ \A r \in Requests :
            /\ (pc[r] = "bind" /\ device # NoDevice) => given[r] = device
            /\ (Named(r) /\ (pc[r] = "signPair" \/ r \in Issued)) => given[r] = device
    \/ BindingsOverlapped

IInv ==
    /\ TypeOK
    /\ KindsMatch
    /\ RecordedTogether
    /\ revoked \subseteq Issued
    /\ VersionGrows
    /\ BoundOnce

=============================================================================
