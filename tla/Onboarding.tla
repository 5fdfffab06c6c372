----------------------------- MODULE Onboarding -----------------------------
(***************************************************************************)
(* POST /identity/register: identity.Service.Register inserts the user,    *)
(* then wallet.Service.Create makes the ledger account and the wallet row. *)
(* Three writes without a transaction around them; each may fail before or *)
(* after it is applied, and the process may die between two of them.  No   *)
(* other route makes a user, an account of a wallet, or a wallet.  Between *)
(* the writes others already look the wallet up: GET /wallet and the login.*)
(*                                                                         *)
(* A registration stands for the uuids it draws: of its user, and of its   *)
(* wallet with the account "wallet:<uuid>".                                *)
(***************************************************************************)
EXTENDS FiniteSets

CONSTANTS
    Requests, \* registrations and lookups, each made at most once
    Phones,   \* normalized phone numbers
    NoPhone,
    NoWallet  \* the wallet_id of Wallet{}

ASSUME NoPhoneAssumption == NoPhone \notin Phones

ASSUME NoWalletAssumption == NoWallet \notin Requests

VARIABLES
    users,    \* rows of table users
    accounts, \* wallet accounts of the ledger
    wallets,  \* rows of table wallets
    pc,       \* the write each request makes next
    phone,    \* the phone number of each request
    reply     \* what each request was answered

vars == <<users, accounts, wallets, pc, phone, reply>>

-----------------------------------------------------------------------------

Stages == {"idle", "ensureAccount", "createWallet", "readBalance",
           "done", "crashed"}

Replies == [status: {"none", "registered", "refused",
                     "found", "notFound", "unreadable"},
            wallet: Requests \cup {NoWallet}]

Reply(status, w) == [status |-> status, wallet |-> w]

Init ==
    /\ users = {}
    /\ accounts = {}
    /\ wallets = {}
    /\ pc = [r \in Requests |-> "idle"]
    /\ phone = [r \in Requests |-> NoPhone]
    /\ reply = [r \in Requests |-> Reply("none", NoWallet)]

Goto(r, stage) == pc' = [pc EXCEPT ![r] = stage]

Answer(r, status, w) ==
    /\ Goto(r, "done")
    /\ reply' = [reply EXCEPT ![r] = Reply(status, w)]

(* wallets.Create returned an error, which the handler drops.              *)
AnswerWithoutWallet(r) == Answer(r, "registered", NoWallet)

Taken(p) == \E u \in users : phone[u] = p

-----------------------------------------------------------------------------

RegisterUnindexed(r) ==  \* mutant: phone is not UNIQUE
    /\ pc[r] = "idle"
    /\ \E p \in Phones : phone' = [phone EXCEPT ![r] = p]
    /\ users' = users \cup {r}
    /\ Goto(r, "ensureAccount")
    /\ UNCHANGED <<accounts, wallets, reply>>

(* INSERT INTO users; phone is UNIQUE.                                     *)
Register(r) ==
    /\ pc[r] = "idle"
    /\ \E p \in Phones :
        /\ phone' = [phone EXCEPT ![r] = p]
        /\ \/ /\ ~Taken(p)
              /\ users' = users \cup {r}
              /\ Goto(r, "ensureAccount")
              /\ UNCHANGED reply
           \/ /\ Taken(p)
              /\ Answer(r, "refused", NoWallet)
              /\ UNCHANGED users
    /\ UNCHANGED <<accounts, wallets>>

(* A PIN or a phone number that will not do, or a statement that fails.    *)
RegisterFails(r) ==
    /\ pc[r] = "idle"
    /\ \E p \in Phones :
        /\ phone' = [phone EXCEPT ![r] = p]
        /\ users' \in {users} \cup (IF Taken(p) THEN {} ELSE {users \cup {r}})
    /\ Answer(r, "refused", NoWallet)
    /\ UNCHANGED <<accounts, wallets>>

EnsureAccount(r) ==
    /\ pc[r] = "ensureAccount"
    /\ accounts' = accounts \cup {r}
    /\ Goto(r, "createWallet")
    /\ UNCHANGED <<users, wallets, phone, reply>>

EnsureAccountErrorIgnored(r) ==  \* mutant: the error is not returned
    /\ pc[r] = "ensureAccount"
    /\ Goto(r, "createWallet")
    /\ UNCHANGED <<users, accounts, wallets, phone, reply>>

EnsureAccountFails(r) ==
    /\ pc[r] = "ensureAccount"
    /\ accounts' \in {accounts, accounts \cup {r}}
    /\ AnswerWithoutWallet(r)
    /\ UNCHANGED <<users, wallets, phone>>

CreateWalletNamesPhone(r) ==  \* mutant: wallet_id is filled from the wrong field
    /\ pc[r] = "createWallet"
    /\ wallets' = wallets \cup {r}
    /\ Answer(r, "registered", phone[r])
    /\ UNCHANGED <<users, accounts, phone>>

CreateWallet(r) ==
    /\ pc[r] = "createWallet"
    /\ wallets' = wallets \cup {r}
    /\ Answer(r, "registered", r)
    /\ UNCHANGED <<users, accounts, phone>>

CreateWalletErrorIgnored(r) ==  \* mutant: the wallet is returned all the same
    /\ pc[r] = "createWallet"
    /\ Answer(r, "registered", r)
    /\ UNCHANGED <<users, accounts, wallets, phone>>

CreateWalletFails(r) ==
    /\ pc[r] = "createWallet"
    /\ wallets' \in {wallets, wallets \cup {r}}
    /\ AnswerWithoutWallet(r)
    /\ UNCHANGED <<users, accounts, phone>>

(* SELECT FROM wallets WHERE owner_id = u LIMIT 1; the wallet of u, if     *)
(* there is one, has his name here.                                        *)
FindByOwner(u) == wallets \cap {u}

(* A user looks for his wallet; any error is answered 404 as well.         *)
FindWallet(r) ==
    /\ pc[r] = "idle"
    /\ \E u \in users :
        /\ phone' = [phone EXCEPT ![r] = phone[u]]
        /\ \/ \E w \in FindByOwner(u) :
                /\ Goto(r, "readBalance")
                /\ reply' = [reply EXCEPT ![r].wallet = w]
           \/ Answer(r, "notFound", NoWallet)
    /\ UNCHANGED <<users, accounts, wallets>>

(* Balance of the account of the wallet; the in-memory ledger has none for *)
(* an account that does not exist.                                         *)
ReadBalance(r) ==
    LET w == reply[r].wallet
    IN
    /\ pc[r] = "readBalance"
    /\ \/ Answer(r, IF w \in accounts THEN "found" ELSE "unreadable", w)
       \/ Answer(r, "refused", NoWallet)
    /\ UNCHANGED <<users, accounts, wallets, phone>>

Crash(r) ==
    /\ pc[r] \in {"ensureAccount", "createWallet", "readBalance"}
    /\ Goto(r, "crashed")
    /\ UNCHANGED <<users, accounts, wallets, phone, reply>>

AllEnded ==
    /\ \A r \in Requests : pc[r] \in {"done", "crashed"}
    /\ UNCHANGED vars

Next ==
    \/ \E r \in Requests :
        \/ Register(r)      \/ RegisterFails(r)
        \/ EnsureAccount(r) \/ EnsureAccountFails(r)
        \/ CreateWallet(r)  \/ CreateWalletFails(r)
        \/ FindWallet(r)    \/ ReadBalance(r)
        \/ Crash(r)
    \/ AllEnded

Spec == Init /\ [][Next]_vars

-----------------------------------------------------------------------------
(* Properties.                                                             *)

(* The shape of every variable.                                            *)
TypeOK ==
    /\ users \in SUBSET Requests
    /\ accounts \in SUBSET Requests
    /\ wallets \in SUBSET Requests
    /\ pc \in [Requests -> Stages]
    /\ phone \in [Requests -> Phones \cup {NoPhone}]
    /\ reply \in [Requests -> Replies]

(* However registrations race, fail half-way or are repeated, a phone      *)
(* number has one user, and that user has at most one wallet: the wallet   *)
(* of a phone is well defined.                                             *)
OneWalletPerPhone ==
    /\ \A u, v \in users : phone[u] = phone[v] => u = v
    /\ \A v, w \in wallets : phone[v] = phone[w] => v = w

(* The foreign keys of wallets always hold, with a backend that does not   *)
(* check them too: no wallet is without its user or its ledger account, so *)
(* no posting fails for want of an account.                                *)
WalletsAreComplete == wallets \subseteq (users \cap accounts)

(* Whoever learns of a wallet can use it, however early he looks: it is    *)
(* there with an account whose balance can be read, and everybody who asks *)
(* for the same phone number is told of the same one.                      *)
AnnouncedWalletsWork ==
    \A r \in Requests :
        reply[r].wallet # NoWallet =>
            /\ reply[r].wallet \in wallets
            /\ reply[r].status # "unreadable"
            /\ \A s \in Requests :
                (phone[s] = phone[r] /\ reply[s].wallet # NoWallet) =>
                    reply[s].wallet = reply[r].wallet

(* "auto-creates wallet and returns wallet_id" (README.md): whoever is     *)
(* told that he is registered has a wallet.                                *)
RegisteredHasWallet ==
    \A r \in Requests :
        reply[r].status = "registered" => reply[r].wallet # NoWallet

-----------------------------------------------------------------------------
(* The inductive invariant behind OnboardingProofs.                        *)

(* What a request has written by the time it makes its next write.         *)
WritesInOrder ==
    \A r \in Requests :
        /\ pc[r] = "idle" => r \notin users /\ reply[r] = Reply("none", NoWallet)
        /\ pc[r] \in {"ensureAccount", "createWallet"} =>
            /\ r \in users
            /\ reply[r].wallet = NoWallet
        /\ pc[r] = "createWallet" => r \in accounts
        /\ pc[r] = "readBalance" => reply[r].wallet # NoWallet

(* The wallet a request learnt of is the wallet of its phone number.       *)
AnnouncedIsOwn ==
    \A r \in Requests :
        reply[r].wallet # NoWallet =>
            /\ reply[r].wallet \in wallets
            /\ phone[reply[r].wallet] = phone[r]
            /\ reply[r].status # "unreadable"

IInv ==
    /\ TypeOK
    /\ OneWalletPerPhone
    /\ WalletsAreComplete
    /\ WritesInOrder
    /\ AnnouncedIsOwn

=============================================================================
